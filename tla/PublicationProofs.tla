-------------------------- MODULE PublicationProofs --------------------------
(***************************************************************************)
(* Proofs about Publication, for any Tasks of a branch, any baselines they *)
(* expect, and any number of attempts, faults and moves by others.         *)
(***************************************************************************)
EXTENDS Publication, TLAPS

\* Zenon proves every leaf that names no other backend.
USE ZenonT(60)

----------------------------------------------------------------------------
(* The inductive invariant. *)

\* The steps of a pass, by the state of the Publication it works on.
Claimed == {"preflight", "settlePreflight", "cleanup", "create"}
Unpublished == {"idle", "claim"} \cup Claimed
InPreparing == {"toPreparing", "prepare", "settlePrepare", "setPrepared", "setFailed"}
InPrepared == {"toPrepared", "decide", "cancelPrepared", "setPublishing"}
InPublishing == {"toPublishing", "publish", "setVerifying"}
Judged == {"settlePublish", "prIntent", "pr", "prReceipt", "settlePr", "setOutcome"}
InVerifying == {"toVerifying", "verify", "settleVerify"} \cup Judged

\* A pass is at a step q that fits the state s of its Publication.
Stage(q, s) ==
    /\ q \in Unpublished => s = "none"
    /\ q \in InPreparing => s = "Preparing"
    /\ q \in InPrepared => s \in {"Prepared", "CancelledBeforePublish"}
    /\ q \in InPublishing => s = "Publishing"
    /\ q \in InVerifying => s = "Verifying"
    /\ q \in {"toOutcome", "reclaim"} => s \in TerminalPub

\* A call is made under an effect in flight, and verification has a verdict once it has succeeded.
Calls(p, e, y) ==
    /\ p.pc \in Judged => p.verdict # "none"
    /\ p.call # "no" => p.pc \in Kinds /\ e[p.pc] = "InFlight"
    /\ p.pc = "verify" => p.call \in {"no", "sent"} \cup Verdicts
    /\ e["verify"] = "Succeeded" => y["verify"] \in Verdicts

\* Somewhere between the publisher and the Publication it is said that the commit was delivered.
Says(p, s, y) ==
    p.call \in Delivered \/ p.verdict \in Delivered \/ s \in Delivered \/ \E k \in Kinds : y[k] \in Delivered

\* The owner c of the branch is t from the claim to the end of its Publication.
Holds(t, p, s, c) ==
    /\ p.pc \in Claimed => c = t
    /\ s \in ActivePub \cup {"OutcomeUnknown"} => c = t

\* The publish receipt is there when the Publication is verified, and the delivery d does not
\* run ahead of the Publication.
Told(s, a, d) ==
    /\ s = "Verifying" => a # "none"
    /\ s = "none" => d = "Validating" \/ d \in TerminalDelivery
    /\ d \in Delivered => s = d

\* The states of a Publication whose commit may have been pushed.
Past == {"Publishing", "Verifying", "DeliveryConflict", "OutcomeUnknown"} \cup Delivered

TaskInv(t) ==
    /\ Stage(pass[t].pc, pub[t]) /\ Calls(pass[t], effect[t], reply[t])
    /\ Holds(t, pass[t], pub[t], claim) /\ Told(pub[t], ack[t], delivery[t])
    /\ Says(pass[t], pub[t], reply[t]) \/ journal[t].verify \in Delivered => t \in landed
    /\ t \in landed \/ <<t, "publish">> \in late => pub[t] \in Past

\* What is on the branch was pushed by its Task or by others, and what was pushed is there
\* unless others moved the branch.
BranchInv ==
    /\ \A i \in 1 .. Len(remote) : remote[i] \in landed \cup {"other"}
    /\ foreign = 0 => \A t \in landed : IsAncestor(Commit(t), remote)

PublicationInv == TypeOK /\ (\A t \in Tasks : TaskInv(t)) /\ BranchInv

----------------------------------------------------------------------------
(* The branch. *)

\* A branch is an ancestor of itself.
LEMMA AncestorSelf == ASSUME NEW S, NEW s \in Seq(S) PROVE IsAncestor(s, s)
BY SMTT(60) DEF IsAncestor

\* An ancestor stays one when a commit is added.
LEMMA AncestorAppend ==
    ASSUME NEW S, NEW s \in Seq(S), NEW a \in Seq(S), NEW x \in S, IsAncestor(s, a)
    PROVE  IsAncestor(s, Append(a, x))
BY SMTT(60) DEF IsAncestor

\* A branch is an ancestor of what it becomes when a commit is added.
Extends(S, s, x, b) ==
    /\ b \in Seq(S) /\ Len(b) = Len(s) + 1 /\ b[Len(s) + 1] = x /\ (\A i \in 1 .. Len(s) : b[i] = s[i])
    /\ IsAncestor(s, b) /\ IsAncestor(b, b)
LEMMA Extended ==
    ASSUME NEW S, NEW s \in Seq(S), NEW x \in S, NEW b, b = Append(s, x)
    PROVE  Extends(S, s, x, b)
<1>1. b \in Seq(S) /\ Len(b) = Len(s) + 1 /\ b[Len(s) + 1] = x /\ \A i \in 1 .. Len(s) : b[i] = s[i]
  BY SMTT(60)
<1>2. IsAncestor(s, s) /\ IsAncestor(b, b)
  BY <1>1, AncestorSelf
<1>3. IsAncestor(s, b)
  BY <1>2, AncestorAppend
<1> QED BY <1>1, <1>2, <1>3 DEF Extends

\* The last commit of an ancestor is on the branch.
LEMMA AncestorLast ==
    ASSUME NEW S, NEW s \in Seq(S), NEW a \in Seq(S), NEW x \in S, IsAncestor(Append(s, x), a)
    PROVE  \E i \in 1 .. Len(a) : a[i] = x
<1>1. Append(s, x) \in Seq(S) /\ Len(Append(s, x)) = Len(s) + 1 /\ Append(s, x)[Len(s) + 1] = x
  BY SMTT(60)
<1>2. Len(s) + 1 \in 1 .. Len(a) /\ a[Len(s) + 1] = x
  BY SMTT(60), <1>1 DEF IsAncestor
<1> QED BY <1>2

\* The prepared commit of a Task is a sequence of commits.
LEMMA CommitIs ==
    ASSUME TypeOK, NEW t \in Tasks
    PROVE  /\ expects[t] \in Seq(Tasks \cup {"other"}) /\ Commit(t) \in Seq(Tasks \cup {"other"})
           /\ Commit(t) = Append(expects[t], t)
<1>1. expects[t] \in Seq(Tasks)
  BY PublicationAssumption DEF TypeOK
<1>2. expects[t] \in Seq(Tasks \cup {"other"})
  BY SMTT(60), <1>1
<1> QED BY SMTT(60), <1>2 DEF Commit

----------------------------------------------------------------------------
(* Steps of one Task. *)

\* What is settled stays so: a Publication s, a delivery d, the effects e with their responses y.
Same(s, s2, d, d2, e, e2, y, y2) ==
    /\ s \in TerminalPub => s2 = s
    /\ d \in TerminalDelivery => d2 = d
    /\ \A k \in Kinds : e[k] \in Settled => e2[k] = e[k] /\ y2[k] = y[k]
Stays == \A t \in Tasks : Same(pub[t], pub'[t], delivery[t], delivery'[t], effect[t], effect'[t], reply[t], reply'[t])
Forward == foreign' = foreign => IsAncestor(remote, remote')

\* A good step.
Good == PublicationInv' /\ Stays /\ Forward

\* A step that leaves the publisher alone, but for requests of t whose caller is gone.
Outside(t) ==
    /\ UNCHANGED <<expects, journal, remote, landed, foreign>>
    /\ faults' \in 0 .. MaxFaults /\ pr' \in [Tasks -> {"none", "intent", "receipt"}]
    /\ attempts' \in [Tasks -> 0 .. MaxAttempts] /\ cancelled' \subseteq Tasks
    /\ late' \subseteq late \cup Orphans(t)

\* A function changed at one Task.
LEMMA ExceptAt ==
    ASSUME NEW S, NEW f \in [Tasks -> S], NEW t \in Tasks, NEW x \in S, NEW g, g = [f EXCEPT ![t] = x]
    PROVE  g \in [Tasks -> S] /\ g[t] = x /\ \A u \in Tasks : u # t => g[u] = f[u]
OBVIOUS

\* A function that does not change is changed to itself.
LEMMA SameAt ==
    ASSUME NEW S, NEW f \in [Tasks -> S], NEW t \in Tasks
    PROVE  f = [f EXCEPT ![t] = f[t]] /\ f[t] \in S
OBVIOUS

\* A step of Task t leaves its pass at r, its Publication at s with the receipt a, its delivery at d,
\* and its effects at e with the responses y.
Changes(t, r, s, a, d, e, y) ==
    /\ r \in PassRec /\ s \in PubStates /\ a \in {"none", "known", "unknown"} /\ d \in DeliveryStates
    /\ e \in EffectRec /\ y \in ReplyRec
    /\ pass' = [pass EXCEPT ![t] = r] /\ pub' = [pub EXCEPT ![t] = s] /\ ack' = [ack EXCEPT ![t] = a]
    /\ delivery' = [delivery EXCEPT ![t] = d] /\ effect' = [effect EXCEPT ![t] = e] /\ reply' = [reply EXCEPT ![t] = y]
    /\ claim' \in Tasks \cup {"none"} /\ (\A u \in Tasks : u # t /\ claim = u => claim' = u)
    /\ Outside(t)

\* These fit each other and what was there before.
Suits(t, r, s, a, d, e, y) ==
    /\ Stage(r.pc, s) /\ Calls(r, e, y) /\ (Says(r, s, y) => t \in landed) /\ Holds(t, r, s, claim') /\ Told(s, a, d)
    /\ (pub[t] \in Past => s \in Past) /\ Same(pub[t], s, delivery[t], d, effect[t], e, reply[t], y)

\* A step of a Task that suits its new state is good.
LEMMA TaskMoves ==
    ASSUME PublicationInv, NEW t \in Tasks, NEW r, NEW s, NEW a, NEW d, NEW e, NEW y,
           Changes(t, r, s, a, d, e, y), Suits(t, r, s, a, d, e, y)
    PROVE  Good
<1>1. TypeOK
  BY DEF PublicationInv
<1>2. pass' \in [Tasks -> PassRec] /\ pass'[t] = r /\ \A u \in Tasks : u # t => pass'[u] = pass[u]
  BY <1>1 DEF TypeOK, Changes
<1>3. pub' \in [Tasks -> PubStates] /\ pub'[t] = s /\ \A u \in Tasks : u # t => pub'[u] = pub[u]
  BY <1>1 DEF TypeOK, Changes
<1>4. ack' \in [Tasks -> {"none", "known", "unknown"}] /\ ack'[t] = a /\ \A u \in Tasks : u # t => ack'[u] = ack[u]
  BY <1>1 DEF TypeOK, Changes
<1>5. delivery' \in [Tasks -> DeliveryStates] /\ delivery'[t] = d /\ \A u \in Tasks : u # t => delivery'[u] = delivery[u]
  BY <1>1 DEF TypeOK, Changes
<1>6. effect' \in [Tasks -> EffectRec] /\ effect'[t] = e /\ \A u \in Tasks : u # t => effect'[u] = effect[u]
  BY <1>1 DEF TypeOK, Changes
<1>7. reply' \in [Tasks -> ReplyRec] /\ reply'[t] = y /\ \A u \in Tasks : u # t => reply'[u] = reply[u]
  BY <1>1 DEF TypeOK, Changes
<1>8. /\ expects' = expects /\ journal' = journal /\ remote' = remote /\ landed' = landed /\ foreign' = foreign
      /\ late' \subseteq late \cup Orphans(t)
  BY DEF Outside, Changes
<1>9. late' \subseteq Tasks \X {"publish", "verify"}
  <2>1. pass[t].pc \in {"publish", "verify"} => <<t, pass[t].pc>> \in Tasks \X {"publish", "verify"}
    OBVIOUS
  <2>2. Orphans(t) \subseteq Tasks \X {"publish", "verify"}
    BY <2>1 DEF Orphans
  <2> QED BY <1>1, <1>8, <2>2 DEF TypeOK
<1>10. TypeOK'
  BY <1>1, <1>2, <1>3, <1>4, <1>5, <1>6, <1>7, <1>8, <1>9 DEF TypeOK, Outside, Changes
<1>11. ASSUME NEW u \in Tasks, <<u, "publish">> \in late' PROVE <<u, "publish">> \in late \/ (u = t /\ pass[t].pc = "publish")
  BY <1>8, <1>11 DEF Orphans
<1>12. ASSUME NEW u \in Tasks, u # t PROVE TaskInv(u)'
  <2>1. TaskInv(u)
    BY DEF PublicationInv
  <2>2. Stage(pass'[u].pc, pub'[u]) /\ Calls(pass'[u], effect'[u], reply'[u]) /\ Told(pub'[u], ack'[u], delivery'[u])
    BY <1>2, <1>3, <1>4, <1>5, <1>6, <1>7, <1>12, <2>1 DEF TaskInv
  <2>3. Holds(u, pass'[u], pub'[u], claim')
    BY <1>2, <1>3, <1>12, <2>1 DEF TaskInv, Holds, Changes
  <2>4. Says(pass'[u], pub'[u], reply'[u]) \/ journal'[u].verify \in Delivered => u \in landed'
    BY <1>2, <1>3, <1>7, <1>8, <1>12, <2>1 DEF TaskInv
  <2>5. u \in landed' \/ <<u, "publish">> \in late' => pub'[u] \in Past
    BY <1>3, <1>8, <1>11, <1>12, <2>1 DEF TaskInv
  <2> QED BY <2>2, <2>3, <2>4, <2>5 DEF TaskInv
<1>13. TaskInv(t)'
  <2>1. TaskInv(t)
    BY DEF PublicationInv
  <2>2. pass[t].pc = "publish" => pub[t] \in Past
    BY <2>1 DEF TaskInv, Stage, InPublishing, Past
  <2>3. Stage(pass'[t].pc, pub'[t]) /\ Calls(pass'[t], effect'[t], reply'[t]) /\ Told(pub'[t], ack'[t], delivery'[t])
    BY <1>2, <1>3, <1>4, <1>5, <1>6, <1>7 DEF Suits
  <2>4. Holds(t, pass'[t], pub'[t], claim')
    BY <1>2, <1>3 DEF Suits
  <2>5. Says(pass'[t], pub'[t], reply'[t]) \/ journal'[t].verify \in Delivered => t \in landed'
    BY <1>2, <1>3, <1>7, <1>8, <2>1 DEF TaskInv, Suits
  <2>6. t \in landed' \/ <<t, "publish">> \in late' => pub'[t] \in Past
    BY <1>3, <1>8, <1>11, <2>1, <2>2 DEF TaskInv, Suits
  <2> QED BY <2>3, <2>4, <2>5, <2>6 DEF TaskInv
<1>14. BranchInv'
  BY <1>8 DEF PublicationInv, BranchInv, Commit
<1>15. Stays
  <2>1. ASSUME NEW u \in Tasks, u # t
        PROVE  Same(pub[u], pub'[u], delivery[u], delivery'[u], effect[u], effect'[u], reply[u], reply'[u])
    BY <1>3, <1>5, <1>6, <1>7, <2>1 DEF Same
  <2>2. Same(pub[t], pub'[t], delivery[t], delivery'[t], effect[t], effect'[t], reply[t], reply'[t])
    BY <1>3, <1>5, <1>6, <1>7 DEF Suits
  <2> QED BY <2>1, <2>2 DEF Stays
<1>16. Forward
  BY <1>1, <1>8, AncestorSelf DEF Forward, TypeOK
<1> QED BY <1>10, <1>12, <1>13, <1>14, <1>15, <1>16 DEF Good, PublicationInv

\* What is known of a Task.
LEMMA TaskIs ==
    ASSUME PublicationInv, NEW t \in Tasks
    PROVE  /\ pass[t] \in PassRec /\ pub[t] \in PubStates /\ ack[t] \in {"none", "known", "unknown"} /\ delivery[t] \in DeliveryStates
           /\ effect[t] \in EffectRec /\ reply[t] \in ReplyRec /\ TaskInv(t)
           /\ claim \in Tasks \cup {"none"} /\ (Says(pass[t], pub[t], reply[t]) => t \in landed)
BY DEF PublicationInv, TypeOK, TaskInv

\* What a step leaves alone is as it was at t.
LEMMA TaskSame ==
    ASSUME PublicationInv, NEW t \in Tasks
    PROVE  /\ pub = [pub EXCEPT ![t] = pub[t]] /\ ack = [ack EXCEPT ![t] = ack[t]]
           /\ delivery = [delivery EXCEPT ![t] = delivery[t]] /\ pass = [pass EXCEPT ![t] = pass[t]]
           /\ effect = [effect EXCEPT ![t] = effect[t]] /\ reply = [reply EXCEPT ![t] = reply[t]]
BY SameAt DEF PublicationInv, TypeOK

\* Only the pass goes on.
LEMMA PassMoves ==
    ASSUME PublicationInv, NEW t \in Tasks, NEW r \in PassRec, pass' = [pass EXCEPT ![t] = r],
           UNCHANGED <<claim, pub, ack, delivery, effect, reply>>, Outside(t),
           Stage(r.pc, pub[t]), Calls(r, effect[t], reply[t]), r.call \in Delivered \/ r.verdict \in Delivered => t \in landed,
           r.pc \in Claimed => claim = t
    PROVE  Good
<1>1. /\ pub[t] \in PubStates /\ ack[t] \in {"none", "known", "unknown"} /\ delivery[t] \in DeliveryStates
      /\ effect[t] \in EffectRec /\ reply[t] \in ReplyRec /\ TaskInv(t) /\ claim \in Tasks \cup {"none"}
      /\ (Says(pass[t], pub[t], reply[t]) => t \in landed)
  BY TaskIs
<1>2. /\ pub' = [pub EXCEPT ![t] = pub[t]] /\ ack' = [ack EXCEPT ![t] = ack[t]] /\ delivery' = [delivery EXCEPT ![t] = delivery[t]]
      /\ effect' = [effect EXCEPT ![t] = effect[t]] /\ reply' = [reply EXCEPT ![t] = reply[t]]
  BY TaskSame
<1>3. Says(r, pub[t], reply[t]) => t \in landed
  BY <1>1 DEF Says
<1>4. Holds(t, r, pub[t], claim') /\ Told(pub[t], ack[t], delivery[t])
  BY <1>1 DEF TaskInv, Holds
<1>5. Same(pub[t], pub[t], delivery[t], delivery[t], effect[t], effect[t], reply[t], reply[t])
  BY DEF Same
<1>6. claim' \in Tasks \cup {"none"} /\ \A u \in Tasks : u # t /\ claim = u => claim' = u
  BY <1>1
<1>7. Changes(t, r, pub[t], ack[t], delivery[t], effect[t], reply[t])
  BY <1>1, <1>2, <1>3, <1>4, <1>5, <1>6 DEF Changes
<1>8. Suits(t, r, pub[t], ack[t], delivery[t], effect[t], reply[t])
  BY <1>1, <1>2, <1>3, <1>4, <1>5, <1>6 DEF Suits
<1> QED BY TaskMoves, <1>7, <1>8

\* The Publication changes its state.
LEMMA PubMoves ==
    ASSUME PublicationInv, NEW t \in Tasks, NEW r \in PassRec, NEW s \in PubStates, NEW a \in {"none", "known", "unknown"},
           pass' = [pass EXCEPT ![t] = r], pub' = [pub EXCEPT ![t] = s], ack' = [ack EXCEPT ![t] = a],
           UNCHANGED <<claim, delivery, effect, reply>>, Outside(t),
           Stage(r.pc, s), Calls(r, effect[t], reply[t]), Says(r, s, reply[t]) => t \in landed, Holds(t, r, s, claim),
           Told(s, a, delivery[t]), pub[t] \in Past => s \in Past, pub[t] \in TerminalPub => s = pub[t]
    PROVE  Good
<1>1. delivery[t] \in DeliveryStates /\ effect[t] \in EffectRec /\ reply[t] \in ReplyRec /\ claim \in Tasks \cup {"none"}
  BY TaskIs
<1>2. /\ delivery' = [delivery EXCEPT ![t] = delivery[t]]
      /\ effect' = [effect EXCEPT ![t] = effect[t]] /\ reply' = [reply EXCEPT ![t] = reply[t]]
  BY TaskSame
<1>3. Same(pub[t], s, delivery[t], delivery[t], effect[t], effect[t], reply[t], reply[t])
  BY DEF Same
<1>4. claim' \in Tasks \cup {"none"} /\ \A u \in Tasks : u # t /\ claim = u => claim' = u
  BY <1>1
<1>5. Changes(t, r, s, a, delivery[t], effect[t], reply[t])
  BY <1>1, <1>2, <1>3, <1>4 DEF Changes
<1>6. Suits(t, r, s, a, delivery[t], effect[t], reply[t])
  BY <1>1, <1>2, <1>3, <1>4 DEF Suits
<1> QED BY TaskMoves, <1>5, <1>6

\* The delivery changes its state.
LEMMA DeliveryMoves ==
    ASSUME PublicationInv, NEW t \in Tasks, NEW r \in PassRec, NEW d \in DeliveryStates,
           pass' = [pass EXCEPT ![t] = r], delivery' = [delivery EXCEPT ![t] = d],
           UNCHANGED <<claim, pub, ack, effect, reply>>, Outside(t),
           Stage(r.pc, pub[t]), Calls(r, effect[t], reply[t]), r.call \in Delivered \/ r.verdict \in Delivered => t \in landed,
           r.pc \in Claimed => claim = t, Told(pub[t], ack[t], d), delivery[t] \in TerminalDelivery => d = delivery[t]
    PROVE  Good
<1>1. /\ pub[t] \in PubStates /\ ack[t] \in {"none", "known", "unknown"}
      /\ effect[t] \in EffectRec /\ reply[t] \in ReplyRec /\ TaskInv(t) /\ claim \in Tasks \cup {"none"}
      /\ (Says(pass[t], pub[t], reply[t]) => t \in landed)
  BY TaskIs
<1>2. /\ pub' = [pub EXCEPT ![t] = pub[t]] /\ ack' = [ack EXCEPT ![t] = ack[t]]
      /\ effect' = [effect EXCEPT ![t] = effect[t]] /\ reply' = [reply EXCEPT ![t] = reply[t]]
  BY TaskSame
<1>3. Says(r, pub[t], reply[t]) => t \in landed
  BY <1>1 DEF Says
<1>4. Holds(t, r, pub[t], claim')
  BY <1>1 DEF TaskInv, Holds
<1>5. Same(pub[t], pub[t], delivery[t], d, effect[t], effect[t], reply[t], reply[t])
  BY DEF Same
<1>6. claim' \in Tasks \cup {"none"} /\ \A u \in Tasks : u # t /\ claim = u => claim' = u
  BY <1>1
<1>7. Changes(t, r, pub[t], ack[t], d, effect[t], reply[t])
  BY <1>1, <1>2, <1>3, <1>4, <1>5, <1>6 DEF Changes
<1>8. Suits(t, r, pub[t], ack[t], d, effect[t], reply[t])
  BY <1>1, <1>2, <1>3, <1>4, <1>5, <1>6 DEF Suits
<1> QED BY TaskMoves, <1>7, <1>8

\* The ledger changes.
LEMMA LedgerMoves ==
    ASSUME PublicationInv, NEW t \in Tasks, NEW r \in PassRec, NEW e \in EffectRec, NEW y \in ReplyRec,
           pass' = [pass EXCEPT ![t] = r], effect' = [effect EXCEPT ![t] = e], reply' = [reply EXCEPT ![t] = y],
           UNCHANGED <<claim, pub, ack, delivery>>, Outside(t),
           Stage(r.pc, pub[t]), Calls(r, e, y), Says(r, pub[t], y) => t \in landed, r.pc \in Claimed => claim = t,
           \A k \in Kinds : effect[t][k] \in Settled => e[k] = effect[t][k] /\ y[k] = reply[t][k]
    PROVE  Good
<1>1. /\ pub[t] \in PubStates /\ ack[t] \in {"none", "known", "unknown"} /\ delivery[t] \in DeliveryStates
      /\ TaskInv(t) /\ claim \in Tasks \cup {"none"}
  BY TaskIs
<1>2. pub' = [pub EXCEPT ![t] = pub[t]] /\ ack' = [ack EXCEPT ![t] = ack[t]] /\ delivery' = [delivery EXCEPT ![t] = delivery[t]]
  BY TaskSame
<1>3. Holds(t, r, pub[t], claim') /\ Told(pub[t], ack[t], delivery[t])
  BY <1>1 DEF TaskInv, Holds
<1>4. Same(pub[t], pub[t], delivery[t], delivery[t], effect[t], e, reply[t], y)
  BY DEF Same
<1>5. claim' \in Tasks \cup {"none"} /\ \A u \in Tasks : u # t /\ claim = u => claim' = u
  BY <1>1
<1>6. Changes(t, r, pub[t], ack[t], delivery[t], e, y)
  BY <1>1, <1>2, <1>3, <1>4, <1>5 DEF Changes
<1>7. Suits(t, r, pub[t], ack[t], delivery[t], e, y)
  BY <1>1, <1>2, <1>3, <1>4, <1>5 DEF Suits
<1> QED BY TaskMoves, <1>6, <1>7

\* The claim changes.
LEMMA ClaimMoves ==
    ASSUME PublicationInv, NEW t \in Tasks, NEW r \in PassRec, pass' = [pass EXCEPT ![t] = r],
           UNCHANGED <<pub, ack, delivery, effect, reply>>, Outside(t),
           claim' \in Tasks \cup {"none"}, \A u \in Tasks : u # t /\ claim = u => claim' = u,
           Stage(r.pc, pub[t]), Calls(r, effect[t], reply[t]), r.call \in Delivered \/ r.verdict \in Delivered => t \in landed,
           Holds(t, r, pub[t], claim')
    PROVE  Good
<1>1. /\ pub[t] \in PubStates /\ ack[t] \in {"none", "known", "unknown"} /\ delivery[t] \in DeliveryStates
      /\ effect[t] \in EffectRec /\ reply[t] \in ReplyRec /\ TaskInv(t)
      /\ (Says(pass[t], pub[t], reply[t]) => t \in landed)
  BY TaskIs
<1>2. /\ pub' = [pub EXCEPT ![t] = pub[t]] /\ ack' = [ack EXCEPT ![t] = ack[t]] /\ delivery' = [delivery EXCEPT ![t] = delivery[t]]
      /\ effect' = [effect EXCEPT ![t] = effect[t]] /\ reply' = [reply EXCEPT ![t] = reply[t]]
  BY TaskSame
<1>3. Says(r, pub[t], reply[t]) => t \in landed
  BY <1>1 DEF Says
<1>4. Told(pub[t], ack[t], delivery[t])
  BY <1>1 DEF TaskInv
<1>5. Same(pub[t], pub[t], delivery[t], delivery[t], effect[t], effect[t], reply[t], reply[t])
  BY DEF Same
<1>6. Changes(t, r, pub[t], ack[t], delivery[t], effect[t], reply[t])
  BY <1>1, <1>2, <1>3, <1>4, <1>5 DEF Changes
<1>7. Suits(t, r, pub[t], ack[t], delivery[t], effect[t], reply[t])
  BY <1>1, <1>2, <1>3, <1>4, <1>5 DEF Suits
<1> QED BY TaskMoves, <1>6, <1>7

----------------------------------------------------------------------------
(* How a pass goes on. *)

\* The new pass r of Task t is at q, with the call c and the verdict v.
Now(t, r, q, c, v) == r \in PassRec /\ pass' = [pass EXCEPT ![t] = r] /\ r.pc = q /\ r.call = c /\ r.verdict = v

\* A pass that goes on keeps its call and its verdict.
LEMMA GoesIs ==
    ASSUME PublicationInv, NEW t \in Tasks, NEW q \in Passes, Goes(t, q)
    PROVE  \E r : Now(t, r, q, pass[t].call, pass[t].verdict)
<1>1. PICK p : p = pass[t]
  OBVIOUS
<1>2. p \in PassRec
  BY <1>1, TaskIs
<1> DEFINE r == [p EXCEPT !.pc = q]
<1>3. r \in PassRec /\ r.pc = q /\ r.call = p.call /\ r.verdict = p.verdict
  BY <1>2 DEF PassRec
<1>4. pass' = [pass EXCEPT ![t] = r]
  BY <1>1 DEF Goes
<1> QED BY <1>1, <1>3, <1>4 DEF Now

\* A stopped pass has neither.
LEMMA StopsIs ==
    ASSUME PublicationInv, NEW t \in Tasks, Stops(t)
    PROVE  \E r : Now(t, r, "stopped", "no", "none")
<1>1. Stopped(t) \in PassRec /\ Stopped(t).pc = "stopped" /\ Stopped(t).call = "no" /\ Stopped(t).verdict = "none"
  BY DEF Stopped, Idle, PassRec, Passes
<1> QED BY <1>1 DEF Stops, Now

\* A pass that fails is over, or about to end the delivery.
LEMMA FailsIs ==
    ASSUME PublicationInv, NEW t \in Tasks, Fails(t), pass[t].call = "no"
    PROVE  \E r : \E q \in {"failing", "stopped"}, v \in {pass[t].verdict, "none"} : Now(t, r, q, "no", v)
<1>1. CASE pass[t].live
  <2>1. Goes(t, "failing")
    BY <1>1 DEF Fails
  <2>2. "failing" \in Passes
    BY DEF Passes
  <2> QED BY <2>1, <2>2, GoesIs
<1>2. CASE ~pass[t].live
  <2>1. Stops(t)
    BY <1>2 DEF Fails
  <2> QED BY <2>1, StopsIs
<1> QED BY <1>1, <1>2

\* It fits any state of its Publication.
LEMMA RestFits ==
    ASSUME PublicationInv, NEW t \in Tasks, NEW r, NEW q \in {"failing", "stopped"}, NEW v \in {pass[t].verdict, "none"},
           Now(t, r, q, "no", v)
    PROVE  /\ r \in PassRec /\ pass' = [pass EXCEPT ![t] = r] /\ (\A s : Stage(r.pc, s)) /\ Calls(r, effect[t], reply[t])
           /\ (r.call \in Delivered \/ r.verdict \in Delivered => t \in landed) /\ r.pc \notin Claimed
<1>1. r \in PassRec /\ pass' = [pass EXCEPT ![t] = r] /\ r.pc = q /\ r.call = "no" /\ r.verdict = v
  BY DEF Now
<1>2. r.pc \notin Unpublished \cup InPreparing \cup InPrepared \cup InPublishing \cup InVerifying \cup {"toOutcome", "reclaim"}
  BY <1>1 DEF Unpublished, Claimed, InPreparing, InPrepared, InPublishing, InVerifying, Judged
<1>3. \A s : Stage(r.pc, s)
  BY <1>2 DEF Stage
<1>4. Calls(r, effect[t], reply[t])
  <2>1. TaskInv(t)
    BY TaskIs
  <2>2. effect[t]["verify"] = "Succeeded" => reply[t]["verify"] \in Verdicts
    BY <2>1 DEF TaskInv, Calls
  <2>3. r.pc \notin Judged /\ r.pc # "verify"
    BY <1>2 DEF InVerifying
  <2> QED BY <1>1, <2>2, <2>3 DEF Calls
<1>5. r.verdict \in Delivered => t \in landed
  <2>1. "none" \notin Delivered
    BY DEF Delivered
  <2>2. pass[t].verdict \in Delivered => t \in landed
    BY TaskIs DEF Says
  <2> QED BY <1>1, <2>1, <2>2
<1>6. r.call \notin Delivered
  BY <1>1 DEF Delivered
<1>7. r.pc \notin Claimed
  BY <1>2 DEF Unpublished
<1> QED BY <1>1, <1>3, <1>4, <1>5, <1>6, <1>7

\* A step that leaves the publisher alone.
LEMMA OutsideSame ==
    ASSUME PublicationInv, NEW t \in Tasks, UNCHANGED <<expects, pr, attempts, cancelled, service, budget>>
    PROVE  Outside(t)
BY DEF PublicationInv, TypeOK, Outside, service, budget

\* So does a fault.
LEMMA OutsideFault ==
    ASSUME PublicationInv, NEW t \in Tasks, Fault, UNCHANGED <<expects, pr, attempts, cancelled, journal, remote, landed>>,
           late' \subseteq late \cup Orphans(t)
    PROVE  Outside(t)
<1>1. faults' \in 0 .. MaxFaults
  BY SMTT(60), PublicationAssumption DEF PublicationInv, TypeOK, Fault
<1> QED BY <1>1 DEF PublicationInv, TypeOK, Outside, Fault

\* A pass that fails and does nothing else.
LEMMA PassFails ==
    ASSUME PublicationInv, NEW t \in Tasks, Fails(t), pass[t].call = "no",
           UNCHANGED <<claim, pub, ack, delivery, effect, reply>>, Outside(t)
    PROVE  Good
<1>1. PICK r : \E q \in {"failing", "stopped"}, v \in {pass[t].verdict, "none"} : Now(t, r, q, "no", v)
  BY FailsIs
<1>2. PICK q \in {"failing", "stopped"}, v \in {pass[t].verdict, "none"} : Now(t, r, q, "no", v)
  BY <1>1
<1>3. /\ r \in PassRec /\ pass' = [pass EXCEPT ![t] = r] /\ Stage(r.pc, pub[t]) /\ Calls(r, effect[t], reply[t])
      /\ (r.call \in Delivered \/ r.verdict \in Delivered => t \in landed) /\ r.pc \notin Claimed
  BY <1>2, RestFits
<1> QED BY <1>3, PassMoves

\* The pass r follows the one of Task t: it makes no call, and is at a step that fits.
Follows(t, r) ==
    /\ r \in PassRec /\ r.call = "no" /\ Stage(r.pc, pub[t])
    /\ (r.pc \in Judged => r.verdict # "none") /\ (r.verdict \in Delivered => t \in landed) /\ (r.pc \in Claimed => claim = t)

\* Then its calls fit the ledger and nothing new is said to be delivered.
LEMMA FollowsCalls ==
    ASSUME PublicationInv, NEW t \in Tasks, NEW r, Follows(t, r), NEW e, NEW y, e["verify"] = "Succeeded" => y["verify"] \in Verdicts
    PROVE  /\ r \in PassRec /\ Stage(r.pc, pub[t]) /\ (r.pc \in Claimed => claim = t) /\ Calls(r, e, y)
           /\ (r.call \in Delivered \/ r.verdict \in Delivered => t \in landed)
<1>1. r.call = "no" /\ "no" \notin Delivered
  BY DEF Follows, Delivered
<1> QED BY <1>1 DEF Follows, Calls

\* Only the pass goes on, to one that follows.
LEMMA PassFollows ==
    ASSUME PublicationInv, NEW t \in Tasks, NEW r, Follows(t, r), pass' = [pass EXCEPT ![t] = r],
           UNCHANGED <<claim, pub, ack, delivery, effect, reply>>, Outside(t)
    PROVE  Good
<1>1. effect[t]["verify"] = "Succeeded" => reply[t]["verify"] \in Verdicts
  BY TaskIs DEF TaskInv, Calls
<1>2. /\ r \in PassRec /\ Stage(r.pc, pub[t]) /\ (r.pc \in Claimed => claim = t) /\ Calls(r, effect[t], reply[t])
      /\ (r.call \in Delivered \/ r.verdict \in Delivered => t \in landed)
  BY <1>1, FollowsCalls
<1> QED BY <1>2, PassMoves

\* A pass that goes to a step that fits follows.
LEMMA GoesFollows ==
    ASSUME PublicationInv, NEW t \in Tasks, NEW q \in Passes, Goes(t, q), pass[t].call = "no", Stage(q, pub[t]),
           q \in Judged => pass[t].verdict # "none", q \in Claimed => claim = t
    PROVE  \E r : Follows(t, r) /\ pass' = [pass EXCEPT ![t] = r]
<1>1. PICK r : Now(t, r, q, pass[t].call, pass[t].verdict)
  BY GoesIs
<1>2. pass[t].verdict \in Delivered => t \in landed
  BY TaskIs DEF Says
<1> QED BY <1>1, <1>2 DEF Now, Follows

\* A response takes the pass on.
LEMMA AfterFits ==
    ASSUME PublicationInv, NEW t \in Tasks, NEW k \in Kinds, pass[t].pc = k, NEW x,
           k = "verify" => x \in Verdicts /\ (x \in Delivered => t \in landed)
    PROVE  Follows(t, After(t, k, x))
<1>1. PICK p : p = pass[t]
  OBVIOUS
<1>2. /\ p \in PassRec /\ p.pc = k /\ Stage(k, pub[t]) /\ (k \in Claimed => claim = t) /\ (k \in Judged => p.verdict # "none")
      /\ (p.verdict \in Delivered => t \in landed)
  BY <1>1, TaskIs DEF TaskInv, Holds, Calls, Says
<1> DEFINE o == [p EXCEPT !.call = "no"]
<1>3. o \in PassRec /\ o.call = "no" /\ o.verdict = p.verdict /\ o.pc = k
  BY <1>2 DEF PassRec
<1> HIDE DEF o
<1>4. After(t, k, x) = CASE k = "preflight" -> [o EXCEPT !.pc = "create"]
                         [] k = "prepare" -> [o EXCEPT !.pc = "setPrepared"]
                         [] k = "publish" -> [o EXCEPT !.pc = "setVerifying", !.lost = FALSE]
                         [] k = "verify" -> [o EXCEPT !.pc = "settlePublish", !.verdict = x]
                         [] k = "pr" -> [o EXCEPT !.pc = "prReceipt"]
  BY <1>1 DEF After, o
<1>5. CASE k = "preflight"
  <2> DEFINE r == [o EXCEPT !.pc = "create"]
  <2>1. After(t, k, x) = r
    BY SMTT(60), <1>4, <1>5
  <2>2. r \in PassRec /\ r.pc = "create" /\ r.call = "no" /\ r.verdict = p.verdict
    BY <1>3 DEF PassRec, Passes
  <2>3. Stage("create", pub[t]) /\ "create" \notin Judged /\ claim = t
    BY <1>2, <1>5 DEF Stage, Unpublished, Claimed, InPreparing, InPrepared, InPublishing, InVerifying, Judged
  <2> HIDE DEF r
  <2> QED BY <1>2, <2>1, <2>2, <2>3 DEF Follows
<1>6. CASE k = "prepare"
  <2> DEFINE r == [o EXCEPT !.pc = "setPrepared"]
  <2>1. After(t, k, x) = r
    BY SMTT(60), <1>4, <1>6
  <2>2. r \in PassRec /\ r.pc = "setPrepared" /\ r.call = "no" /\ r.verdict = p.verdict
    BY <1>3 DEF PassRec, Passes
  <2>3. Stage("setPrepared", pub[t]) /\ "setPrepared" \notin Judged \cup Claimed
    BY <1>2, <1>6 DEF Stage, Unpublished, Claimed, InPreparing, InPrepared, InPublishing, InVerifying, Judged
  <2> HIDE DEF r
  <2> QED BY <1>2, <2>1, <2>2, <2>3 DEF Follows
<1>7. CASE k = "publish"
  <2> DEFINE r == [o EXCEPT !.pc = "setVerifying", !.lost = FALSE]
  <2>1. After(t, k, x) = r
    BY SMTT(60), <1>4, <1>7
  <2>2. r \in PassRec /\ r.pc = "setVerifying" /\ r.call = "no" /\ r.verdict = p.verdict
    BY <1>3 DEF PassRec, Passes
  <2>3. Stage("setVerifying", pub[t]) /\ "setVerifying" \notin Judged \cup Claimed
    BY <1>2, <1>7 DEF Stage, Unpublished, Claimed, InPreparing, InPrepared, InPublishing, InVerifying, Judged
  <2> HIDE DEF r
  <2> QED BY <1>2, <2>1, <2>2, <2>3 DEF Follows
<1>8. CASE k = "verify"
  <2> DEFINE r == [o EXCEPT !.pc = "settlePublish", !.verdict = x]
  <2>1. After(t, k, x) = r
    BY SMTT(60), <1>4, <1>8
  <2>2. r \in PassRec /\ r.pc = "settlePublish" /\ r.call = "no" /\ r.verdict = x
    BY <1>3, <1>8 DEF PassRec, Passes
  <2>3. Stage("settlePublish", pub[t]) /\ "settlePublish" \notin Claimed
    BY <1>2, <1>8 DEF Stage, Unpublished, Claimed, InPreparing, InPrepared, InPublishing, InVerifying, Judged
  <2>4. x # "none"
    BY <1>8 DEF Verdicts, Delivered
  <2> HIDE DEF r
  <2> QED BY <1>8, <2>1, <2>2, <2>3, <2>4 DEF Follows
<1>9. CASE k = "pr"
  <2> DEFINE r == [o EXCEPT !.pc = "prReceipt"]
  <2>1. After(t, k, x) = r
    BY SMTT(60), <1>4, <1>9
  <2>2. r \in PassRec /\ r.pc = "prReceipt" /\ r.call = "no" /\ r.verdict = p.verdict
    BY <1>3 DEF PassRec, Passes
  <2>3. Stage("prReceipt", pub[t]) /\ "prReceipt" \notin Claimed /\ p.verdict # "none"
    BY <1>2, <1>9 DEF Stage, Unpublished, Claimed, InPreparing, InPrepared, InPublishing, InVerifying, Judged
  <2> HIDE DEF r
  <2> QED BY <1>2, <2>1, <2>2, <2>3 DEF Follows
<1> QED BY <1>5, <1>6, <1>7, <1>8, <1>9 DEF Kinds

\* A stopped pass follows any other.
LEMMA StoppedFollows ==
    ASSUME NEW t \in Tasks
    PROVE  Follows(t, Stopped(t))
<1>1. Stopped(t) \in PassRec /\ Stopped(t).pc = "stopped" /\ Stopped(t).call = "no" /\ Stopped(t).verdict = "none"
  BY DEF Stopped, Idle, PassRec, Passes
<1>2. "none" \notin Delivered
  BY DEF Delivered
<1>3. "stopped" \notin Unpublished \cup InPreparing \cup InPrepared \cup InPublishing \cup InVerifying \cup {"toOutcome", "reclaim"}
  BY DEF Unpublished, Claimed, InPreparing, InPrepared, InPublishing, InVerifying, Judged
<1>4. Stage("stopped", pub[t]) /\ "stopped" \notin Judged \cup Claimed
  BY <1>3 DEF Stage, InVerifying, Unpublished
<1> QED BY <1>1, <1>2, <1>4 DEF Follows

\* So does an error.
LEMMA AfterErrorFits ==
    ASSUME PublicationInv, NEW t \in Tasks, NEW k \in Kinds, pass[t].pc = k, NEW why \in {"retryable", "failed", "blocked"}
    PROVE  Follows(t, AfterError(t, k, why))
<1>1. PICK p : p = pass[t]
  OBVIOUS
<1>2. /\ p \in PassRec /\ p.pc = k /\ Stage(k, pub[t]) /\ (k \in Claimed => claim = t) /\ (k \in Judged => p.verdict # "none")
      /\ (p.verdict \in Delivered => t \in landed)
  BY <1>1, TaskIs DEF TaskInv, Holds, Calls, Says
<1> DEFINE o == [p EXCEPT !.call = "no", !.fail = why]
<1>3. o \in PassRec /\ o.call = "no" /\ o.verdict = p.verdict /\ o.pc = k
  BY <1>2 DEF PassRec
<1> HIDE DEF o
<1>4. AfterError(t, k, why) =
        CASE k = "preflight" -> [o EXCEPT !.pc = "settlePreflight"]
          [] k = "prepare" -> IF o.live \/ why # "retryable" \/ attempts[t] >= MaxAttempts
                                THEN [o EXCEPT !.pc = "settlePrepare"] ELSE Stopped(t)
          [] k = "publish" -> [o EXCEPT !.pc = "setVerifying", !.lost = TRUE]
          [] k = "verify" -> [o EXCEPT !.pc = "settleVerify"]
          [] k = "pr" -> [o EXCEPT !.pc = "settlePr"]
  BY <1>1 DEF AfterError, o
<1>5. CASE k = "preflight"
  <2> DEFINE r == [o EXCEPT !.pc = "settlePreflight"]
  <2>1. AfterError(t, k, why) = r
    BY SMTT(60), <1>4, <1>5
  <2>2. r \in PassRec /\ r.pc = "settlePreflight" /\ r.call = "no" /\ r.verdict = p.verdict
    BY <1>3 DEF PassRec, Passes
  <2>3. Stage("settlePreflight", pub[t]) /\ ("settlePreflight" \in Judged => p.verdict # "none") /\ ("settlePreflight" \in Claimed => claim = t)
    BY <1>2, <1>5 DEF Stage, Unpublished, Claimed, InPreparing, InPrepared, InPublishing, InVerifying, Judged
  <2> HIDE DEF r
  <2> QED BY <1>2, <2>1, <2>2, <2>3 DEF Follows
<1>6. CASE k = "prepare"
  <2> DEFINE r == [o EXCEPT !.pc = "settlePrepare"]
  <2>1. AfterError(t, k, why) = r \/ AfterError(t, k, why) = Stopped(t)
    BY SMTT(60), <1>4, <1>6
  <2>2. r \in PassRec /\ r.pc = "settlePrepare" /\ r.call = "no" /\ r.verdict = p.verdict
    BY <1>3 DEF PassRec, Passes
  <2>3. Stage("settlePrepare", pub[t]) /\ "settlePrepare" \notin Judged \cup Claimed
    BY <1>2, <1>6 DEF Stage, Unpublished, Claimed, InPreparing, InPrepared, InPublishing, InVerifying, Judged
  <2> HIDE DEF r
  <2>4. Follows(t, r)
    BY <1>2, <2>2, <2>3 DEF Follows
  <2> QED BY <2>1, <2>4, StoppedFollows
<1>7. CASE k = "publish"
  <2> DEFINE r == [o EXCEPT !.pc = "setVerifying", !.lost = TRUE]
  <2>1. AfterError(t, k, why) = r
    BY SMTT(60), <1>4, <1>7
  <2>2. r \in PassRec /\ r.pc = "setVerifying" /\ r.call = "no" /\ r.verdict = p.verdict
    BY <1>3 DEF PassRec, Passes
  <2>3. Stage("setVerifying", pub[t]) /\ ("setVerifying" \in Judged => p.verdict # "none") /\ ("setVerifying" \in Claimed => claim = t)
    BY <1>2, <1>7 DEF Stage, Unpublished, Claimed, InPreparing, InPrepared, InPublishing, InVerifying, Judged
  <2> HIDE DEF r
  <2> QED BY <1>2, <2>1, <2>2, <2>3 DEF Follows
<1>8. CASE k = "verify"
  <2> DEFINE r == [o EXCEPT !.pc = "settleVerify"]
  <2>1. AfterError(t, k, why) = r
    BY SMTT(60), <1>4, <1>8
  <2>2. r \in PassRec /\ r.pc = "settleVerify" /\ r.call = "no" /\ r.verdict = p.verdict
    BY <1>3 DEF PassRec, Passes
  <2>3. Stage("settleVerify", pub[t]) /\ ("settleVerify" \in Judged => p.verdict # "none") /\ ("settleVerify" \in Claimed => claim = t)
    BY <1>2, <1>8 DEF Stage, Unpublished, Claimed, InPreparing, InPrepared, InPublishing, InVerifying, Judged
  <2> HIDE DEF r
  <2> QED BY <1>2, <2>1, <2>2, <2>3 DEF Follows
<1>9. CASE k = "pr"
  <2> DEFINE r == [o EXCEPT !.pc = "settlePr"]
  <2>1. AfterError(t, k, why) = r
    BY SMTT(60), <1>4, <1>9
  <2>2. r \in PassRec /\ r.pc = "settlePr" /\ r.call = "no" /\ r.verdict = p.verdict
    BY <1>3 DEF PassRec, Passes
  <2>3. Stage("settlePr", pub[t]) /\ ("settlePr" \in Judged => p.verdict # "none") /\ ("settlePr" \in Claimed => claim = t)
    BY <1>2, <1>9 DEF Stage, Unpublished, Claimed, InPreparing, InPrepared, InPublishing, InVerifying, Judged
  <2> HIDE DEF r
  <2> QED BY <1>2, <2>1, <2>2, <2>3 DEF Follows
<1> QED BY <1>5, <1>6, <1>7, <1>8, <1>9 DEF Kinds

----------------------------------------------------------------------------
(* The ledger. *)

EffectStates == Settled \cup {"none", "Pending", "InFlight", "Expired"}

\* The effects e of t are the earlier ones but for k, which is at x.
Put(t, k, x, e) ==
    /\ [effect EXCEPT ![t] = e] = [effect EXCEPT ![t] = [@ EXCEPT ![k] = x]]
    /\ e[k] = x /\ (\A j \in Kinds : j # k => e[j] = effect[t][j])
    /\ (\A j \in Kinds : effect[t][j] \in Settled => e[j] = effect[t][j])
    /\ (e["verify"] = "Succeeded" => reply[t]["verify"] \in Verdicts)

\* One effect of t that had not settled goes to a state without a response.
LEMMA EffectTo ==
    ASSUME PublicationInv, NEW t \in Tasks, NEW k \in Kinds, NEW x \in EffectStates, x # "Succeeded", effect[t][k] \notin Settled
    PROVE  \E e \in EffectRec : Put(t, k, x, e)
<1>1. effect[t] \in EffectRec /\ (effect[t]["verify"] = "Succeeded" => reply[t]["verify"] \in Verdicts)
  BY TaskIs DEF TaskInv, Calls
<1> DEFINE e == [effect[t] EXCEPT ![k] = x]
<1>2. e \in EffectRec /\ e[k] = x /\ \A j \in Kinds : j # k => e[j] = effect[t][j]
  BY <1>1 DEF EffectRec, EffectStates
<1>3. \A j \in Kinds : effect[t][j] \in Settled => e[j] = effect[t][j]
  BY <1>2
<1>4. "verify" \in Kinds
  BY DEF Kinds
<1>5. e["verify"] = "Succeeded" => reply[t]["verify"] \in Verdicts
  BY <1>1, <1>2, <1>4
<1>6. [effect EXCEPT ![t] = e] = [effect EXCEPT ![t] = [@ EXCEPT ![k] = x]]
  OBVIOUS
<1>7. Put(t, k, x, e)
  BY <1>2, <1>3, <1>5, <1>6 DEF Put
<1> QED BY <1>2, <1>7

\* Such a step of the ledger is good when the pass that goes with it calls under an effect in flight.
LEMMA EffectMoves ==
    ASSUME PublicationInv, NEW t \in Tasks, NEW k \in Kinds, NEW x \in EffectStates, x # "Succeeded", effect[t][k] \notin Settled,
           effect' = [effect EXCEPT ![t] = [@ EXCEPT ![k] = x]], UNCHANGED <<claim, pub, ack, delivery, reply>>, Outside(t),
           NEW r \in PassRec, pass' = [pass EXCEPT ![t] = r], Stage(r.pc, pub[t]), r.pc \in Claimed => claim = t,
           r.pc \in Judged => r.verdict # "none", r.pc = "verify" => r.call \in {"no", "sent"} \cup Verdicts,
           r.call # "no" => r.pc \in Kinds /\ (IF r.pc = k THEN x = "InFlight" ELSE effect[t][r.pc] = "InFlight"),
           r.call \in Delivered \/ r.verdict \in Delivered => t \in landed
    PROVE  Good
<1>1. PICK e \in EffectRec : Put(t, k, x, e)
  BY EffectTo
<1>2. effect' = [effect EXCEPT ![t] = e]
  BY <1>1 DEF Put
<1>3. r.call # "no" => r.pc \in Kinds /\ e[r.pc] = "InFlight"
  BY <1>1 DEF Put
<1>4. Calls(r, e, reply[t])
  BY <1>1, <1>3 DEF Calls, Put
<1>5. reply[t] \in ReplyRec /\ (Says(pass[t], pub[t], reply[t]) => t \in landed)
  BY TaskIs
<1>6. Says(r, pub[t], reply[t]) => t \in landed
  BY <1>5 DEF Says
<1>7. reply' = [reply EXCEPT ![t] = reply[t]]
  BY TaskSame
<1>8. \A j \in Kinds : effect[t][j] \in Settled => e[j] = effect[t][j] /\ reply[t][j] = reply[t][j]
  BY <1>1 DEF Put
<1> QED BY <1>2, <1>4, <1>5, <1>6, <1>7, <1>8, LedgerMoves

\* What is known of the pass of a Task.
LEMMA PassIs ==
    ASSUME PublicationInv, NEW t \in Tasks, NEW p, p = pass[t]
    PROVE  /\ p \in PassRec /\ pass = [pass EXCEPT ![t] = p] /\ Stage(p.pc, pub[t]) /\ (p.pc \in Claimed => claim = t)
           /\ (p.pc \in Judged => p.verdict # "none") /\ (p.pc = "verify" => p.call \in {"no", "sent"} \cup Verdicts)
           /\ (p.call # "no" => p.pc \in Kinds /\ effect[t][p.pc] = "InFlight")
           /\ (p.call \in Delivered \/ p.verdict \in Delivered => t \in landed)
BY TaskIs, TaskSame DEF TaskInv, Calls, Says, Holds

\* What is known of a Task whose pass is at the step q.
LEMMA StageIs ==
    ASSUME PublicationInv, NEW t \in Tasks, NEW q, pass[t].pc = q
    PROVE  Stage(q, pub[t]) /\ (q \in Claimed => claim = t) /\ (q \in Judged => pass[t].verdict # "none")
<1>1. TaskInv(t)
  BY TaskIs
<1> QED BY <1>1 DEF TaskInv, Calls, Holds

\* An effect is reserved (ReserveExternalEffect).
LEMMA ReserveGood ==
    ASSUME PublicationInv, NEW t \in Tasks, NEW k \in Kinds, Reserve(t, k)
    PROVE  Good
<1>1. PICK p : p = pass[t]
  OBVIOUS
<1>2. /\ p \in PassRec /\ pass = [pass EXCEPT ![t] = p] /\ Stage(p.pc, pub[t]) /\ (p.pc \in Claimed => claim = t)
      /\ (p.pc \in Judged => p.verdict # "none") /\ (p.pc = "verify" => p.call \in {"no", "sent"} \cup Verdicts)
      /\ (p.call \in Delivered \/ p.verdict \in Delivered => t \in landed)
  BY <1>1, PassIs
<1>3. p.call = "no" /\ pass' = [pass EXCEPT ![t] = p]
  BY <1>1, <1>2 DEF Reserve, At
<1>4. "Pending" \in EffectStates /\ "Pending" # "Succeeded" /\ effect[t][k] \notin Settled
  BY DEF Reserve, EffectStates, Settled
<1>5. /\ effect' = [effect EXCEPT ![t] = [@ EXCEPT ![k] = "Pending"]] /\ UNCHANGED <<claim, pub, ack, delivery, reply>>
      /\ UNCHANGED <<expects, pr, attempts, cancelled, service, budget>>
  BY DEF Reserve
<1>6. Outside(t)
  BY <1>5, OutsideSame
<1> QED BY <1>2, <1>3, <1>4, <1>5, <1>6, EffectMoves

\* An effect is claimed for a call.
LEMMA ClaimEffectGood ==
    ASSUME PublicationInv, NEW t \in Tasks, NEW k \in Kinds, ClaimEffect(t, k)
    PROVE  Good
<1>1. PICK p : p = pass[t]
  OBVIOUS
<1>2. /\ p \in PassRec /\ Stage(p.pc, pub[t]) /\ (p.pc \in Claimed => claim = t) /\ (p.pc \in Judged => p.verdict # "none")
      /\ (p.verdict \in Delivered => t \in landed)
  BY <1>1, PassIs
<1> DEFINE r == [p EXCEPT !.call = "sent"]
<1>3. r \in PassRec /\ r.pc = p.pc /\ r.call = "sent" /\ r.verdict = p.verdict
  BY <1>2 DEF PassRec
<1>4. pass' = [pass EXCEPT ![t] = r] /\ p.pc = k
  BY <1>1 DEF ClaimEffect, At
<1>5. "InFlight" \in EffectStates /\ "InFlight" # "Succeeded" /\ effect[t][k] \notin Settled /\ "sent" \notin Delivered
  BY DEF ClaimEffect, EffectStates, Settled, Delivered
<1>6. /\ effect' = [effect EXCEPT ![t] = [@ EXCEPT ![k] = "InFlight"]] /\ UNCHANGED <<claim, pub, ack, delivery, reply>>
      /\ UNCHANGED <<expects, pr, cancelled, service, budget>>
  BY DEF ClaimEffect
<1>7. attempts' \in [Tasks -> 0 .. MaxAttempts]
  <2>1. attempts \in [Tasks -> 0 .. MaxAttempts]
    BY DEF PublicationInv, TypeOK
  <2>2. attempts[t] < MaxAttempts => attempts[t] + 1 \in 0 .. MaxAttempts
    BY SMTT(60), <2>1, PublicationAssumption
  <2> QED BY <2>1, <2>2 DEF ClaimEffect
<1>8. Outside(t)
  BY <1>6, <1>7 DEF PublicationInv, TypeOK, Outside, service, budget
<1> HIDE DEF r
<1> QED BY <1>2, <1>3, <1>4, <1>5, <1>6, <1>8, EffectMoves

\* A committed response is replayed, or the state of the effect is an error.
LEMMA ReplayGood ==
    ASSUME PublicationInv, NEW t \in Tasks, NEW k \in Kinds, Replay(t, k)
    PROVE  Good
<1>1. pass[t].pc = k /\ pass[t].call = "no"
  BY DEF Replay, At
<1>2. UNCHANGED <<claim, pub, ack, delivery, effect, reply>> /\ UNCHANGED <<expects, pr, attempts, cancelled, service, budget>>
  BY DEF Replay, ledger
<1>3. Outside(t)
  BY <1>2, OutsideSame
<1>4. CASE effect[t][k] = "Succeeded"
  <2>1. pass' = [pass EXCEPT ![t] = After(t, k, reply[t][k])]
    BY <1>4 DEF Replay
  <2>2. k = "verify" => reply[t][k] \in Verdicts /\ (reply[t][k] \in Delivered => t \in landed)
    BY <1>4, TaskIs DEF TaskInv, Calls, Says
  <2>3. Follows(t, After(t, k, reply[t][k]))
    BY <1>1, <2>2, AfterFits
  <2> QED BY <1>2, <1>3, <2>1, <2>3, PassFollows
<1>5. CASE effect[t][k] # "Succeeded"
  <2>1. pass' = [pass EXCEPT ![t] = AfterError(t, k, "retryable")]
    BY <1>5 DEF Replay
  <2>2. Follows(t, AfterError(t, k, "retryable"))
    BY <1>1, AfterErrorFits
  <2> QED BY <1>2, <1>3, <2>1, <2>2, PassFollows
<1> QED BY <1>4, <1>5

\* The answer comes: a response is committed with its effect, which was in flight until then.
LEMMA ReturnGood ==
    ASSUME PublicationInv, NEW t \in Tasks, NEW k \in Kinds, Return(t, k)
    PROVE  Good
<1>1. pass[t].pc = k /\ pass[t].call \notin {"no", "sent"} /\ UNCHANGED <<claim, pub, ack, delivery>>
  BY DEF Return
<1>2. UNCHANGED <<expects, pr, attempts, cancelled, service, budget>>
  BY DEF Return
<1>3. Outside(t)
  BY <1>2, OutsideSame
<1>4. CASE pass[t].call = "error"
  <2>1. pass' = [pass EXCEPT ![t] = AfterError(t, k, "failed")] /\ UNCHANGED <<effect, reply>>
    BY <1>4 DEF Return
  <2>2. Follows(t, AfterError(t, k, "failed"))
    BY <1>1, AfterErrorFits
  <2> QED BY <1>1, <1>3, <2>1, <2>2, PassFollows
<1>5. CASE pass[t].call # "error"
  <2>1. PICK c : c = pass[t].call
    OBVIOUS
  <2>2. /\ effect' = [effect EXCEPT ![t] = [@ EXCEPT ![k] = "Succeeded"]] /\ reply' = [reply EXCEPT ![t] = [@ EXCEPT ![k] = c]]
        /\ pass' = [pass EXCEPT ![t] = After(t, k, c)]
    BY <1>5, <2>1 DEF Return
  <2>3. c \in Answers \ {"error"} /\ effect[t][k] = "InFlight" /\ (c \in Delivered => t \in landed) /\ (k = "verify" => c \in Verdicts)
    <3>1. PICK p : p = pass[t]
      OBVIOUS
    <3>2. /\ p \in PassRec /\ (p.pc = "verify" => p.call \in {"no", "sent"} \cup Verdicts)
          /\ (p.call # "no" => effect[t][p.pc] = "InFlight") /\ (p.call \in Delivered => t \in landed)
      BY <3>1, PassIs
    <3>3. p.call \in {"no", "sent"} \cup Answers
      BY <3>2 DEF PassRec
    <3>4. p.pc = k /\ p.call = c /\ c \notin {"no", "sent"} /\ c # "error"
      BY <1>1, <1>5, <2>1, <3>1
    <3> QED BY <3>2, <3>3, <3>4
  <2>4. /\ effect[t] \in EffectRec /\ reply[t] \in ReplyRec /\ (Says(pass[t], pub[t], reply[t]) => t \in landed)
        /\ (effect[t]["verify"] = "Succeeded" => reply[t]["verify"] \in Verdicts)
    BY TaskIs DEF TaskInv, Calls
  <2> DEFINE e == [effect[t] EXCEPT ![k] = "Succeeded"] y == [reply[t] EXCEPT ![k] = c]
  <2>5. e \in EffectRec /\ e[k] = "Succeeded" /\ \A j \in Kinds : j # k => e[j] = effect[t][j]
    BY <2>4 DEF EffectRec, Settled
  <2>6. y \in ReplyRec /\ y[k] = c /\ \A j \in Kinds : j # k => y[j] = reply[t][j]
    BY <2>3, <2>4 DEF ReplyRec
  <2>7. effect' = [effect EXCEPT ![t] = e] /\ reply' = [reply EXCEPT ![t] = y]
    BY <2>2
  <2> HIDE DEF e, y
  <2>8. e["verify"] = "Succeeded" => y["verify"] \in Verdicts
    BY <2>3, <2>4, <2>5, <2>6 DEF Kinds
  <2>9. Follows(t, After(t, k, c))
    BY <1>1, <2>3, AfterFits
  <2>10. PICK r : r = After(t, k, c)
    OBVIOUS
  <2>11. /\ r \in PassRec /\ Stage(r.pc, pub[t]) /\ (r.pc \in Claimed => claim = t) /\ Calls(r, e, y)
         /\ (r.call \in Delivered \/ r.verdict \in Delivered => t \in landed)
    BY <2>8, <2>9, <2>10, FollowsCalls
  <2>12. Says(r, pub[t], y) => t \in landed
    BY <2>3, <2>4, <2>6, <2>11 DEF Says
  <2>13. \A j \in Kinds : effect[t][j] \in Settled => e[j] = effect[t][j] /\ y[j] = reply[t][j]
    <3>1. "InFlight" \notin Settled
      BY DEF Settled
    <3> QED BY <2>3, <2>5, <2>6, <3>1
  <2>14. pass' = [pass EXCEPT ![t] = r]
    BY <2>2, <2>10
  <2> QED BY <1>1, <1>3, <2>5, <2>6, <2>7, <2>11, <2>12, <2>13, <2>14, LedgerMoves
<1> QED BY <1>4, <1>5

\* A call is lost.
LEMMA CallLostGood ==
    ASSUME PublicationInv, NEW t \in Tasks, NEW k \in Kinds, CallLost(t, k)
    PROVE  Good
<1>1. pass[t].pc = k /\ pass' = [pass EXCEPT ![t] = AfterError(t, k, "retryable")] /\ UNCHANGED <<claim, pub, ack, delivery, effect, reply>>
  BY DEF CallLost, ledger
<1>2. Fault /\ UNCHANGED <<expects, pr, attempts, cancelled, journal, remote, landed>> /\ late' \subseteq late \cup Orphans(t)
  BY DEF CallLost, ledger
<1>3. Outside(t)
  BY <1>2, OutsideFault
<1>4. Follows(t, AfterError(t, k, "retryable"))
  BY <1>1, AfterErrorFits
<1> QED BY <1>1, <1>3, <1>4, PassFollows

\* The publisher refuses preparation.
LEMMA PrepareRefusedGood ==
    ASSUME PublicationInv, NEW t \in Tasks, PrepareRefused(t)
    PROVE  Good
<1>1. PICK why \in {"failed", "blocked"} : pass' = [pass EXCEPT ![t] = AfterError(t, "prepare", why)]
  BY DEF PrepareRefused
<1>2. pass[t].pc = "prepare" /\ "prepare" \in Kinds /\ UNCHANGED <<claim, pub, ack, delivery, effect, reply>>
  BY DEF PrepareRefused, ledger, Kinds
<1>3. Fault /\ UNCHANGED <<expects, pr, attempts, cancelled, journal, remote, landed>> /\ late' \subseteq late \cup Orphans(t)
  BY DEF PrepareRefused, ledger, service
<1>4. Outside(t)
  BY <1>3, OutsideFault
<1>5. Follows(t, AfterError(t, "prepare", why))
  BY <1>2, AfterErrorFits
<1> QED BY <1>1, <1>2, <1>4, <1>5, PassFollows

\* Time passes over an effect.
LEMMA TimeGood ==
    ASSUME PublicationInv, NEW t \in Tasks, Time(t)
    PROVE  Good
<1>1. PICK p : p = pass[t]
  OBVIOUS
<1>2. /\ p \in PassRec /\ pass = [pass EXCEPT ![t] = p] /\ Stage(p.pc, pub[t]) /\ (p.pc \in Claimed => claim = t)
      /\ (p.pc \in Judged => p.verdict # "none") /\ (p.pc = "verify" => p.call \in {"no", "sent"} \cup Verdicts)
      /\ (p.call # "no" => p.pc \in Kinds /\ effect[t][p.pc] = "InFlight")
      /\ (p.call \in Delivered \/ p.verdict \in Delivered => t \in landed)
  BY <1>1, PassIs
<1>3. PICK k \in Kinds : LeaseRunsOut(t, k) \/ ReconcileExpired(t, k)
  BY DEF Time
<1>4. ASSUME NEW x \in {"Expired", "OutcomeUnknown"}, effect' = [effect EXCEPT ![t] = [@ EXCEPT ![k] = x]],
             effect[t][k] \in {"InFlight", "Expired"}, p.call # "no" => p.pc # k,
             UNCHANGED <<claim, pub, ack, delivery, reply>>, UNCHANGED <<expects, pr, attempts, pass, cancelled, service, budget>>
      PROVE  Good
  <2>1. x \in EffectStates /\ x # "Succeeded" /\ effect[t][k] \notin Settled
    BY <1>4 DEF EffectStates, Settled
  <2>2. Outside(t)
    BY <1>4, OutsideSame
  <2>3. pass' = [pass EXCEPT ![t] = p]
    BY <1>2, <1>4
  <2>4. p.call # "no" => p.pc \in Kinds /\ (IF p.pc = k THEN x = "InFlight" ELSE effect[t][p.pc] = "InFlight")
    BY <1>2, <1>4
  <2> QED BY <1>2, <1>4, <2>1, <2>2, <2>3, <2>4, EffectMoves
<1>5. CASE LeaseRunsOut(t, k)
  BY <1>1, <1>4, <1>5 DEF LeaseRunsOut, Calling
<1>6. CASE ReconcileExpired(t, k)
  <2>1. p.call # "no" => p.pc # k
    BY <1>2, <1>6 DEF ReconcileExpired
  <2> QED BY <1>4, <1>6, <2>1 DEF ReconcileExpired
<1> QED BY <1>3, <1>5, <1>6

\* An effect is settled, unless it was (settleExternalEffectStore).
LEMMA SettleGood ==
    ASSUME PublicationInv, NEW t \in Tasks, NEW k \in Kinds, NEW state \in Settled, state = "Succeeded" => k # "verify",
           NEW next, Follows(t, next), pass[t].call = "no", Settle(t, k, state, next)
    PROVE  Good
<1>1. /\ UNCHANGED <<claim, pub, ack, delivery>> /\ UNCHANGED <<expects, pr, attempts, cancelled, service, budget>>
  BY DEF Settle
<1>2. Outside(t)
  BY <1>1, OutsideSame
<1>3. CASE effect[t][k] \in {"none", state} \/ (k = "preflight" /\ effect[t][k] \in Settled)
  <2>1. pass' = [pass EXCEPT ![t] = next] /\ UNCHANGED <<effect, reply>>
    BY <1>3 DEF Settle
  <2> QED BY <1>1, <1>2, <2>1, PassFollows
<1>4. CASE effect[t][k] \notin {"none", state} /\ effect[t][k] \in Settled /\ k # "preflight"
  <2>1. Fails(t) /\ UNCHANGED <<effect, reply>>
    BY <1>4 DEF Settle
  <2> QED BY <1>1, <1>2, <2>1, PassFails
<1>5. CASE effect[t][k] \notin {"none", state} /\ effect[t][k] \notin Settled
  <2>1. /\ effect' = [effect EXCEPT ![t] = [@ EXCEPT ![k] = state]] /\ pass' = [pass EXCEPT ![t] = next]
        /\ reply' = IF state = "Succeeded" THEN [reply EXCEPT ![t] = [@ EXCEPT ![k] = "ack"]] ELSE reply
    BY <1>5 DEF Settle
  <2>2. /\ effect[t] \in EffectRec /\ reply[t] \in ReplyRec /\ (Says(pass[t], pub[t], reply[t]) => t \in landed)
        /\ (effect[t]["verify"] = "Succeeded" => reply[t]["verify"] \in Verdicts)
    BY TaskIs DEF TaskInv, Calls
  <2> DEFINE e == [effect[t] EXCEPT ![k] = state] y == [reply[t] EXCEPT ![k] = "ack"]
  <2>3. e \in EffectRec /\ e[k] = state /\ \A j \in Kinds : j # k => e[j] = effect[t][j]
    BY <2>2 DEF EffectRec
  <2>4. y \in ReplyRec /\ y[k] = "ack" /\ \A j \in Kinds : j # k => y[j] = reply[t][j]
    BY <2>2 DEF ReplyRec, Answers
  <2>5. effect' = [effect EXCEPT ![t] = e] /\ [reply EXCEPT ![t] = [@ EXCEPT ![k] = "ack"]] = [reply EXCEPT ![t] = y]
    BY <2>1
  <2> HIDE DEF e, y
  <2>6. PICK z \in {y, reply[t]} : reply' = [reply EXCEPT ![t] = z] /\ (z = y => k # "verify" \/ y = reply[t])
    BY <2>1, <2>5, TaskSame
  <2>7. e["verify"] = "Succeeded" => z["verify"] \in Verdicts
    <3>1. "verify" \in Kinds
      BY DEF Kinds
    <3>2. CASE k # "verify"
      BY <2>2, <2>3, <2>4, <2>6, <3>1, <3>2
    <3>3. CASE k = "verify"
      BY <2>3, <3>3
    <3> QED BY <3>2, <3>3
  <2>8. /\ next \in PassRec /\ Stage(next.pc, pub[t]) /\ (next.pc \in Claimed => claim = t) /\ Calls(next, e, z)
        /\ (next.call \in Delivered \/ next.verdict \in Delivered => t \in landed)
    BY <2>7, FollowsCalls
  <2>9. Says(next, pub[t], z) => t \in landed
    <3>1. "ack" \notin Delivered
      BY DEF Delivered
    <3> QED BY <2>2, <2>4, <2>6, <2>8, <3>1 DEF Says
  <2>10. \A j \in Kinds : effect[t][j] \in Settled => e[j] = effect[t][j] /\ z[j] = reply[t][j]
    BY <1>5, <2>3, <2>4, <2>6
  <2>11. z \in ReplyRec
    BY <2>2, <2>4, <2>6
  <2>12. e \in EffectRec /\ pass' = [pass EXCEPT ![t] = next] /\ effect' = [effect EXCEPT ![t] = e] /\ reply' = [reply EXCEPT ![t] = z]
    BY <2>1, <2>3, <2>5, <2>6
  <2> QED BY <1>1, <1>2, <2>8, <2>9, <2>10, <2>11, <2>12, LedgerMoves
<1> QED BY <1>3, <1>4, <1>5

\* A pass sent to a step that fits follows.
LEMMA NextFollows ==
    ASSUME PublicationInv, NEW t \in Tasks, pass[t].call = "no", NEW q \in Passes, Stage(q, pub[t]),
           q \in Judged => pass[t].verdict # "none", q \in Claimed => claim = t
    PROVE  Follows(t, [pass[t] EXCEPT !.pc = q])
<1>1. PICK p : p = pass[t]
  OBVIOUS
<1>2. p \in PassRec /\ (p.verdict \in Delivered => t \in landed)
  BY <1>1, PassIs
<1> DEFINE r == [p EXCEPT !.pc = q]
<1>3. r \in PassRec /\ r.pc = q /\ r.call = p.call /\ r.verdict = p.verdict
  BY <1>2 DEF PassRec
<1> HIDE DEF r
<1>4. Follows(t, r)
  BY <1>1, <1>2, <1>3 DEF Follows
<1> QED BY <1>1, <1>4 DEF r

\* So does one sent there with an unknown outcome.
LEMMA UnknownFollows ==
    ASSUME PublicationInv, NEW t \in Tasks, pass[t].call = "no", NEW q \in Passes, Stage(q, pub[t]), q \notin Claimed
    PROVE  Follows(t, [pass[t] EXCEPT !.pc = q, !.verdict = "OutcomeUnknown"])
<1>1. PICK p : p = pass[t]
  OBVIOUS
<1>2. p \in PassRec
  BY <1>1, PassIs
<1> DEFINE r == [p EXCEPT !.pc = q, !.verdict = "OutcomeUnknown"]
<1>3. r \in PassRec /\ r.pc = q /\ r.call = p.call /\ r.verdict = "OutcomeUnknown"
  BY <1>2 DEF PassRec, Verdicts
<1>4. "OutcomeUnknown" \notin Delivered
  BY DEF Delivered
<1> HIDE DEF r
<1>5. Follows(t, r)
  BY <1>1, <1>3, <1>4 DEF Follows
<1> QED BY <1>1, <1>5 DEF r

\* The state of the Publication at the steps of a pass, and where it may go from there.
LEMMA Stages ==
    ASSUME NEW s
    PROVE  /\ Stage("idle", s) => Stage("claim", s)
           /\ Stage("claim", s) => Stage("preflight", s)
           /\ Stage("settlePreflight", s) \/ Stage("create", s) => Stage("cleanup", s)
           /\ Stage("toPreparing", s) => Stage("prepare", s)
           /\ Stage("settlePrepare", s) => Stage("setFailed", s)
           /\ Stage("toPrepared", s) => Stage("decide", s)
           /\ Stage("decide", s) => Stage("cancelPrepared", s) /\ Stage("setPublishing", s)
           /\ Stage("toPublishing", s) => Stage("publish", s)
           /\ Stage("toVerifying", s) => Stage("verify", s)
           /\ Stage("settleVerify", s) => Stage("settlePublish", s)
           /\ Stage("settlePublish", s) => Stage("prIntent", s) /\ Stage("setOutcome", s)
           /\ Stage("prIntent", s) => Stage("pr", s)
           /\ Stage("settlePr", s) \/ Stage("prReceipt", s) => Stage("setOutcome", s)
           /\ Stage("toOutcome", s) => Stage("reclaim", s)
           /\ Stage("failing", s) /\ Stage("stopped", s)
BY SMTT(60) DEF Stage, Unpublished, Claimed, InPreparing, InPrepared, InPublishing, InVerifying, Judged

\* A failed preflight or preparation is settled.
LEMMA SettleErrorGood ==
    ASSUME PublicationInv, NEW t \in Tasks, SettleError(t)
    PROVE  Good
<1>1. PICK state \in {"OutcomeUnknown", "Failed"} :
        \/ At(t, "settlePreflight") /\ Settle(t, "preflight", state, [pass[t] EXCEPT !.pc = "cleanup"])
        \/ At(t, "settlePrepare") /\ Settle(t, "prepare", state, [pass[t] EXCEPT !.pc = "setFailed"])
  BY DEF SettleError
<1>2. state \in Settled /\ state # "Succeeded" /\ "preflight" \in Kinds /\ "prepare" \in Kinds
  BY DEF Settled, Kinds
<1>3. Stage(pass[t].pc, pub[t]) /\ (pass[t].pc \in Claimed => claim = t)
  BY PassIs
<1>4. CASE At(t, "settlePreflight") /\ Settle(t, "preflight", state, [pass[t] EXCEPT !.pc = "cleanup"])
  <2>1. pass[t].pc = "settlePreflight" /\ pass[t].call = "no"
    BY <1>4 DEF At
  <2>2. Stage("cleanup", pub[t]) /\ claim = t
    BY <1>3, <2>1, Stages DEF Claimed
  <2>3. "cleanup" \in Passes /\ "cleanup" \notin Judged
    BY DEF Passes, Judged
  <2>4. Follows(t, [pass[t] EXCEPT !.pc = "cleanup"])
    BY <2>1, <2>2, <2>3, NextFollows
  <2> QED BY <1>2, <1>4, <2>1, <2>4, SettleGood
<1>5. CASE At(t, "settlePrepare") /\ Settle(t, "prepare", state, [pass[t] EXCEPT !.pc = "setFailed"])
  <2>1. pass[t].pc = "settlePrepare" /\ pass[t].call = "no"
    BY <1>5 DEF At
  <2>2. Stage("setFailed", pub[t])
    BY <1>3, <2>1, Stages
  <2>3. "setFailed" \in Passes /\ "setFailed" \notin Judged \cup Claimed
    BY DEF Passes, Judged, Claimed
  <2>4. Follows(t, [pass[t] EXCEPT !.pc = "setFailed"])
    BY <2>1, <2>2, <2>3, NextFollows
  <2> QED BY <1>2, <1>5, <2>1, <2>4, SettleGood
<1> QED BY <1>1, <1>4, <1>5

\* A failed verification is settled, and the outcome is unknown.
LEMMA SettleVerifyGood ==
    ASSUME PublicationInv, NEW t \in Tasks, SettleVerify(t)
    PROVE  Good
<1>1. pass[t].pc = "settleVerify" /\ pass[t].call = "no"
  BY DEF SettleVerify, At
<1>2. Stage("settlePublish", pub[t])
  <2>1. Stage("settleVerify", pub[t])
    BY <1>1, StageIs
  <2> QED BY <2>1, Stages
<1>3. "settlePublish" \in Passes /\ "settlePublish" \notin Claimed /\ "verify" \in Kinds
  BY DEF Passes, Claimed, Kinds
<1>4. Follows(t, [pass[t] EXCEPT !.pc = "settlePublish", !.verdict = "OutcomeUnknown"])
  BY <1>1, <1>2, <1>3, UnknownFollows
<1>5. "OutcomeUnknown" \in Settled /\ "OutcomeUnknown" # "Succeeded"
  BY DEF Settled
<1> QED BY <1>1, <1>3, <1>4, <1>5, SettleGood DEF SettleVerify

\* So is a failed pull request.
LEMMA SettlePrGood ==
    ASSUME PublicationInv, NEW t \in Tasks, SettlePr(t)
    PROVE  Good
<1>1. pass[t].pc = "settlePr" /\ pass[t].call = "no"
  BY DEF SettlePr, At
<1>2. Stage("setOutcome", pub[t])
  <2>1. Stage("settlePr", pub[t])
    BY <1>1, StageIs
  <2> QED BY <2>1, Stages
<1>3. "setOutcome" \in Passes /\ "setOutcome" \notin Claimed /\ "pr" \in Kinds
  BY DEF Passes, Claimed, Kinds
<1>4. Follows(t, [pass[t] EXCEPT !.pc = "setOutcome", !.verdict = "OutcomeUnknown"])
  BY <1>1, <1>2, <1>3, UnknownFollows
<1>5. "OutcomeUnknown" \in Settled /\ "OutcomeUnknown" # "Succeeded"
  BY DEF Settled
<1> QED BY <1>1, <1>3, <1>4, <1>5, SettleGood DEF SettlePr

\* Verification settles the publish effect when it had no definite answer.
LEMMA SettlePublishGood ==
    ASSUME PublicationInv, NEW t \in Tasks, SettlePublish(t)
    PROVE  Good
<1>1. pass[t].pc = "settlePublish" /\ pass[t].call = "no"
  BY DEF SettlePublish, At
<1>2. Stage("prIntent", pub[t]) /\ Stage("setOutcome", pub[t]) /\ pass[t].verdict # "none"
  <2>1. Stage("settlePublish", pub[t]) /\ pass[t].verdict # "none"
    BY <1>1, StageIs DEF Judged
  <2> QED BY <2>1, Stages
<1>3. {"prIntent", "setOutcome"} \subseteq Passes /\ {"prIntent", "setOutcome"} \cap Claimed = {} /\ "publish" \in Kinds
  BY DEF Passes, Claimed, Kinds
<1>4. PICK q \in {"prIntent", "setOutcome"} : NextAfterVerify(t) = [pass[t] EXCEPT !.pc = q]
  BY DEF NextAfterVerify
<1>5. Follows(t, NextAfterVerify(t))
  BY <1>1, <1>2, <1>3, <1>4, NextFollows
<1>6. CASE IF pass[t].live THEN pass[t].lost ELSE ack[t] = "unknown"
  <2>1. PICK state \in {"Succeeded", "OutcomeUnknown"} : Settle(t, "publish", state, NextAfterVerify(t))
    BY <1>6 DEF SettlePublish
  <2>2. state \in Settled /\ "publish" # "verify"
    BY DEF Settled
  <2> QED BY <1>1, <1>3, <1>5, <2>1, <2>2, SettleGood
<1>7. CASE ~(IF pass[t].live THEN pass[t].lost ELSE ack[t] = "unknown")
  <2>1. pass' = [pass EXCEPT ![t] = NextAfterVerify(t)] /\ UNCHANGED <<claim, pub, ack, pr, delivery, UnchangedBut>>
    BY <1>7 DEF SettlePublish
  <2>2. UNCHANGED <<claim, pub, ack, delivery, effect, reply>> /\ UNCHANGED <<expects, pr, attempts, cancelled, service, budget>>
    BY <2>1 DEF UnchangedBut, ledger
  <2>3. Outside(t)
    BY <2>2, OutsideSame
  <2> QED BY <1>5, <2>1, <2>2, <2>3, PassFollows
<1> QED BY <1>6, <1>7

----------------------------------------------------------------------------
(* The pass. *)

\* A pass without a call goes to a step that fits, and nothing else changes.
LEMMA GoesGood ==
    ASSUME PublicationInv, NEW t \in Tasks, NEW q \in Passes, Goes(t, q), pass[t].call = "no", Stage(q, pub[t]),
           q \in Judged => pass[t].verdict # "none", q \in Claimed => claim = t,
           UNCHANGED <<claim, pub, ack, delivery, effect, reply>>, Outside(t)
    PROVE  Good
<1>1. PICK r : Follows(t, r) /\ pass' = [pass EXCEPT ![t] = r]
  BY GoesFollows
<1> QED BY <1>1, PassFollows

\* A pass makes no call but at a step for an effect.
LEMMA NoCall ==
    ASSUME PublicationInv, NEW t \in Tasks, pass[t].pc \notin Kinds
    PROVE  pass[t].call = "no"
<1>1. TaskInv(t)
  BY TaskIs
<1> QED BY <1>1 DEF TaskInv, Calls

\* The first pass starts.
LEMMA StartGood ==
    ASSUME PublicationInv, NEW t \in Tasks, Start(t)
    PROVE  Good
<1>1. pass[t].pc = "idle" /\ Goes(t, "claim") /\ UNCHANGED <<claim, pub, ack, pr, delivery, UnchangedBut>>
  BY DEF Start
<1>2. pass[t].call = "no"
  BY <1>1, NoCall DEF Kinds
<1>3. Stage("claim", pub[t])
  <2>1. Stage("idle", pub[t])
    BY <1>1, StageIs
  <2> QED BY <2>1, Stages
<1>4. "claim" \in Passes /\ "claim" \notin Judged \cup Claimed
  BY DEF Passes, Judged, Claimed
<1>5. UNCHANGED <<claim, pub, ack, delivery, effect, reply>> /\ UNCHANGED <<expects, pr, attempts, cancelled, service, budget>>
  BY <1>1 DEF UnchangedBut, ledger
<1>6. Outside(t)
  BY <1>5, OutsideSame
<1> QED BY <1>1, <1>2, <1>3, <1>4, <1>5, <1>6, GoesGood

\* The cancellation is read before the publishing decision.
LEMMA DecideGood ==
    ASSUME PublicationInv, NEW t \in Tasks, Decide(t)
    PROVE  Good
<1>1. pass[t].pc = "decide" /\ pass[t].call = "no" /\ UNCHANGED <<claim, pub, ack, pr, delivery, UnchangedBut>>
  BY DEF Decide, At
<1>2. PICK q \in {"cancelPrepared", "setPublishing"} : Goes(t, q)
  BY DEF Decide
<1>3. Stage(q, pub[t])
  <2>1. Stage("decide", pub[t])
    BY <1>1, StageIs
  <2> QED BY <2>1, Stages
<1>4. q \in Passes /\ q \notin Judged \cup Claimed
  BY DEF Passes, Judged, Claimed
<1>5. UNCHANGED <<claim, pub, ack, delivery, effect, reply>> /\ UNCHANGED <<expects, pr, attempts, cancelled, service, budget>>
  BY <1>1 DEF UnchangedBut, ledger
<1>6. Outside(t)
  BY <1>5, OutsideSame
<1> QED BY <1>1, <1>2, <1>3, <1>4, <1>5, <1>6, GoesGood

\* The Publication could not be created.
LEMMA CreateFailsGood ==
    ASSUME PublicationInv, NEW t \in Tasks, CreateFails(t)
    PROVE  Good
<1>1. pass[t].pc = "create" /\ pass[t].call = "no" /\ Fault /\ Goes(t, "cleanup")
  BY DEF CreateFails, At
<1>2. Stage("cleanup", pub[t]) /\ claim = t
  <2>1. Stage("create", pub[t]) /\ claim = t
    BY <1>1, StageIs DEF Claimed
  <2> QED BY <2>1, Stages
<1>3. "cleanup" \in Passes /\ "cleanup" \notin Judged
  BY DEF Passes, Judged
<1>4. /\ UNCHANGED <<claim, pub, ack, delivery, effect, reply>> /\ late' \subseteq late \cup Orphans(t)
      /\ UNCHANGED <<expects, pr, attempts, cancelled, journal, remote, landed>>
  BY DEF CreateFails, ledger, service
<1>5. Outside(t)
  BY <1>1, <1>4, OutsideFault
<1> QED BY <1>1, <1>2, <1>3, <1>4, <1>5, GoesGood

\* A call to the store fails: inside an effect, at the settlement of a preflight, or elsewhere.
LEMMA StoreErrorGood ==
    ASSUME PublicationInv, NEW t \in Tasks, StoreError(t)
    PROVE  Good
<1>1. pass[t].call = "no" /\ Fault /\ pass' = [pass EXCEPT ![t] = AfterStoreError(t)]
  BY DEF StoreError
<1>2. /\ UNCHANGED <<claim, pub, ack, delivery, effect, reply>> /\ late' \subseteq late \cup Orphans(t)
      /\ UNCHANGED <<expects, pr, attempts, cancelled, journal, remote, landed>>
  BY DEF StoreError, ledger, service
<1>3. Outside(t)
  BY <1>1, <1>2, OutsideFault
<1>4. "settlePreflight" \notin Kinds /\ "failing" \notin Kinds
  BY DEF Kinds
<1>5. CASE pass[t].pc \in Kinds
  <2>1. PICK k \in Kinds : k = pass[t].pc
    BY <1>5
  <2>2. AfterStoreError(t) = AfterError(t, k, "retryable")
    BY SMTT(60), <1>4, <1>5, <2>1 DEF AfterStoreError
  <2>3. Follows(t, AfterError(t, k, "retryable"))
    BY <2>1, AfterErrorFits
  <2> QED BY <1>1, <1>2, <1>3, <2>2, <2>3, PassFollows
<1>6. CASE pass[t].pc = "settlePreflight"
  <2>1. AfterStoreError(t) = [pass[t] EXCEPT !.pc = "cleanup"]
    BY SMTT(60), <1>4, <1>6 DEF AfterStoreError
  <2>2. Stage("cleanup", pub[t]) /\ claim = t
    <3>1. Stage("settlePreflight", pub[t]) /\ claim = t
      BY <1>6, StageIs DEF Claimed
    <3> QED BY <3>1, Stages
  <2>3. "cleanup" \in Passes /\ "cleanup" \notin Judged
    BY DEF Passes, Judged
  <2>4. Goes(t, "cleanup")
    BY <1>1, <2>1 DEF Goes
  <2> QED BY <1>1, <1>2, <1>3, <2>2, <2>3, <2>4, GoesGood
<1>7. CASE pass[t].pc = "failing"
  <2>1. AfterStoreError(t) = Stopped(t)
    BY SMTT(60), <1>4, <1>7 DEF AfterStoreError
  <2>2. Follows(t, Stopped(t))
    BY StoppedFollows
  <2> QED BY <1>1, <1>2, <1>3, <2>1, <2>2, PassFollows
<1>8. CASE pass[t].pc \notin Kinds \cup {"settlePreflight", "failing"}
  <2>1. AfterStoreError(t) = IF pass[t].live THEN [pass[t] EXCEPT !.pc = "failing"] ELSE Stopped(t)
    BY SMTT(60), <1>8 DEF AfterStoreError
  <2>2. Fails(t)
    BY <1>1, <2>1 DEF Fails, Goes, Stops
  <2> QED BY <1>1, <1>2, <1>3, <2>2, PassFails
<1> QED BY <1>5, <1>6, <1>7, <1>8

\* Preflight, Prepare and ReconcilePullRequest are answered.
LEMMA ServeOtherGood ==
    ASSUME PublicationInv, NEW t \in Tasks, ServeOther(t)
    PROVE  Good
<1>1. PICK p : p = pass[t]
  OBVIOUS
<1>2. PICK x \in {"error", "ok"} : Gets(t, x)
  BY DEF ServeOther
<1>3. p.call = "sent" /\ p.pc \in {"preflight", "prepare", "pr"}
  BY <1>1 DEF ServeOther
<1>4. /\ p \in PassRec /\ Stage(p.pc, pub[t]) /\ (p.pc \in Claimed => claim = t) /\ Calls(p, effect[t], reply[t])
      /\ (p.verdict \in Delivered => t \in landed)
  BY <1>1, TaskIs DEF TaskInv, Holds, Says
<1> DEFINE r == [p EXCEPT !.call = x]
<1>5. r \in PassRec /\ r.pc = p.pc /\ r.call = x /\ r.verdict = p.verdict
  BY <1>4 DEF PassRec, Answers
<1>6. pass' = [pass EXCEPT ![t] = r]
  BY <1>1, <1>2 DEF Gets
<1> HIDE DEF r
<1>7. Calls(r, effect[t], reply[t])
  BY <1>3, <1>4, <1>5 DEF Calls
<1>8. r.call \notin Delivered
  BY <1>5 DEF Delivered
<1>9. UNCHANGED <<claim, pub, ack, delivery, effect, reply>> /\ UNCHANGED <<expects, pr, attempts, cancelled, service, budget>>
  BY DEF ServeOther, ledger
<1>10. Outside(t)
  BY <1>9, OutsideSame
<1> QED BY <1>4, <1>5, <1>6, <1>7, <1>8, <1>9, <1>10, PassMoves

\* The Task is cancelled.
LEMMA CancelGood ==
    ASSUME PublicationInv, NEW t \in Tasks, Cancel(t)
    PROVE  Good
<1>1. PICK p : p = pass[t]
  OBVIOUS
<1>2. /\ p \in PassRec /\ Stage(p.pc, pub[t]) /\ (p.pc \in Claimed => claim = t) /\ Calls(p, effect[t], reply[t])
      /\ (p.call \in Delivered \/ p.verdict \in Delivered => t \in landed)
  BY <1>1, TaskIs DEF TaskInv, Holds, Says
<1>3. UNCHANGED <<claim, pub, ack, delivery, effect, reply>> /\ pass' = [pass EXCEPT ![t] = p]
  BY <1>1, TaskSame DEF Cancel, ledger
<1>4. Outside(t)
  BY DEF Cancel, PublicationInv, TypeOK, Outside, service, budget, ledger
<1> QED BY <1>2, <1>3, <1>4, PassMoves

\* A step that writes the record of the pull request.
LEMMA OutsidePR ==
    ASSUME PublicationInv, NEW t \in Tasks, NEW x \in {"intent", "receipt"}, pr' = [pr EXCEPT ![t] = x], UNCHANGED UnchangedBut
    PROVE  Outside(t)
<1>1. pr' \in [Tasks -> {"none", "intent", "receipt"}]
  BY DEF PublicationInv, TypeOK
<1> QED BY <1>1 DEF UnchangedBut, ledger, PublicationInv, TypeOK, Outside, service, budget

\* The intent of the pull request is stored.
LEMMA SetPRIntentGood ==
    ASSUME PublicationInv, NEW t \in Tasks, SetPRIntent(t)
    PROVE  Good
<1>1. pass[t].pc = "prIntent" /\ pass[t].call = "no" /\ Goes(t, "pr")
  BY DEF SetPRIntent, At
<1>2. UNCHANGED <<claim, pub, ack, delivery, effect, reply>>
  BY DEF SetPRIntent, UnchangedBut, ledger
<1>3. Outside(t)
  BY OutsidePR DEF SetPRIntent
<1>4. Stage("prIntent", pub[t]) /\ pass[t].verdict # "none"
  BY <1>1, StageIs DEF Judged
<1>5. Stage("pr", pub[t])
  BY <1>4, Stages
<1>6. "pr" \in Passes /\ "pr" \notin Claimed
  BY DEF Passes, Claimed, Kinds
<1> QED BY <1>1, <1>2, <1>3, <1>4, <1>5, <1>6, GoesGood

\* Its receipt is stored.
LEMMA SetPRReceiptGood ==
    ASSUME PublicationInv, NEW t \in Tasks, SetPRReceipt(t)
    PROVE  Good
<1>1. pass[t].pc = "prReceipt" /\ pass[t].call = "no" /\ Goes(t, "setOutcome")
  BY DEF SetPRReceipt, At
<1>2. UNCHANGED <<claim, pub, ack, delivery, effect, reply>>
  BY DEF SetPRReceipt, UnchangedBut, ledger
<1>3. Outside(t)
  BY OutsidePR DEF SetPRReceipt
<1>4. Stage("prReceipt", pub[t]) /\ pass[t].verdict # "none"
  BY <1>1, StageIs DEF Judged
<1>5. Stage("setOutcome", pub[t])
  BY <1>4, Stages
<1>6. "setOutcome" \in Passes /\ "setOutcome" \notin Claimed
  BY DEF Passes, Claimed
<1> QED BY <1>1, <1>2, <1>3, <1>4, <1>5, <1>6, GoesGood

----------------------------------------------------------------------------
(* The claim. *)

\* The branch is claimed, or the delivery fails.
LEMMA EnsureClaimGood ==
    ASSUME PublicationInv, NEW t \in Tasks, EnsureClaim(t)
    PROVE  Good
<1>1. pass[t].pc = "claim" /\ pass[t].call = "no" /\ UNCHANGED <<pub, ack, pr, delivery, UnchangedBut>>
  BY DEF EnsureClaim, At
<1>2. UNCHANGED <<pub, ack, delivery, effect, reply>> /\ UNCHANGED <<expects, pr, attempts, cancelled, service, budget>>
  BY <1>1 DEF UnchangedBut, ledger
<1>3. Outside(t)
  BY <1>2, OutsideSame
<1>4. CASE claim \in {"none", t}
  <2>1. claim' = t /\ Goes(t, "preflight")
    BY <1>4 DEF EnsureClaim
  <2>2. "preflight" \in Passes /\ "preflight" \notin Judged /\ "preflight" # "verify"
    BY DEF Passes, Kinds, Judged
  <2>3. PICK r : Now(t, r, "preflight", pass[t].call, pass[t].verdict)
    BY <2>1, <2>2, GoesIs
  <2>4. r \in PassRec /\ pass' = [pass EXCEPT ![t] = r] /\ r.pc = "preflight" /\ r.call = "no" /\ r.verdict = pass[t].verdict
    BY <1>1, <2>3 DEF Now
  <2>5. Stage("claim", pub[t])
    BY <1>1, StageIs
  <2>6. Stage(r.pc, pub[t])
    BY <2>4, <2>5, Stages
  <2>7. TaskInv(t) /\ (Says(pass[t], pub[t], reply[t]) => t \in landed)
    BY TaskIs
  <2>8. Calls(r, effect[t], reply[t])
    BY <2>2, <2>4, <2>7 DEF TaskInv, Calls
  <2>9. r.call \in Delivered \/ r.verdict \in Delivered => t \in landed
    BY <2>4, <2>7 DEF Says, Delivered
  <2>10. Holds(t, r, pub[t], claim')
    BY <2>1 DEF Holds
  <2>11. claim' \in Tasks \cup {"none"} /\ \A u \in Tasks : u # t /\ claim = u => claim' = u
    BY <1>4, <2>1, PublicationAssumption
  <2> QED BY <1>2, <1>3, <2>4, <2>6, <2>8, <2>9, <2>10, <2>11, ClaimMoves
<1>5. CASE claim \notin {"none", t}
  <2>1. Fails(t) /\ claim' = claim
    BY <1>5 DEF EnsureClaim
  <2> QED BY <1>1, <1>2, <1>3, <2>1, PassFails
<1> QED BY <1>4, <1>5

\* The claim is dropped, or not, and the pass ends.
LEMMA DropGood ==
    ASSUME PublicationInv, NEW t \in Tasks, NEW r, NEW q \in {"failing", "stopped"}, NEW v \in {pass[t].verdict, "none"},
           Now(t, r, q, "no", v), claim' = claim \/ (claim = t /\ claim' = "none" /\ pub[t] \notin ActivePub \cup {"OutcomeUnknown"}),
           UNCHANGED <<pub, ack, pr, delivery, UnchangedBut>>
    PROVE  Good
<1>1. /\ r \in PassRec /\ pass' = [pass EXCEPT ![t] = r] /\ Stage(r.pc, pub[t]) /\ Calls(r, effect[t], reply[t])
      /\ (r.call \in Delivered \/ r.verdict \in Delivered => t \in landed) /\ r.pc \notin Claimed
  BY RestFits
<1>2. UNCHANGED <<pub, ack, delivery, effect, reply>> /\ UNCHANGED <<expects, pr, attempts, cancelled, service, budget>>
  BY DEF UnchangedBut, ledger
<1>3. Outside(t)
  BY <1>2, OutsideSame
<1>4. claim \in Tasks \cup {"none"} /\ TaskInv(t)
  BY TaskIs
<1>5. Holds(t, r, pub[t], claim')
  BY <1>1, <1>4 DEF TaskInv, Holds
<1>6. claim' \in Tasks \cup {"none"} /\ \A u \in Tasks : u # t /\ claim = u => claim' = u
  BY <1>4
<1> QED BY <1>1, <1>2, <1>3, <1>5, <1>6, ClaimMoves

\* A claim without a Publication is dropped.
LEMMA CleanupGood ==
    ASSUME PublicationInv, NEW t \in Tasks, Cleanup(t)
    PROVE  Good
<1>1. Fails(t) /\ pass[t].call = "no" /\ UNCHANGED <<pub, ack, pr, delivery, UnchangedBut>>
  BY DEF Cleanup, At
<1>2. "none" \notin ActivePub \cup {"OutcomeUnknown"}
  BY DEF ActivePub
<1>3. claim' = claim \/ (claim = t /\ claim' = "none" /\ pub[t] \notin ActivePub \cup {"OutcomeUnknown"})
  BY <1>2 DEF Cleanup
<1>4. PICK r : \E q \in {"failing", "stopped"}, v \in {pass[t].verdict, "none"} : Now(t, r, q, "no", v)
  BY <1>1, FailsIs
<1>5. PICK q \in {"failing", "stopped"}, v \in {pass[t].verdict, "none"} : Now(t, r, q, "no", v)
  BY <1>4
<1> QED BY <1>1, <1>3, <1>5, DropGood

\* The claim of a settled Publication is dropped.
LEMMA ReclaimClaimGood ==
    ASSUME PublicationInv, NEW t \in Tasks, ReclaimClaim(t)
    PROVE  Good
<1>1. pass[t].pc = "reclaim" /\ Stops(t) /\ UNCHANGED <<pub, ack, pr, delivery, UnchangedBut>>
  BY DEF ReclaimClaim, At
<1>2. Stage("reclaim", pub[t])
  BY <1>1, StageIs
<1>3. pub[t] \in TerminalPub
  BY <1>2 DEF Stage
<1>4. pub[t] \notin ActivePub
  BY <1>3 DEF TerminalPub, ActivePub, Delivered
<1>5. claim' = claim \/ (claim = t /\ claim' = "none" /\ pub[t] \notin ActivePub \cup {"OutcomeUnknown"})
  BY <1>4 DEF ReclaimClaim
<1>6. PICK r : Now(t, r, "stopped", "no", "none")
  BY <1>1, StopsIs
<1> QED BY <1>1, <1>5, <1>6, DropGood

----------------------------------------------------------------------------
(* The Publication. *)

\* A Publication goes from one state to another that its history allows.
Moves(t, s, a) ==
    /\ s \in PubStates \ {"none"} /\ a \in {"none", "known", "unknown"}
    /\ (s \in Delivered => t \in landed) /\ (s \in ActivePub \cup {"OutcomeUnknown"} => claim = t) /\ (s = "Verifying" => a # "none")
    /\ pub[t] \notin Delivered /\ (pub[t] \in Past => s \in Past) /\ (pub[t] \in TerminalPub => s = pub[t])

\* A pass takes its Publication to the state s and goes on with q.
LEMMA PubGoes ==
    ASSUME PublicationInv, NEW t \in Tasks, NEW q \in Passes, q \notin Claimed \cup Judged, Goes(t, q), pass[t].call = "no",
           NEW s, NEW a, Moves(t, s, a), Stage(q, s), pub' = [pub EXCEPT ![t] = s], ack' = [ack EXCEPT ![t] = a],
           UNCHANGED <<claim, pr, delivery, UnchangedBut>>
    PROVE  Good
<1>1. PICK r : Now(t, r, q, pass[t].call, pass[t].verdict)
  BY GoesIs
<1>2. r \in PassRec /\ pass' = [pass EXCEPT ![t] = r] /\ r.pc = q /\ r.call = "no" /\ r.verdict = pass[t].verdict
  BY <1>1 DEF Now
<1>3. UNCHANGED <<claim, delivery, effect, reply>> /\ UNCHANGED <<expects, pr, attempts, cancelled, service, budget>>
  BY DEF UnchangedBut, ledger
<1>4. Outside(t)
  BY <1>3, OutsideSame
<1>5. TaskInv(t) /\ (Says(pass[t], pub[t], reply[t]) => t \in landed)
  BY TaskIs
<1>6. Calls(r, effect[t], reply[t])
  BY <1>2, <1>5 DEF TaskInv, Calls
<1>7. Says(r, s, reply[t]) => t \in landed
  <2>1. "no" \notin Delivered
    BY DEF Delivered
  <2> QED BY <1>2, <1>5, <2>1 DEF Says, Moves
<1>8. Holds(t, r, s, claim)
  BY <1>2 DEF Holds, Moves
<1>9. Told(s, a, delivery[t])
  BY <1>5 DEF TaskInv, Told, Moves
<1>10. s \in PubStates /\ a \in {"none", "known", "unknown"} /\ (pub[t] \in Past => s \in Past) /\ (pub[t] \in TerminalPub => s = pub[t])
  BY DEF Moves
<1> QED BY <1>2, <1>3, <1>4, <1>6, <1>7, <1>8, <1>9, <1>10, PubMoves

\* The state of the Publication at a step of its pass.
LEMMA StateAt ==
    ASSUME PublicationInv, NEW t \in Tasks
    PROVE  /\ pass[t].pc \in Unpublished => pub[t] = "none"
           /\ pass[t].pc \in InPreparing => pub[t] = "Preparing"
           /\ pass[t].pc \in InPrepared => pub[t] \in {"Prepared", "CancelledBeforePublish"}
           /\ pass[t].pc \in InPublishing => pub[t] = "Publishing"
           /\ pass[t].pc \in InVerifying => pub[t] = "Verifying"
           /\ pass[t].pc \in {"toOutcome", "reclaim"} => pub[t] \in TerminalPub
           /\ pass[t].pc \in Claimed => claim = t
           /\ pub[t] \in ActivePub \cup {"OutcomeUnknown"} => claim = t
           /\ pass[t].pc \in Judged => pass[t].verdict # "none"
           /\ ack[t] \in {"none", "known", "unknown"}
<1>1. TaskInv(t) /\ ack[t] \in {"none", "known", "unknown"}
  BY TaskIs
<1> QED BY <1>1 DEF TaskInv, Stage, Holds, Calls

\* The steps that begin with a Publication in the state s.
LEMMA Entry ==
    /\ Stage("toPreparing", "Preparing") /\ Stage("toPrepared", "Prepared") /\ Stage("toPublishing", "Publishing")
    /\ Stage("toVerifying", "Verifying") /\ (\A s \in TerminalPub : Stage("toOutcome", s))
    /\ {"toPreparing", "toPrepared", "toPublishing", "toVerifying", "toOutcome"} \subseteq Passes \ (Claimed \cup Judged)
BY SMTT(60) DEF Stage, Unpublished, Claimed, InPreparing, InPrepared, InPublishing, InVerifying, Judged, Passes

\* The Publication is created under the claim.
LEMMA EnsurePublicationGood ==
    ASSUME PublicationInv, NEW t \in Tasks, EnsurePublication(t)
    PROVE  Good
<1>1. /\ pass[t].pc = "create" /\ pass[t].call = "no" /\ pub' = [pub EXCEPT ![t] = "Preparing"] /\ Goes(t, "toPreparing")
      /\ UNCHANGED <<claim, pr, delivery, UnchangedBut>> /\ ack' = ack
  BY DEF EnsurePublication, At
<1>2. "create" \in Claimed /\ "create" \in Unpublished
  BY DEF Claimed, Unpublished
<1>3. pub[t] = "none" /\ claim = t /\ ack[t] \in {"none", "known", "unknown"}
  BY <1>1, <1>2, StateAt
<1>4. Moves(t, "Preparing", ack[t])
  BY SMTT(60), <1>3 DEF Moves, PubStates, ActivePub, TerminalPub, Delivered, Past
<1>5. ack' = [ack EXCEPT ![t] = ack[t]]
  BY <1>1, TaskSame
<1> QED BY <1>1, <1>4, <1>5, Entry, PubGoes

\* The prepared commit is stored.
LEMMA SetPreparedGood ==
    ASSUME PublicationInv, NEW t \in Tasks, SetPrepared(t)
    PROVE  Good
<1>1. pass[t].pc = "setPrepared" /\ pass[t].call = "no" /\ UNCHANGED <<claim, pr, delivery, UnchangedBut>> /\ ack' = ack
  BY DEF SetPrepared, At
<1>2. "setPrepared" \in InPreparing /\ "Preparing" \in ActivePub
  BY DEF InPreparing, ActivePub
<1>3. pub[t] = "Preparing" /\ claim = t /\ ack[t] \in {"none", "known", "unknown"}
  BY <1>1, <1>2, StateAt
<1>4. pub' = [pub EXCEPT ![t] = "Prepared"] /\ Goes(t, "toPrepared")
  BY <1>3 DEF SetPrepared, Transition
<1>5. Moves(t, "Prepared", ack[t])
  BY SMTT(60), <1>3 DEF Moves, PubStates, ActivePub, TerminalPub, Delivered, Past
<1>6. ack' = [ack EXCEPT ![t] = ack[t]]
  BY <1>1, TaskSame
<1> QED BY <1>1, <1>4, <1>5, <1>6, Entry, PubGoes

\* The failed preparation is stored.
LEMMA SetFailedGood ==
    ASSUME PublicationInv, NEW t \in Tasks, SetFailed(t)
    PROVE  Good
<1>1. pass[t].pc = "setFailed" /\ pass[t].call = "no" /\ UNCHANGED <<claim, pr, delivery, UnchangedBut>> /\ ack' = ack
  BY DEF SetFailed, At
<1>2. "setFailed" \in InPreparing /\ "Preparing" \in ActivePub
  BY DEF InPreparing, ActivePub
<1>3. pub[t] = "Preparing" /\ claim = t /\ ack[t] \in {"none", "known", "unknown"}
  BY <1>1, <1>2, StateAt
<1>4. PICK s \in {"OutcomeUnknown", "CredentialBlocked", "PreparationFailed"} : Transition(t, "Preparing", s, "toOutcome")
  BY DEF SetFailed
<1>5. pub' = [pub EXCEPT ![t] = s] /\ Goes(t, "toOutcome")
  BY <1>3, <1>4 DEF Transition
<1>6. Moves(t, s, ack[t]) /\ s \in TerminalPub
  BY SMTT(60), <1>3 DEF Moves, PubStates, ActivePub, TerminalPub, Delivered, Past
<1>7. ack' = [ack EXCEPT ![t] = ack[t]]
  BY <1>1, TaskSame
<1>8. Stage("toOutcome", s) /\ "toOutcome" \in Passes /\ "toOutcome" \notin Claimed \cup Judged
  BY <1>6, Entry
<1> QED BY <1>1, <1>5, <1>6, <1>7, <1>8, PubGoes

\* The pass cancels its Publication.
LEMMA CancelPreparedGood ==
    ASSUME PublicationInv, NEW t \in Tasks, CancelPrepared(t)
    PROVE  Good
<1>1. pass[t].pc = "cancelPrepared" /\ pass[t].call = "no" /\ UNCHANGED <<claim, pr, delivery, UnchangedBut>> /\ ack' = ack
  BY DEF CancelPrepared, At
<1>2. "cancelPrepared" \in InPrepared
  BY DEF InPrepared
<1>3. pub[t] \in {"Prepared", "CancelledBeforePublish"} /\ ack[t] \in {"none", "known", "unknown"}
  BY <1>1, <1>2, StateAt
<1>4. pub' = [pub EXCEPT ![t] = "CancelledBeforePublish"] /\ Goes(t, "toOutcome")
  BY <1>3 DEF CancelPrepared
<1>5. Moves(t, "CancelledBeforePublish", ack[t]) /\ "CancelledBeforePublish" \in TerminalPub
  BY SMTT(60), <1>3 DEF Moves, PubStates, ActivePub, TerminalPub, Delivered, Past
<1>6. ack' = [ack EXCEPT ![t] = ack[t]]
  BY <1>1, TaskSame
<1>7. Stage("toOutcome", "CancelledBeforePublish") /\ "toOutcome" \in Passes /\ "toOutcome" \notin Claimed \cup Judged
  BY <1>5, Entry
<1> QED BY <1>1, <1>4, <1>5, <1>6, <1>7, PubGoes

\* Publishing is won, or lost to the watcher.
LEMMA SetPublishingGood ==
    ASSUME PublicationInv, NEW t \in Tasks, SetPublishing(t)
    PROVE  Good
<1>1. /\ pass[t].pc = "setPublishing" /\ pass[t].call = "no"
      /\ UNCHANGED <<claim, pr, delivery, UnchangedBut>> /\ ack' = ack
  BY DEF SetPublishing, At
<1>2. "setPublishing" \in InPrepared /\ "Prepared" \in ActivePub
  BY DEF InPrepared, ActivePub
<1>3. pub[t] \in {"Prepared", "CancelledBeforePublish"} /\ ack[t] \in {"none", "known", "unknown"} /\ (pub[t] = "Prepared" => claim = t)
  BY <1>1, <1>2, StateAt
<1>4. UNCHANGED <<claim, delivery, ack, effect, reply>> /\ UNCHANGED <<expects, pr, attempts, cancelled, service, budget>>
  BY <1>1 DEF UnchangedBut, ledger
<1>5. Outside(t)
  BY <1>4, OutsideSame
<1>6. CASE pub[t] = "CancelledBeforePublish" /\ pass[t].live
  <2>1. pub' = pub /\ Goes(t, "toOutcome")
    BY <1>6 DEF SetPublishing
  <2>2. pub[t] \in TerminalPub
    BY <1>6 DEF TerminalPub
  <2>3. Stage("toOutcome", pub[t]) /\ "toOutcome" \in Passes /\ "toOutcome" \notin Claimed \cup Judged
    BY <2>2, Entry
  <2> QED BY <1>1, <1>4, <1>5, <2>1, <2>3, GoesGood
<1>7. CASE ~(pub[t] = "CancelledBeforePublish" /\ pass[t].live) /\ pub[t] # "Prepared"
  <2>1. pub' = pub /\ Fails(t)
    BY <1>7 DEF SetPublishing, Transition
  <2> QED BY <1>1, <1>4, <1>5, <2>1, PassFails
<1>8. CASE ~(pub[t] = "CancelledBeforePublish" /\ pass[t].live) /\ pub[t] = "Prepared"
  <2>1. pub' = [pub EXCEPT ![t] = "Publishing"] /\ Goes(t, "toPublishing")
    BY <1>8 DEF SetPublishing, Transition
  <2>2. Moves(t, "Publishing", ack[t])
    BY SMTT(60), <1>3, <1>8 DEF Moves, PubStates, ActivePub, TerminalPub, Delivered, Past
  <2>3. ack' = [ack EXCEPT ![t] = ack[t]]
    BY <1>1, TaskSame
  <2> QED BY <1>1, <2>1, <2>2, <2>3, Entry, PubGoes
<1> QED BY <1>6, <1>7, <1>8

\* The publish receipt is stored.
LEMMA SetVerifyingGood ==
    ASSUME PublicationInv, NEW t \in Tasks, SetVerifying(t)
    PROVE  Good
<1>1. pass[t].pc = "setVerifying" /\ pass[t].call = "no" /\ UNCHANGED <<claim, pr, delivery, UnchangedBut>>
  BY DEF SetVerifying, At
<1>2. "setVerifying" \in InPublishing /\ "Publishing" \in ActivePub
  BY DEF InPublishing, ActivePub
<1>3. pub[t] = "Publishing" /\ claim = t
  BY <1>1, <1>2, StateAt
<1>4. pub' = [pub EXCEPT ![t] = "Verifying"] /\ Goes(t, "toVerifying")
  BY <1>3 DEF SetVerifying, Transition
<1>5. PICK a \in {"known", "unknown"} : ack' = [ack EXCEPT ![t] = a]
  BY DEF SetVerifying
<1>6. Moves(t, "Verifying", a)
  BY SMTT(60), <1>3 DEF Moves, PubStates, ActivePub, TerminalPub, Delivered, Past
<1> QED BY <1>1, <1>4, <1>5, <1>6, Entry, PubGoes

\* The verdict is stored.
LEMMA SetOutcomeGood ==
    ASSUME PublicationInv, NEW t \in Tasks, SetOutcome(t)
    PROVE  Good
<1>1. pass[t].pc = "setOutcome" /\ pass[t].call = "no" /\ UNCHANGED <<claim, pr, delivery, UnchangedBut>> /\ ack' = ack
  BY DEF SetOutcome, At
<1>2. "setOutcome" \in InVerifying /\ "Verifying" \in ActivePub /\ "setOutcome" \in Judged
  BY DEF InVerifying, ActivePub, Judged
<1>3. pub[t] = "Verifying" /\ claim = t /\ pass[t].verdict # "none" /\ ack[t] \in {"none", "known", "unknown"}
  BY <1>1, <1>2, StateAt
<1>4. pass[t] \in PassRec /\ (pass[t].verdict \in Delivered => t \in landed)
  BY TaskIs DEF Says
<1>5. PICK s \in Verdicts : s = pass[t].verdict
  BY <1>3, <1>4 DEF PassRec
<1>6. pub' = [pub EXCEPT ![t] = s] /\ Goes(t, "toOutcome")
  BY <1>3, <1>5 DEF SetOutcome, Transition
<1>7. s \in Delivered => t \in landed
  BY <1>4, <1>5
<1>8. Moves(t, s, ack[t]) /\ s \in TerminalPub
  BY SMTT(60), <1>3, <1>7 DEF Moves, PubStates, ActivePub, TerminalPub, Delivered, Past, Verdicts
<1>9. ack' = [ack EXCEPT ![t] = ack[t]]
  BY <1>1, TaskSame
<1>10. Stage("toOutcome", s) /\ "toOutcome" \in Passes /\ "toOutcome" \notin Claimed \cup Judged
  BY <1>8, Entry
<1> QED BY <1>1, <1>6, <1>8, <1>9, <1>10, PubGoes

\* The watcher cancels a Prepared Publication beside the pass.
LEMMA WatchCancelGood ==
    ASSUME PublicationInv, NEW t \in Tasks, WatchCancel(t)
    PROVE  Good
<1>1. PICK p : p = pass[t]
  OBVIOUS
<1>2. PICK s0 \in PubStates : s0 = pub[t]
  BY TaskIs
<1>3. /\ p \in PassRec /\ Stage(p.pc, s0) /\ Holds(t, p, s0, claim) /\ Calls(p, effect[t], reply[t])
      /\ (Says(p, s0, reply[t]) => t \in landed) /\ Told(s0, ack[t], delivery[t]) /\ ack[t] \in {"none", "known", "unknown"}
  BY <1>1, <1>2, TaskIs DEF TaskInv
<1> DEFINE r == [p EXCEPT !.watched = TRUE]
           s == IF s0 = "Prepared" THEN "CancelledBeforePublish" ELSE s0
<1>4. r \in PassRec /\ r.pc = p.pc /\ r.call = p.call /\ r.verdict = p.verdict
  BY <1>3 DEF PassRec
<1>5. pass' = [pass EXCEPT ![t] = r] /\ ack' = [ack EXCEPT ![t] = ack[t]]
  BY <1>1, TaskSame DEF WatchCancel
<1>6. pub' = [pub EXCEPT ![t] = s]
  BY <1>2 DEF WatchCancel
<1>7. /\ s \in PubStates /\ Stage(r.pc, s) /\ (s \in Delivered => s0 \in Delivered) /\ (s # s0 => s \notin ActivePub \cup {"OutcomeUnknown"})
      /\ (s0 \in Past => s \in Past) /\ (s0 \in TerminalPub => s = s0) /\ (s # s0 => s \notin {"none", "Verifying"} /\ s0 \notin Delivered)
  BY SMTT(60), <1>2, <1>3, <1>4 DEF Stage, PubStates, ActivePub, TerminalPub, Delivered, Past, Unpublished, InPreparing, InPublishing, InVerifying
<1> HIDE DEF r, s
<1>8. Calls(r, effect[t], reply[t])
  BY <1>3, <1>4 DEF Calls
<1>9. Says(r, s, reply[t]) => t \in landed
  BY <1>3, <1>4, <1>7 DEF Says
<1>10. Holds(t, r, s, claim)
  BY <1>3, <1>4, <1>7 DEF Holds
<1>11. Told(s, ack[t], delivery[t])
  BY <1>3, <1>7 DEF Told
<1>12. UNCHANGED <<claim, delivery, effect, reply>> /\ UNCHANGED <<expects, attempts, cancelled, service, budget>> /\ pr' = pr
  BY DEF WatchCancel, ledger
<1>13. Outside(t)
  BY <1>12, OutsideSame
<1>14. (pub[t] \in Past => s \in Past) /\ (pub[t] \in TerminalPub => s = pub[t])
  BY <1>2, <1>7
<1>15. s \in PubStates /\ Stage(r.pc, s)
  BY <1>7
<1> QED BY <1>3, <1>4, <1>5, <1>6, <1>8, <1>9, <1>10, <1>11, <1>12, <1>13, <1>14, <1>15, PubMoves

----------------------------------------------------------------------------
(* The delivery. *)

\* An open delivery goes to the state d that the Publication allows.
Tells(t, d) ==
    /\ d \in DeliveryStates /\ delivery[t] \notin TerminalDelivery /\ (d \in Delivered => pub[t] = d)
    /\ pub[t] = "none" => d \in TerminalDelivery

LEMMA DeliveryGoes ==
    ASSUME PublicationInv, NEW t \in Tasks, NEW r, Follows(t, r), pass' = [pass EXCEPT ![t] = r], NEW d, Tells(t, d),
           delivery' = [delivery EXCEPT ![t] = d], UNCHANGED <<claim, pub, ack, pr, UnchangedBut>>
    PROVE  Good
<1>1. UNCHANGED <<claim, pub, ack, effect, reply>> /\ UNCHANGED <<expects, pr, attempts, cancelled, service, budget>>
  BY DEF UnchangedBut, ledger
<1>2. Outside(t)
  BY <1>1, OutsideSame
<1>3. TaskInv(t)
  BY TaskIs
<1>4. effect[t]["verify"] = "Succeeded" => reply[t]["verify"] \in Verdicts
  BY <1>3 DEF TaskInv, Calls
<1>5. /\ r \in PassRec /\ Stage(r.pc, pub[t]) /\ (r.pc \in Claimed => claim = t) /\ Calls(r, effect[t], reply[t])
      /\ (r.call \in Delivered \/ r.verdict \in Delivered => t \in landed)
  BY <1>4, FollowsCalls
<1>6. Told(pub[t], ack[t], d) /\ d \in DeliveryStates /\ delivery[t] \notin TerminalDelivery
  BY <1>3 DEF TaskInv, Told, Tells
<1> QED BY <1>1, <1>2, <1>5, <1>6, DeliveryMoves

\* The delivery follows the Publication.
LEMMA DeliverGood ==
    ASSUME PublicationInv, NEW t \in Tasks, NEW pc, NEW from \in OpenDelivery, NEW to \in OpenDelivery, NEW next \in Passes,
           Deliver(t, pc, from, to, next), Stage(next, pub[t]), next \notin Claimed \cup Judged, pub[t] # "none"
    PROVE  Good
<1>1. pass[t].call = "no" /\ UNCHANGED <<claim, pub, ack, pr, UnchangedBut>>
  BY DEF Deliver, At
<1>2. UNCHANGED <<claim, pub, ack, effect, reply>> /\ UNCHANGED <<expects, pr, attempts, cancelled, service, budget>>
  BY <1>1 DEF UnchangedBut, ledger
<1>3. Outside(t)
  BY <1>2, OutsideSame
<1>4. CASE delivery[t] = from
  <2>1. delivery' = [delivery EXCEPT ![t] = to] /\ Goes(t, next)
    BY <1>4 DEF Deliver
  <2>2. PICK r : Follows(t, r) /\ pass' = [pass EXCEPT ![t] = r]
    BY <1>1, <2>1, GoesFollows
  <2>3. from \notin TerminalDelivery /\ to \in DeliveryStates /\ to \notin Delivered
    BY SMTT(60) DEF TerminalDelivery, OpenDelivery, DeliveryStates, Delivered
  <2>4. Tells(t, to)
    BY <1>4, <2>3 DEF Tells
  <2> QED BY <1>1, <2>1, <2>2, <2>4, DeliveryGoes
<1>5. CASE delivery[t] # from /\ delivery[t] = to
  <2>1. delivery' = delivery /\ Goes(t, next)
    BY <1>5 DEF Deliver
  <2> QED BY <1>1, <1>2, <1>3, <2>1, GoesGood
<1>6. CASE delivery[t] # from /\ delivery[t] # to
  <2>1. delivery' = delivery /\ Fails(t)
    BY <1>6 DEF Deliver
  <2> QED BY <1>1, <1>2, <1>3, <2>1, PassFails
<1> QED BY <1>4, <1>5, <1>6

\* The four stages of a delivery.
LEMMA DeliverStageGood ==
    ASSUME PublicationInv, NEW t \in Tasks, DeliverStage(t)
    PROVE  Good
<1>1. /\ {"Validating", "Preparing", "Prepared", "Publishing", "Verifying"} \subseteq OpenDelivery
      /\ {"prepare", "decide", "publish", "verify"} \subseteq Passes \ (Claimed \cup Judged)
  BY SMTT(60) DEF OpenDelivery, Passes, Kinds, Claimed, Judged
<1>2. pass[t].pc \in InPreparing \cup InPrepared \cup InPublishing \cup InVerifying => pub[t] # "none"
  BY StateAt
<1>3. CASE Deliver(t, "toPreparing", "Validating", "Preparing", "prepare")
  <2>1. pass[t].pc = "toPreparing" /\ "toPreparing" \in InPreparing
    BY <1>3 DEF Deliver, At, InPreparing
  <2>2. Stage("toPreparing", pub[t]) /\ pub[t] # "none"
    BY <1>2, <2>1, StageIs
  <2>3. Stage("prepare", pub[t])
    BY <2>2, Stages
  <2> QED BY <1>1, <1>3, <2>2, <2>3, DeliverGood
<1>4. CASE Deliver(t, "toPrepared", "Preparing", "Prepared", "decide")
  <2>1. pass[t].pc = "toPrepared" /\ "toPrepared" \in InPrepared
    BY <1>4 DEF Deliver, At, InPrepared
  <2>2. Stage("toPrepared", pub[t]) /\ pub[t] # "none"
    BY <1>2, <2>1, StageIs
  <2>3. Stage("decide", pub[t])
    BY <2>2, Stages
  <2> QED BY <1>1, <1>4, <2>2, <2>3, DeliverGood
<1>5. CASE Deliver(t, "toPublishing", "Prepared", "Publishing", "publish")
  <2>1. pass[t].pc = "toPublishing" /\ "toPublishing" \in InPublishing
    BY <1>5 DEF Deliver, At, InPublishing
  <2>2. Stage("toPublishing", pub[t]) /\ pub[t] # "none"
    BY <1>2, <2>1, StageIs
  <2>3. Stage("publish", pub[t])
    BY <2>2, Stages
  <2> QED BY <1>1, <1>5, <2>2, <2>3, DeliverGood
<1>6. CASE Deliver(t, "toVerifying", "Publishing", "Verifying", "verify")
  <2>1. pass[t].pc = "toVerifying" /\ "toVerifying" \in InVerifying
    BY <1>6 DEF Deliver, At, InVerifying
  <2>2. Stage("toVerifying", pub[t]) /\ pub[t] # "none"
    BY <1>2, <2>1, StageIs
  <2>3. Stage("verify", pub[t])
    BY <2>2, Stages
  <2> QED BY <1>1, <1>6, <2>2, <2>3, DeliverGood
<1> QED BY <1>3, <1>4, <1>5, <1>6 DEF DeliverStage

\* The delivery ends as its Publication has.
LEMMA DeliverOutcomeGood ==
    ASSUME PublicationInv, NEW t \in Tasks, DeliverOutcome(t)
    PROVE  Good
<1>1. pass[t].pc = "toOutcome" /\ pass[t].call = "no" /\ UNCHANGED <<claim, pub, ack, pr, UnchangedBut>>
  BY DEF DeliverOutcome, At
<1>2. UNCHANGED <<claim, pub, ack, effect, reply>> /\ UNCHANGED <<expects, pr, attempts, cancelled, service, budget>>
  BY <1>1 DEF UnchangedBut, ledger
<1>3. Outside(t)
  BY <1>2, OutsideSame
<1>4. Stage("toOutcome", pub[t])
  BY <1>1, StageIs
<1>5. pub[t] \in TerminalPub /\ Stage("reclaim", pub[t])
  BY <1>4, Stages DEF Stage
<1>6. "reclaim" \in Passes /\ "reclaim" \notin Claimed \cup Judged
  BY DEF Passes, Claimed, Judged
<1>7. CASE delivery[t] # DeliveryFor(pub[t]) /\ <<delivery[t], DeliveryFor(pub[t])>> \in DeliveryTransitions
  <2>1. delivery' = [delivery EXCEPT ![t] = DeliveryFor(pub[t])] /\ Goes(t, "reclaim")
    BY <1>7 DEF DeliverOutcome
  <2>2. PICK r : Follows(t, r) /\ pass' = [pass EXCEPT ![t] = r]
    BY <1>1, <1>5, <1>6, <2>1, GoesFollows
  <2>3. DeliveryFor(pub[t]) \in TerminalDelivery /\ (DeliveryFor(pub[t]) \in Delivered => pub[t] = DeliveryFor(pub[t]))
    BY SMTT(60), <1>5 DEF DeliveryFor, TerminalPub, TerminalDelivery, Delivered
  <2>4. delivery[t] \in OpenDelivery
    BY <1>7 DEF DeliveryTransitions, OpenDelivery
  <2>5. delivery[t] \notin TerminalDelivery
    BY <2>4 DEF OpenDelivery, TerminalDelivery, Delivered
  <2>6. Tells(t, DeliveryFor(pub[t]))
    BY <2>3, <2>5 DEF Tells, DeliveryStates
  <2> QED BY <1>1, <2>1, <2>2, <2>6, DeliveryGoes
<1>8. CASE delivery[t] = DeliveryFor(pub[t])
  <2>1. delivery' = delivery /\ Goes(t, "reclaim")
    BY <1>8 DEF DeliverOutcome
  <2> QED BY <1>1, <1>2, <1>3, <1>5, <1>6, <2>1, GoesGood
<1>9. CASE delivery[t] # DeliveryFor(pub[t]) /\ <<delivery[t], DeliveryFor(pub[t])>> \notin DeliveryTransitions
  <2>1. delivery' = delivery /\ Fails(t)
    BY <1>9 DEF DeliverOutcome
  <2> QED BY <1>1, <1>2, <1>3, <2>1, PassFails
<1> QED BY <1>7, <1>8, <1>9

\* A failed live pass ends the delivery where the table allows it.
LEMMA TerminalizeGood ==
    ASSUME PublicationInv, NEW t \in Tasks, Terminalize(t)
    PROVE  Good
<1>1. pass' = [pass EXCEPT ![t] = Stopped(t)] /\ UNCHANGED <<claim, pub, ack, pr, UnchangedBut>>
  BY DEF Terminalize, Stops
<1>2. Follows(t, Stopped(t))
  BY StoppedFollows
<1>3. PICK to \in {"CredentialBlocked", "DeliveryConflict"} :
        delivery' = IF <<delivery[t], to>> \in DeliveryTransitions THEN [delivery EXCEPT ![t] = to] ELSE delivery
  BY DEF Terminalize
<1>4. CASE <<delivery[t], to>> \in DeliveryTransitions
  <2>1. delivery[t] \in OpenDelivery
    BY <1>4 DEF DeliveryTransitions, OpenDelivery
  <2>2. delivery[t] \notin TerminalDelivery
    BY <2>1 DEF OpenDelivery, TerminalDelivery, Delivered
  <2>3. to \in TerminalDelivery /\ to \notin Delivered
    BY DEF TerminalDelivery, Delivered
  <2>4. Tells(t, to)
    BY <2>2, <2>3 DEF Tells, DeliveryStates
  <2>5. delivery' = [delivery EXCEPT ![t] = to]
    BY <1>3, <1>4
  <2> QED BY <1>1, <1>2, <2>4, <2>5, DeliveryGoes
<1>5. CASE <<delivery[t], to>> \notin DeliveryTransitions
  <2>1. UNCHANGED <<claim, pub, ack, delivery, effect, reply>> /\ UNCHANGED <<expects, pr, attempts, cancelled, service, budget>>
    BY <1>1, <1>3, <1>5 DEF UnchangedBut, ledger
  <2>2. Outside(t)
    BY <2>1, OutsideSame
  <2> QED BY <1>1, <1>2, <2>1, <2>2, PassFollows
<1> QED BY <1>4, <1>5

\* A stopped pass is resumed where its Publication is, or its delivery ends.
LEMMA RecoverGood ==
    ASSUME PublicationInv, NEW t \in Tasks, Recover(t)
    PROVE  Good
<1>1. pass[t].pc = "stopped" /\ UNCHANGED <<claim, pub, ack, pr, UnchangedBut>>
  BY DEF Recover
<1>2. pass[t].call = "no"
  BY <1>1, NoCall DEF Kinds
<1>3. CASE delivery[t] = "Validating"
  <2>1. PICK p : p = pass[t]
    OBVIOUS
  <2>2. delivery' = [delivery EXCEPT ![t] = "DeliveryConflict"] /\ pass' = pass
    BY <1>3 DEF Recover
  <2>3. p \in PassRec /\ pass' = [pass EXCEPT ![t] = p] /\ Stage(p.pc, pub[t]) /\ (p.verdict \in Delivered => t \in landed)
    BY <2>1, <2>2, PassIs
  <2>4. p.pc = "stopped" /\ p.call = "no"
    BY <1>1, <1>2, <2>1
  <2>5. "stopped" \notin Claimed \cup Judged
    BY DEF Claimed, Judged
  <2>6. Follows(t, p)
    BY <2>3, <2>4, <2>5 DEF Follows
  <2>7. Tells(t, "DeliveryConflict")
    BY SMTT(60), <1>3 DEF Tells, DeliveryStates, TerminalDelivery, Delivered
  <2> QED BY <1>1, <2>2, <2>3, <2>6, <2>7, DeliveryGoes
<1>4. CASE delivery[t] # "Validating"
  <2>1. Goes(t, Resume(t)) /\ delivery' = delivery /\ delivery[t] \in OpenDelivery
    BY <1>4 DEF Recover
  <2>2. UNCHANGED <<claim, pub, ack, delivery, effect, reply>> /\ UNCHANGED <<expects, pr, attempts, cancelled, service, budget>>
    BY <1>1, <2>1 DEF UnchangedBut, ledger
  <2>3. Outside(t)
    BY <2>2, OutsideSame
  <2>4. pub[t] \in PubStates /\ pub[t] # "none"
    <3>1. delivery[t] \notin TerminalDelivery
      BY <2>1 DEF OpenDelivery, TerminalDelivery, Delivered
    <3>2. TaskInv(t) /\ pub[t] \in PubStates
      BY TaskIs
    <3> QED BY <1>4, <3>1, <3>2 DEF TaskInv, Told
  <2>5. /\ pub[t] = "Preparing" => Resume(t) = "toPreparing"
        /\ pub[t] = "Prepared" => Resume(t) = "toPrepared"
        /\ pub[t] = "Publishing" => Resume(t) = "toPublishing"
        /\ pub[t] = "Verifying" => Resume(t) = "toVerifying"
        /\ pub[t] \notin ActivePub => Resume(t) = "toOutcome"
    BY SMTT(60) DEF Resume, ActivePub
  <2>6. Stage(Resume(t), pub[t]) /\ Resume(t) \in Passes /\ Resume(t) \notin Claimed \cup Judged
    <3>1. pub[t] \in ActivePub \/ pub[t] \in TerminalPub
      BY <2>4 DEF PubStates
    <3>2. CASE pub[t] \in ActivePub
      BY <2>5, <3>2, Entry DEF ActivePub
    <3>3. CASE pub[t] \notin ActivePub
      BY <2>5, <3>1, <3>3, Entry
    <3> QED BY <3>2, <3>3
  <2> QED BY <1>2, <2>1, <2>2, <2>3, <2>6, GoesGood
<1> QED BY <1>3, <1>4

----------------------------------------------------------------------------
(* The publisher. *)

\* The publisher serves a request of t: the pass of t is at r, and its journal at j.
Served(t, r, j) ==
    /\ r \in PassRec /\ j \in JournalRec /\ pass' = [pass EXCEPT ![t] = r] /\ journal' = [journal EXCEPT ![t] = j]
    /\ UNCHANGED <<expects, claim, pub, ack, pr, delivery, effect, reply, attempts, cancelled, foreign>>
    /\ late' \subseteq late /\ faults' \in 0 .. MaxFaults
    /\ r.pc = pass[t].pc /\ r.verdict = pass[t].verdict /\ (r.call = pass[t].call \/ (pass[t].call = "sent" /\ r.call \in Answers))
    /\ (r.pc = "verify" => r.call \in {"no", "sent"} \cup Verdicts)
    /\ (r.call \in Delivered \/ j.verify \in Delivered => t \in landed')

\* What it does to the branch.
Pushes(t) ==
    /\ remote' \in Seq(Tasks \cup {"other"}) /\ IsAncestor(remote, remote') /\ BranchInv'
    /\ landed \subseteq landed' /\ landed' \subseteq landed \cup {t}

LEMMA ServiceMoves ==
    ASSUME PublicationInv, NEW t \in Tasks, NEW r, NEW j, Served(t, r, j), Pushes(t), t \in landed' => pub[t] \in Past
    PROVE  Good
<1>1. TypeOK /\ TaskInv(t)
  BY DEF PublicationInv
<1>2. pass' \in [Tasks -> PassRec] /\ pass'[t] = r /\ \A u \in Tasks : u # t => pass'[u] = pass[u]
  BY <1>1 DEF TypeOK, Served
<1>3. journal' \in [Tasks -> JournalRec] /\ journal'[t] = j /\ \A u \in Tasks : u # t => journal'[u] = journal[u]
  BY <1>1 DEF TypeOK, Served
<1>4. /\ UNCHANGED <<expects, claim, pub, ack, pr, delivery, effect, reply, attempts, cancelled, foreign>>
      /\ late' \subseteq late /\ faults' \in 0 .. MaxFaults /\ landed \subseteq landed' /\ landed' \subseteq landed \cup {t}
      /\ remote' \in Seq(Tasks \cup {"other"})
  BY DEF Served, Pushes
<1>5. landed' \subseteq Tasks /\ late' \subseteq Tasks \X {"publish", "verify"}
  BY <1>1, <1>4 DEF TypeOK
<1>6. TypeOK'
  BY <1>1, <1>2, <1>3, <1>4, <1>5 DEF TypeOK
<1>7. ASSUME NEW u \in Tasks, u # t PROVE TaskInv(u)'
  <2>1. TaskInv(u)
    BY DEF PublicationInv
  <2>2. pass'[u] = pass[u] /\ journal'[u] = journal[u] /\ (u \in landed' <=> u \in landed)
    BY <1>2, <1>3, <1>4, <1>7
  <2> QED BY <1>4, <2>1, <2>2 DEF TaskInv
<1>8. TaskInv(t)'
  <2>1. /\ r.pc = pass[t].pc /\ r.verdict = pass[t].verdict /\ (r.call = pass[t].call \/ (pass[t].call = "sent" /\ r.call \in Answers))
        /\ (r.pc = "verify" => r.call \in {"no", "sent"} \cup Verdicts)
        /\ (r.call \in Delivered \/ j.verify \in Delivered => t \in landed')
    BY DEF Served
  <2>2. Stage(r.pc, pub[t]) /\ Holds(t, r, pub[t], claim) /\ Told(pub[t], ack[t], delivery[t])
    BY <1>1, <2>1 DEF TaskInv, Holds
  <2>3. Calls(r, effect[t], reply[t])
    BY <1>1, <2>1 DEF TaskInv, Calls
  <2>4. Says(r, pub[t], reply[t]) \/ j.verify \in Delivered => t \in landed'
    BY <1>1, <1>4, <2>1 DEF TaskInv, Says
  <2>5. t \in landed' \/ <<t, "publish">> \in late' => pub[t] \in Past
    BY <1>1, <1>4 DEF TaskInv
  <2> QED BY <1>2, <1>3, <1>4, <2>2, <2>3, <2>4, <2>5 DEF TaskInv
<1>9. Stays
  BY <1>4 DEF Stays, Same
<1>10. BranchInv' /\ Forward
  BY DEF Pushes, Forward
<1> QED BY <1>6, <1>7, <1>8, <1>9, <1>10 DEF Good, PublicationInv

\* A request that does not move the branch.
LEMMA BranchSame ==
    ASSUME PublicationInv, NEW t \in Tasks, UNCHANGED <<expects, remote, landed, foreign>>
    PROVE  Pushes(t)
<1>1. remote \in Seq(Tasks \cup {"other"})
  BY DEF PublicationInv, TypeOK
<1>2. IsAncestor(remote, remote')
  BY <1>1, AncestorSelf
<1>3. BranchInv'
  BY DEF PublicationInv, BranchInv, Commit
<1> QED BY <1>1, <1>2, <1>3 DEF Pushes

\* A push makes the prepared commit the branch when the branch is the expected baseline, or leaves it.
LEMMA AnswersAre ==
    ASSUME NEW t \in Tasks, NEW a \in PublishAnswers(t) \cup UnknownAnswers(t), journal[t] \in JournalRec
    PROVE  /\ a.remote = remote \/ (remote = expects[t] /\ a.remote = Commit(t))
           /\ a.journal \in {"none", "ack", "unknown", "rejected"} /\ a.answer \in {"ack", "unknown", "rejected", "error"}
<1>1. journal[t].publish \in {"none", "ack", "unknown", "rejected"}
  BY DEF JournalRec
<1>2. PICK x, y, m : a = Answer(x, y, m) /\ (m = remote \/ (remote = expects[t] /\ m = Commit(t)))
                     /\ y \in {"none", "ack", "unknown", "rejected"} /\ x \in {"ack", "unknown", "rejected", "error"}
  BY SMTT(60), <1>1 DEF PublishAnswers, UnknownAnswers
<1>3. a.answer = x /\ a.journal = y /\ a.remote = m
  BY <1>2 DEF Answer
<1> QED BY <1>2, <1>3

\* A push fast-forwards the branch and puts the commit on it.
LEMMA PushFits ==
    ASSUME PublicationInv, NEW t \in Tasks, NEW a \in PublishAnswers(t) \cup UnknownAnswers(t), Push(t, a), UNCHANGED <<expects, foreign>>
    PROVE  Pushes(t)
<1>1. TypeOK /\ BranchInv
  BY DEF PublicationInv
<1>2. journal[t] \in JournalRec /\ remote \in Seq(Tasks \cup {"other"}) /\ t \in Tasks \cup {"other"}
  BY <1>1 DEF TypeOK
<1>3. a.remote = remote \/ (remote = expects[t] /\ a.remote = Commit(t))
  BY <1>2, AnswersAre
<1>4. remote' = a.remote /\ landed' = IF a.remote = Commit(t) THEN landed \cup {t} ELSE landed
  BY DEF Push
<1>5. landed \subseteq landed' /\ landed' \subseteq landed \cup {t}
  BY <1>4
<1>6. \A u : Commit(u)' = Commit(u)
  BY DEF Commit
<1>7. /\ \A u \in landed' : u \in landed \/ (u = t /\ remote' = Commit(t))
      /\ IsAncestor(remote, remote) /\ landed' \subseteq Tasks
  BY <1>1, <1>2, <1>4, AncestorSelf DEF TypeOK
<1>8. CASE a.remote = remote
  <2>1. remote' = remote
    BY <1>4, <1>8
  <2>2. foreign = 0 => \A u \in landed' : IsAncestor(Commit(u), remote)
    BY <1>1, <1>7, <2>1 DEF BranchInv
  <2>3. \A i \in 1 .. Len(remote) : remote[i] \in landed' \cup {"other"}
    BY <1>1, <1>5 DEF BranchInv
  <2>4. BranchInv'
    BY <1>6, <2>1, <2>2, <2>3 DEF BranchInv
  <2> QED BY <1>2, <1>5, <1>7, <2>1, <2>4 DEF Pushes
<1>9. CASE remote = expects[t] /\ a.remote = Commit(t)
  <2>1. remote' = Append(remote, t) /\ remote' = Commit(t) /\ t \in landed'
    BY <1>4, <1>9 DEF Commit
  <2>2. /\ remote' \in Seq(Tasks \cup {"other"}) /\ Len(remote') = Len(remote) + 1 /\ remote'[Len(remote) + 1] = t
        /\ \A i \in 1 .. Len(remote) : remote'[i] = remote[i]
        /\ IsAncestor(remote, remote') /\ IsAncestor(remote', remote')
    <3>1. PICK S, b : S = Tasks \cup {"other"} /\ b = remote'
      OBVIOUS
    <3>2. remote \in Seq(S) /\ t \in S /\ b = Append(remote, t)
      BY <1>2, <2>1, <3>1
    <3>3. Extends(S, remote, t, b)
      BY <3>2, Extended
    <3> QED BY <3>1, <3>3 DEF Extends
  <2>3. IsAncestor(remote, remote') /\ IsAncestor(remote', remote')
    BY <2>2
  <2>4. ASSUME NEW i \in 1 .. Len(remote') PROVE remote'[i] \in landed' \cup {"other"}
    <3>1. Len(remote) \in Nat
      BY SMTT(60), <1>2
    <3>2. i \in 1 .. Len(remote) \/ i = Len(remote) + 1
      BY SMTT(60), <2>2, <3>1
    <3> QED BY <1>1, <1>5, <2>1, <2>2, <3>2 DEF BranchInv
  <2>5. ASSUME foreign = 0, NEW u \in landed' PROVE IsAncestor(Commit(u), remote')
    <3>1. CASE u = t
      BY <2>1, <2>3, <3>1
    <3>2. CASE u \in landed
      <4>1. IsAncestor(Commit(u), remote) /\ Commit(u) \in Seq(Tasks \cup {"other"})
        BY <1>1, <1>7, <2>5, <3>2, CommitIs DEF BranchInv
      <4> QED BY <1>2, <2>1, <4>1, AncestorAppend
    <3> QED BY <1>7, <3>1, <3>2
  <2>6. BranchInv'
    BY <1>6, <2>4, <2>5 DEF BranchInv
  <2> QED BY <1>5, <2>2, <2>3, <2>6 DEF Pushes
<1> QED BY <1>3, <1>8, <1>9

\* What is seen delivered was pushed.
LEMMA ObservedIsReal ==
    ASSUME PublicationInv, NEW t \in Tasks
    PROVE  VerifyAnswer(t) \in Verdicts /\ (VerifyAnswer(t) \in Delivered => t \in landed)
<1>1. journal[t] \in JournalRec /\ TaskInv(t) /\ BranchInv /\ remote \in Seq(Tasks \cup {"other"}) /\ TypeOK
  BY DEF PublicationInv, TypeOK
<1>2. CASE journal[t].verify # "none"
  <2>1. VerifyAnswer(t) = journal[t].verify
    BY <1>2 DEF VerifyAnswer
  <2>2. journal[t].verify \in Verdicts
    BY <1>1, <1>2 DEF JournalRec
  <2> QED BY <1>1, <2>1, <2>2 DEF TaskInv
<1>3. CASE journal[t].verify = "none"
  <2>1. VerifyAnswer(t) = Observed(t)
    BY <1>3 DEF VerifyAnswer
  <2>2. Observed(t) \in Verdicts
    BY DEF Observed, Verdicts, Delivered
  <2>3. ASSUME Observed(t) \in Delivered PROVE t \in landed
    <3>1. Commit(t) = remote \/ IsAncestor(Commit(t), remote)
      BY <2>3 DEF Observed, Delivered
    <3>2. expects[t] \in Seq(Tasks \cup {"other"}) /\ Commit(t) \in Seq(Tasks \cup {"other"}) /\ Commit(t) = Append(expects[t], t)
      BY <1>1, CommitIs
    <3>3. IsAncestor(Append(expects[t], t), remote)
      BY <3>1, <3>2, AncestorSelf
    <3>4. \E i \in 1 .. Len(remote) : remote[i] = t
      <4>1. PICK S : S = Tasks \cup {"other"}
        OBVIOUS
      <4>2. expects[t] \in Seq(S) /\ remote \in Seq(S) /\ t \in S
        BY <1>1, <3>2, <4>1
      <4> QED BY SMTT(60), <3>3, <4>2, AncestorLast
    <3>5. t # "other"
      BY PublicationAssumption
    <3> QED BY <1>1, <3>4, <3>5 DEF BranchInv
  <2> QED BY <2>1, <2>2, <2>3
<1> QED BY <1>2, <1>3

\* The journal and the pass after a request of t.
LEMMA JournalIs ==
    ASSUME PublicationInv, NEW t \in Tasks
    PROVE  /\ \A x \in {"none", "ack", "unknown", "rejected"} :
                [journal[t] EXCEPT !.publish = x] \in JournalRec /\ [journal[t] EXCEPT !.publish = x].verify = journal[t].verify
           /\ \A x \in Verdicts : [journal[t] EXCEPT !.verify = x] \in JournalRec /\ [journal[t] EXCEPT !.verify = x].verify = x
           /\ \A x \in Answers : LET r == [pass[t] EXCEPT !.call = x] IN
                r \in PassRec /\ r.pc = pass[t].pc /\ r.verdict = pass[t].verdict /\ r.call = x
           /\ journal[t].verify \in Delivered => t \in landed
<1>1. PICK p, j : p = pass[t] /\ j = journal[t]
  OBVIOUS
<1>2. p \in PassRec /\ j \in JournalRec /\ TaskInv(t)
  BY <1>1 DEF PublicationInv, TypeOK
<1>3. \A x \in {"none", "ack", "unknown", "rejected"} : [j EXCEPT !.publish = x] \in JournalRec /\ [j EXCEPT !.publish = x].verify = j.verify
  BY <1>2 DEF JournalRec
<1>4. \A x \in Verdicts : [j EXCEPT !.verify = x] \in JournalRec /\ [j EXCEPT !.verify = x].verify = x
  BY <1>2 DEF JournalRec
<1>5. \A x \in Answers : LET r == [p EXCEPT !.call = x] IN r \in PassRec /\ r.pc = p.pc /\ r.verdict = p.verdict /\ r.call = x
  BY <1>2 DEF PassRec
<1>6. journal[t].verify \in Delivered => t \in landed
  BY <1>2 DEF TaskInv
<1> QED BY <1>1, <1>3, <1>4, <1>5, <1>6

\* A request to publish is served.
LEMMA ServePublishGood ==
    ASSUME PublicationInv, NEW t \in Tasks, ServePublish(t)
    PROVE  Good
<1>1. PICK a \in PublishAnswers(t) \cup UnknownAnswers(t) : Push(t, a) /\ Gets(t, a.answer) /\ (UNCHANGED budget \/ Fault)
  BY DEF ServePublish
<1>2. /\ pass[t].call = "sent" /\ pass[t].pc = "publish"
      /\ UNCHANGED <<expects, claim, pub, ack, pr, delivery, effect, reply, attempts, cancelled, late>>
  BY DEF ServePublish, ledger
<1>3. TypeOK /\ journal[t] \in JournalRec
  BY DEF PublicationInv, TypeOK
<1>4. foreign' = foreign /\ faults' \in 0 .. MaxFaults
  <2>1. CASE UNCHANGED budget
    BY <1>3, <2>1 DEF budget, TypeOK
  <2>2. CASE Fault
    BY SMTT(60), <1>3, <2>2, PublicationAssumption DEF Fault, TypeOK
  <2> QED BY <1>1, <2>1, <2>2
<1>5. a.journal \in {"none", "ack", "unknown", "rejected"} /\ a.answer \in {"ack", "unknown", "rejected", "error"}
  BY <1>3, AnswersAre
<1>6. PICK x, y : x = a.answer /\ y = a.journal
  OBVIOUS
<1>7. x \in Answers /\ x \notin Delivered
  BY <1>5, <1>6 DEF Answers, Delivered
<1> DEFINE r == [pass[t] EXCEPT !.call = x]
           j == [journal[t] EXCEPT !.publish = y]
<1>8. /\ r \in PassRec /\ r.pc = pass[t].pc /\ r.verdict = pass[t].verdict /\ r.call = x
      /\ j \in JournalRec /\ j.verify = journal[t].verify /\ (journal[t].verify \in Delivered => t \in landed)
  BY <1>5, <1>6, <1>7, JournalIs
<1>9. pass' = [pass EXCEPT ![t] = r] /\ journal' = [journal EXCEPT ![t] = j]
  BY <1>1, <1>6 DEF Gets, Push
<1> HIDE DEF r, j
<1>10. Pushes(t)
  BY <1>1, <1>2, <1>4, PushFits
<1>11. landed \subseteq landed'
  BY <1>10 DEF Pushes
<1>12. r.pc # "verify"
  BY <1>2, <1>8
<1>13. Served(t, r, j)
  BY <1>2, <1>4, <1>7, <1>8, <1>9, <1>11, <1>12 DEF Served
<1>14. pub[t] \in Past
  <2>1. "publish" \in InPublishing
    BY DEF InPublishing
  <2>2. pub[t] = "Publishing"
    BY <1>2, <2>1, StateAt
  <2> QED BY <2>2 DEF Past
<1> QED BY <1>10, <1>13, <1>14, ServiceMoves

\* A request to verify is served.
LEMMA ServeVerifyGood ==
    ASSUME PublicationInv, NEW t \in Tasks, ServeVerify(t)
    PROVE  Good
<1>1. PICK x \in Verdicts : Look(t, x) /\ Gets(t, x) /\ (UNCHANGED budget \/ Fault) /\ (x \in Delivered => t \in landed)
  <2>1. "OutcomeUnknown" \in Verdicts /\ "OutcomeUnknown" \notin Delivered
    BY DEF Verdicts, Delivered
  <2>2. VerifyAnswer(t) \in Verdicts /\ (VerifyAnswer(t) \in Delivered => t \in landed)
    BY ObservedIsReal
  <2> QED BY <2>1, <2>2 DEF ServeVerify
<1>2. /\ pass[t].call = "sent" /\ pass[t].pc = "verify"
      /\ UNCHANGED <<expects, claim, pub, ack, pr, delivery, effect, reply, attempts, cancelled, late>>
  BY DEF ServeVerify, ledger
<1>3. TypeOK
  BY DEF PublicationInv
<1>4. foreign' = foreign /\ faults' \in 0 .. MaxFaults
  <2>1. CASE UNCHANGED budget
    BY <1>3, <2>1 DEF budget, TypeOK
  <2>2. CASE Fault
    BY SMTT(60), <1>3, <2>2, PublicationAssumption DEF Fault, TypeOK
  <2> QED BY <1>1, <2>1, <2>2
<1>5. x \in Answers
  BY DEF Answers
<1> DEFINE r == [pass[t] EXCEPT !.call = x]
           j == [journal[t] EXCEPT !.verify = x]
<1>6. r \in PassRec /\ r.pc = pass[t].pc /\ r.verdict = pass[t].verdict /\ r.call = x /\ j \in JournalRec /\ j.verify = x
  BY <1>5, JournalIs
<1>7. pass' = [pass EXCEPT ![t] = r] /\ journal' = [journal EXCEPT ![t] = j] /\ UNCHANGED <<remote, landed>>
  BY <1>1 DEF Gets, Look
<1> HIDE DEF r, j
<1>8. Pushes(t)
  BY <1>2, <1>4, <1>7, BranchSame
<1>9. Served(t, r, j)
  BY <1>1, <1>2, <1>4, <1>5, <1>6, <1>7 DEF Served
<1>10. t \in landed' => pub[t] \in Past
  BY <1>7, TaskIs DEF TaskInv
<1> QED BY <1>8, <1>9, <1>10, ServiceMoves

\* A request whose caller is gone is served, or not.
LEMMA ServeLateGood ==
    ASSUME PublicationInv, NEW t \in Tasks, NEW k \in {"publish", "verify"}, ServeLate(t, k)
    PROVE  Good
<1>1. PICK r : r = pass[t]
  OBVIOUS
<1>2. r \in PassRec /\ pass = [pass EXCEPT ![t] = r] /\ (r.pc = "verify" => r.call \in {"no", "sent"} \cup Verdicts)
      /\ (r.call \in Delivered => t \in landed)
  BY <1>1, PassIs
<1>3. /\ UNCHANGED <<expects, claim, pub, ack, pr, delivery, effect, reply, attempts, cancelled, foreign, faults>>
      /\ <<t, k>> \in late /\ late' \subseteq late /\ pass' = pass
  BY DEF ServeLate, ledger, budget
<1>4. TypeOK /\ TaskInv(t) /\ journal[t] \in JournalRec /\ faults \in 0 .. MaxFaults /\ journal = [journal EXCEPT ![t] = journal[t]]
  BY DEF PublicationInv, TypeOK
<1>5. journal[t].verify \in Delivered => t \in landed
  BY <1>4 DEF TaskInv
<1>6. CASE k = "publish" /\ \E a \in PublishAnswers(t) : Push(t, a)
  <2>1. PICK a \in PublishAnswers(t) \cup UnknownAnswers(t) : Push(t, a)
    BY <1>6
  <2>2. a.journal \in {"none", "ack", "unknown", "rejected"}
    BY <1>4, AnswersAre
  <2>3. PICK y : y = a.journal
    OBVIOUS
  <2> DEFINE j == [journal[t] EXCEPT !.publish = y]
  <2>4. j \in JournalRec /\ j.verify = journal[t].verify
    BY <2>2, <2>3, JournalIs
  <2>5. journal' = [journal EXCEPT ![t] = j]
    BY <2>1, <2>3 DEF Push
  <2> HIDE DEF j
  <2>6. Pushes(t)
    BY <1>3, <2>1, PushFits
  <2>7. landed \subseteq landed'
    BY <2>6 DEF Pushes
  <2>8. Served(t, r, j)
    BY <1>1, <1>2, <1>3, <1>4, <1>5, <2>4, <2>5, <2>7 DEF Served
  <2>9. pub[t] \in Past
    BY <1>3, <1>4, <1>6 DEF TaskInv
  <2> QED BY <2>6, <2>8, <2>9, ServiceMoves
<1>7. CASE Look(t, VerifyAnswer(t))
  <2>1. PICK x : x = VerifyAnswer(t) /\ x \in Verdicts /\ (x \in Delivered => t \in landed)
    BY ObservedIsReal
  <2> DEFINE j == [journal[t] EXCEPT !.verify = x]
  <2>2. j \in JournalRec /\ j.verify = x
    BY <2>1, JournalIs
  <2>3. journal' = [journal EXCEPT ![t] = j] /\ UNCHANGED <<remote, landed>>
    BY <1>7, <2>1 DEF Look
  <2> HIDE DEF j
  <2>4. Pushes(t)
    BY <1>3, <2>3, BranchSame
  <2>5. Served(t, r, j)
    BY <1>1, <1>2, <1>3, <1>4, <2>1, <2>2, <2>3 DEF Served
  <2>6. t \in landed' => pub[t] \in Past
    BY <1>4, <2>3 DEF TaskInv
  <2> QED BY <2>4, <2>5, <2>6, ServiceMoves
<1>8. CASE UNCHANGED <<journal, remote, landed>>
  <2>1. Pushes(t)
    BY <1>3, <1>8, BranchSame
  <2>2. PICK j : j = journal[t]
    OBVIOUS
  <2>3. Served(t, r, j)
    BY <1>1, <1>2, <1>3, <1>4, <1>5, <1>8, <2>2 DEF Served
  <2>4. t \in landed' => pub[t] \in Past
    BY <1>4, <1>8 DEF TaskInv
  <2> QED BY <2>1, <2>3, <2>4, ServiceMoves
<1> QED BY <1>6, <1>7, <1>8 DEF ServeLate

\* A move of the branch by others.
LEMMA ForeignMoveGood ==
    ASSUME PublicationInv, ForeignMove
    PROVE  Good
<1>1. TypeOK /\ BranchInv
  BY DEF PublicationInv
<1>2. /\ UNCHANGED <<expects, claim, pub, ack, pr, delivery, effect, reply, attempts, pass, cancelled, late, journal, landed, faults>>
      /\ foreign' = foreign + 1 /\ foreign < MaxForeign /\ remote' \in {Append(remote, "other"), <<"other">>, <<>>}
  BY DEF ForeignMove, ledger
<1>3. foreign' \in 0 .. MaxForeign /\ foreign' # foreign /\ foreign' # 0
  BY SMTT(60), <1>1, <1>2, PublicationAssumption DEF TypeOK
<1>4. remote' \in Seq(Tasks \cup {"other"}) /\ \A i \in 1 .. Len(remote') : remote'[i] \in landed \cup {"other"}
  <2>1. PICK S, b : S = Tasks \cup {"other"} /\ b = remote'
    OBVIOUS
  <2>2. remote \in Seq(S) /\ "other" \in S /\ b \in {Append(remote, "other"), <<"other">>, <<>>}
    BY <1>1, <1>2, <2>1 DEF TypeOK
  <2>3. CASE b = Append(remote, "other")
    <3>1. Extends(S, remote, "other", b)
      BY <2>2, <2>3, Extended
    <3>2. b \in Seq(S) /\ Len(b) = Len(remote) + 1 /\ b[Len(remote) + 1] = "other" /\ (\A i \in 1 .. Len(remote) : b[i] = remote[i])
      BY <3>1 DEF Extends
    <3>3. ASSUME NEW i \in 1 .. Len(b) PROVE i \in 1 .. Len(remote) \/ i = Len(remote) + 1
      <4>1. Len(remote) \in Nat
        BY SMTT(60), <2>2
      <4> QED BY SMTT(60), <3>2, <4>1
    <3>4. ASSUME NEW i \in 1 .. Len(b) PROVE b[i] \in landed \cup {"other"}
      BY <1>1, <3>2, <3>3 DEF BranchInv
    <3> QED BY <2>1, <3>2, <3>4
  <2>4. CASE b = <<"other">>
    BY SMTT(60), <2>1, <2>2, <2>4
  <2>5. CASE b = <<>>
    BY SMTT(60), <2>1, <2>2, <2>5
  <2> QED BY <2>2, <2>3, <2>4, <2>5
<1>5. TypeOK'
  BY <1>1, <1>2, <1>3, <1>4 DEF TypeOK
<1>6. ASSUME NEW u \in Tasks PROVE TaskInv(u)'
  <2>1. TaskInv(u)
    BY DEF PublicationInv
  <2> QED BY <1>2, <2>1 DEF TaskInv
<1>7. BranchInv'
  BY <1>2, <1>3, <1>4 DEF BranchInv
<1>8. Stays /\ Forward
  BY <1>2, <1>3 DEF Stays, Same, Forward
<1> QED BY <1>5, <1>6, <1>7, <1>8 DEF Good, PublicationInv

----------------------------------------------------------------------------
(* Crashes. *)

\* The controller stops: every pass ends, and the publisher may still serve its requests.
LEMMA CrashGood ==
    ASSUME PublicationInv, Crash
    PROVE  Good
<1>1. TypeOK /\ BranchInv
  BY DEF PublicationInv
<1>2. /\ UNCHANGED <<expects, claim, pub, ack, pr, delivery, effect, reply, attempts, cancelled, journal, remote, landed, foreign>>
      /\ late' = late \cup UNION {Orphans(t) : t \in Tasks} /\ Fault
      /\ pass' = [t \in Tasks |-> IF pass[t].pc = "idle" THEN Idle ELSE Stopped(t)]
  BY DEF Crash, ledger, Fault
<1>3. faults' \in 0 .. MaxFaults
  BY SMTT(60), <1>1, <1>2, PublicationAssumption DEF Fault, TypeOK
<1>4. ASSUME NEW u \in Tasks
      PROVE  /\ pass'[u] \in PassRec /\ pass'[u].call = "no" /\ pass'[u].verdict = "none"
             /\ pass'[u].pc = "stopped" \/ (pass'[u].pc = "idle" /\ pass[u].pc = "idle")
  <2>1. Idle \in PassRec /\ Idle.call = "no" /\ Idle.verdict = "none" /\ Idle.pc = "idle"
    BY DEF Idle, PassRec, Passes
  <2>2. Stopped(u) \in PassRec /\ Stopped(u).pc = "stopped" /\ Stopped(u).call = "no" /\ Stopped(u).verdict = "none"
    BY DEF Stopped, Idle, PassRec, Passes
  <2>3. pass'[u] = IF pass[u].pc = "idle" THEN Idle ELSE Stopped(u)
    BY <1>2
  <2> QED BY <2>1, <2>2, <2>3
<1>5. ASSUME NEW x \in late' PROVE x \in late \/ \E u \in Tasks : pass[u].pc \in {"publish", "verify"} /\ x = <<u, pass[u].pc>>
  BY <1>2, <1>5 DEF Orphans
<1>6. late' \subseteq Tasks \X {"publish", "verify"}
  <2>1. late \subseteq Tasks \X {"publish", "verify"}
    BY <1>1 DEF TypeOK
  <2>2. \A u \in Tasks, q \in {"publish", "verify"} : <<u, q>> \in Tasks \X {"publish", "verify"}
    OBVIOUS
  <2>3. ASSUME NEW x \in late' PROVE x \in Tasks \X {"publish", "verify"}
    <3>1. CASE x \in late
      BY <2>1, <3>1
    <3>2. CASE x \notin late
      <4>1. PICK u \in Tasks : pass[u].pc \in {"publish", "verify"} /\ x = <<u, pass[u].pc>>
        BY <1>5, <3>2
      <4> QED BY <2>2, <4>1
    <3> QED BY <3>1, <3>2
  <2> QED BY <2>3
<1>7. pass' \in [Tasks -> PassRec]
  BY <1>2, <1>4
<1>8. TypeOK'
  BY <1>1, <1>2, <1>3, <1>6, <1>7 DEF TypeOK
<1>9. ASSUME NEW u \in Tasks PROVE TaskInv(u)'
  <2>1. TaskInv(u)
    BY DEF PublicationInv
  <2>2. PICK r : r = pass'[u]
    OBVIOUS
  <2>3. r.call = "no" /\ r.verdict = "none" /\ (r.pc = "stopped" \/ (r.pc = "idle" /\ pass[u].pc = "idle"))
    BY <1>4, <2>2
  <2>4. Stage(r.pc, pub[u])
    BY <2>1, <2>3, Stages DEF TaskInv
  <2>5. r.pc \notin Claimed /\ r.pc \notin Judged /\ r.pc # "verify" /\ r.call \notin Delivered /\ r.verdict \notin Delivered
    BY <2>3 DEF Claimed, Judged, Delivered
  <2>6. Calls(r, effect[u], reply[u]) /\ Holds(u, r, pub[u], claim) /\ Told(pub[u], ack[u], delivery[u])
    BY <2>1, <2>3, <2>5 DEF TaskInv, Calls, Holds
  <2>7. Says(r, pub[u], reply[u]) \/ journal[u].verify \in Delivered => u \in landed
    BY <2>1, <2>5 DEF TaskInv, Says
  <2>8. u \in landed \/ <<u, "publish">> \in late' => pub[u] \in Past
    <3>1. ASSUME <<u, "publish">> \in late' PROVE <<u, "publish">> \in late \/ pass[u].pc = "publish"
      BY <1>5, <3>1
    <3>2. pass[u].pc = "publish" => pub[u] \in Past
      BY <2>1 DEF TaskInv, Stage, InPublishing, Past
    <3> QED BY <2>1, <3>1, <3>2 DEF TaskInv
  <2> QED BY <1>2, <2>2, <2>4, <2>6, <2>7, <2>8 DEF TaskInv
<1>10. BranchInv'
  BY <1>1, <1>2 DEF BranchInv, Commit
<1>11. Stays /\ Forward
  BY <1>1, <1>2, AncestorSelf DEF Stays, Same, Forward, TypeOK
<1> QED BY <1>8, <1>9, <1>10, <1>11 DEF Good, PublicationInv

\* A step that changes nothing.
LEMMA StutterGood ==
    ASSUME PublicationInv, UNCHANGED vars
    PROVE  Good
<1>1. /\ UNCHANGED <<expects, claim, pub, ack, pr, delivery, effect, reply, attempts, pass, cancelled, late, journal, remote>>
      /\ UNCHANGED <<landed, faults, foreign>>
  BY DEF vars, ledger, service, budget
<1>2. TypeOK /\ BranchInv
  BY DEF PublicationInv
<1>3. TypeOK'
  BY <1>1, <1>2 DEF TypeOK
<1>4. ASSUME NEW u \in Tasks PROVE TaskInv(u)'
  <2>1. TaskInv(u)
    BY DEF PublicationInv
  <2> QED BY <1>1, <2>1 DEF TaskInv
<1>5. BranchInv'
  BY <1>1, <1>2 DEF BranchInv, Commit
<1>6. Stays /\ Forward
  BY <1>1, <1>2, AncestorSelf DEF Stays, Same, Forward, TypeOK
<1> QED BY <1>3, <1>4, <1>5, <1>6 DEF Good, PublicationInv

----------------------------------------------------------------------------
(* The invariant. *)

\* At the start nothing is claimed, recorded, requested or pushed.
LEMMA InitInv ==
    ASSUME Init
    PROVE  PublicationInv
<1>1. /\ claim = "none" /\ pub = [t \in Tasks |-> "none"] /\ ack = [t \in Tasks |-> "none"] /\ pr = [t \in Tasks |-> "none"]
      /\ delivery \in [Tasks -> {"Validating", "NoChange"}]
      /\ effect = [t \in Tasks |-> [k \in Kinds |-> "none"]] /\ reply = [t \in Tasks |-> [k \in Kinds |-> "none"]]
      /\ attempts = [t \in Tasks |-> 0] /\ pass = [t \in Tasks |-> Idle]
      /\ cancelled = {} /\ late = {} /\ remote = <<>> /\ landed = {}
      /\ journal = [t \in Tasks |-> [publish |-> "none", verify |-> "none"]] /\ faults = 0 /\ foreign = 0
      /\ expects \in [Tasks -> Baselines]
  BY DEF Init
<1>2. Idle \in PassRec /\ Idle.call = "no" /\ Idle.verdict = "none" /\ Idle.pc = "idle"
  BY DEF Idle, PassRec, Passes
<1>3. [k \in Kinds |-> "none"] \in EffectRec /\ [k \in Kinds |-> "none"] \in ReplyRec
  BY DEF EffectRec, ReplyRec
<1>4. PICK j : j = [publish |-> "none", verify |-> "none"]
  OBVIOUS
<1>5. j \in JournalRec /\ j.verify = "none"
  BY <1>4 DEF JournalRec
<1>6. TypeOK
  <2>1. pub \in [Tasks -> PubStates] /\ delivery \in [Tasks -> DeliveryStates]
    BY <1>1 DEF PubStates, DeliveryStates, OpenDelivery, TerminalDelivery
  <2>2. effect \in [Tasks -> EffectRec] /\ reply \in [Tasks -> ReplyRec] /\ pass \in [Tasks -> PassRec] /\ journal \in [Tasks -> JournalRec]
    BY <1>1, <1>2, <1>3, <1>4, <1>5
  <2>3. 0 \in 0 .. MaxAttempts /\ 0 \in 0 .. MaxFaults /\ 0 \in 0 .. MaxForeign
    BY SMTT(60), PublicationAssumption
  <2>4. attempts \in [Tasks -> 0 .. MaxAttempts] /\ faults \in 0 .. MaxFaults /\ foreign \in 0 .. MaxForeign
    BY <1>1, <2>3
  <2>5. remote \in Seq(Tasks \cup {"other"})
    BY SMTT(60), <1>1
  <2>6. ack \in [Tasks -> {"none", "known", "unknown"}] /\ pr \in [Tasks -> {"none", "intent", "receipt"}]
    BY <1>1
  <2> QED BY <1>1, <2>1, <2>2, <2>4, <2>5, <2>6 DEF TypeOK
<1>7. ASSUME NEW t \in Tasks PROVE TaskInv(t)
  <2>1. /\ pass[t] = Idle /\ pub[t] = "none" /\ ack[t] = "none" /\ delivery[t] \in {"Validating", "NoChange"} /\ journal[t].verify = "none"
        /\ effect[t] = [k \in Kinds |-> "none"] /\ reply[t] = [k \in Kinds |-> "none"] /\ t \notin landed /\ <<t, "publish">> \notin late
    BY <1>1, <1>4, <1>5
  <2>2. Stage("idle", "none")
    BY DEF Stage, InPreparing, InPrepared, InPublishing, InVerifying, Judged
  <2>3. "idle" \notin Judged /\ "idle" \notin Claimed /\ "idle" # "verify" /\ "verify" \in Kinds
    BY DEF Judged, Claimed, Kinds
  <2>4. Calls(Idle, effect[t], reply[t])
    BY <1>2, <2>1, <2>3 DEF Calls
  <2>5. Holds(t, Idle, "none", claim) /\ Told("none", "none", delivery[t])
    <3>1. "none" \notin ActivePub /\ "none" \notin Delivered /\ delivery[t] \notin Delivered
      BY <2>1 DEF ActivePub, Delivered
    <3>2. Holds(t, Idle, "none", claim)
      BY <1>2, <2>3, <3>1 DEF Holds
    <3>3. delivery[t] = "Validating" \/ delivery[t] \in TerminalDelivery
      BY <2>1 DEF TerminalDelivery
    <3> QED BY <3>1, <3>2, <3>3 DEF Told
  <2>6. "none" \notin Delivered /\ "no" \notin Delivered /\ \A k \in Kinds : reply[t][k] = "none"
    BY <2>1 DEF Delivered
  <2>7. ~Says(Idle, "none", reply[t])
    BY <1>2, <2>6 DEF Says
  <2> QED BY <1>2, <2>1, <2>2, <2>4, <2>5, <2>6, <2>7 DEF TaskInv
<1>8. BranchInv
  BY SMTT(60), <1>1 DEF BranchInv
<1> QED BY <1>6, <1>7, <1>8 DEF PublicationInv

\* Every step is good: it preserves the invariant, what is settled, and the commits on the branch.
LEMMA NextGood ==
    ASSUME PublicationInv, [Next]_vars
    PROVE  Good
<1>1. ASSUME NEW t \in Tasks, Steps(t) PROVE Good
  <2>1. ASSUME Effects(t) PROVE Good
    <3>1. PICK k \in Kinds : Reserve(t, k) \/ ClaimEffect(t, k) \/ Replay(t, k) \/ Return(t, k)
      BY <2>1 DEF Effects
    <3> QED BY <3>1, ReserveGood, ClaimEffectGood, ReplayGood, ReturnGood
  <2>2. ASSUME Start(t) \/ EnsureClaim(t) \/ Cleanup(t) \/ EnsurePublication(t) \/ DeliverStage(t) PROVE Good
    BY <2>2, StartGood, EnsureClaimGood, CleanupGood, EnsurePublicationGood, DeliverStageGood
  <2>3. ASSUME SetPrepared(t) \/ SetFailed(t) \/ Decide(t) \/ CancelPrepared(t) \/ SetPublishing(t) \/ SetVerifying(t) PROVE Good
    BY <2>3, SetPreparedGood, SetFailedGood, DecideGood, CancelPreparedGood, SetPublishingGood, SetVerifyingGood
  <2>4. ASSUME SettleError(t) \/ SettleVerify(t) \/ SettlePublish(t) \/ SettlePr(t) PROVE Good
    BY <2>4, SettleErrorGood, SettleVerifyGood, SettlePublishGood, SettlePrGood
  <2>5. ASSUME SetPRIntent(t) \/ SetPRReceipt(t) \/ SetOutcome(t) \/ DeliverOutcome(t) \/ ReclaimClaim(t) PROVE Good
    BY <2>5, SetPRIntentGood, SetPRReceiptGood, SetOutcomeGood, DeliverOutcomeGood, ReclaimClaimGood
  <2>6. ASSUME Terminalize(t) \/ Recover(t) PROVE Good
    BY <2>6, TerminalizeGood, RecoverGood
  <2> QED BY <1>1, <2>1, <2>2, <2>3, <2>4, <2>5, <2>6 DEF Steps
<1>2. ASSUME NEW t \in Tasks, Serves(t) PROVE Good
  BY <1>2, ServeOtherGood, ServePublishGood, ServeVerifyGood DEF Serves
<1>3. ASSUME NEW t \in Tasks, Time(t) PROVE Good
  BY <1>3, TimeGood
<1>4. ASSUME NEW t \in Tasks, Faults(t) PROVE Good
  <2>1. ASSUME NEW k \in Kinds, CallLost(t, k) PROVE Good
    BY <2>1, CallLostGood
  <2> QED BY <1>4, <2>1, PrepareRefusedGood, CreateFailsGood, StoreErrorGood DEF Faults
<1>5. ASSUME NEW t \in Tasks, Cancel(t) \/ WatchCancel(t) PROVE Good
  BY <1>5, CancelGood, WatchCancelGood
<1>6. ASSUME NEW t \in Tasks, NEW k \in {"publish", "verify"}, ServeLate(t, k) PROVE Good
  BY <1>6, ServeLateGood
<1>7. ASSUME Crash \/ ForeignMove \/ UNCHANGED vars PROVE Good
  BY <1>7, CrashGood, ForeignMoveGood, StutterGood
<1> QED BY <1>1, <1>2, <1>3, <1>4, <1>5, <1>6, <1>7 DEF Next

\* The inductive invariant holds: a pass is at a step its Publication is ready for, calls are
\* made under effects in flight, the claim stays, and what is said to be delivered was pushed.
THEOREM PublicationInvariant == Spec => []PublicationInv
<1>1. Init => PublicationInv
  BY InitInv
<1>2. PublicationInv /\ [Next]_vars => PublicationInv'
  BY NextGood DEF Good
<1> QED BY <1>1, <1>2, PTL DEF Spec

\* The store, the ledger, the publisher and the passes record only the states they know.
THEOREM PublicationTypes == Spec => []TypeOK
<1>1. PublicationInv => TypeOK
  BY DEF PublicationInv
<1> QED BY <1>1, PublicationInvariant, PTL

\* A Publication that was cancelled, or failed, before publishing never has its commit pushed
\* (cancelPreparedPublication against the Publishing transition, late requests included).
THEOREM PublicationCancelledNeverPushed == Spec => []CancelledNeverPushed
<1>1. PublicationInv => CancelledNeverPushed
  <2> SUFFICES ASSUME PublicationInv, NEW t \in landed PROVE pub[t] \in Past
    BY DEF CancelledNeverPushed, Past
  <2>2. t \in Tasks
    BY DEF PublicationInv, TypeOK
  <2>3. TaskInv(t)
    BY <2>2, TaskIs
  <2> QED BY <2>3 DEF TaskInv
<1> QED BY <1>1, PublicationInvariant, PTL

\* A delivery that is told to the Task is real: its commit was pushed, its Publication says the
\* same, and the commit is on the branch unless others moved it (Publisher.verifyOnce).
THEOREM PublicationDeliveredIsReal == Spec => []DeliveredIsReal
<1>1. PublicationInv => DeliveredIsReal
  <2> SUFFICES ASSUME PublicationInv, NEW t \in Tasks, delivery[t] \in Delivered
               PROVE  t \in landed /\ pub[t] = delivery[t] /\ (foreign = 0 => IsAncestor(Commit(t), remote))
    BY DEF DeliveredIsReal
  <2>2. TaskInv(t) /\ BranchInv
    BY DEF PublicationInv
  <2>3. pub[t] = delivery[t]
    BY <2>2 DEF TaskInv, Told
  <2>4. t \in landed
    BY <2>2, <2>3 DEF TaskInv, Says
  <2> QED BY <2>2, <2>3, <2>4 DEF BranchInv
<1> QED BY <1>1, PublicationInvariant, PTL

\* A Publication that is under way, or whose outcome is unknown, keeps the claim of the branch
\* (reclaimStandaloneTaskBranchClaim, withUnpublishedBranchClaimCleanup).
THEOREM PublicationClaimBarrier == Spec => []ClaimBarrier
<1>1. PublicationInv => ClaimBarrier
  <2> SUFFICES ASSUME PublicationInv, NEW t \in Tasks, pub[t] \in ActivePub \cup {"OutcomeUnknown"} PROVE claim = t
    BY DEF ClaimBarrier
  <2> QED BY StateAt
<1> QED BY <1>1, PublicationInvariant, PTL

\* Settled Publications, deliveries and effects stay as they are, with the committed responses,
\* across retries, recoveries and lease expiry (settleExternalEffectStore, TransitionPublication).
THEOREM PublicationSettledStays == Spec => SettledStays
<1>1. PublicationInv /\ [Next]_vars =>
        [\A t \in Tasks :
           /\ pub[t] \in TerminalPub => pub'[t] = pub[t]
           /\ delivery[t] \in TerminalDelivery => delivery'[t] = delivery[t]
           /\ \A k \in Kinds : effect[t][k] \in Settled => effect'[t][k] = effect[t][k] /\ reply'[t][k] = reply[t][k]]_vars
  BY NextGood DEF Good, Stays, Same
<1> QED BY <1>1, PublicationInvariant, PTL DEF Spec, SettledStays

\* The publisher only fast-forwards the branch (Publisher.Publish's force-with-lease).
THEOREM PublicationFastForward == Spec => FastForward
<1>1. PublicationInv /\ [Next]_vars => [foreign' = foreign => IsAncestor(remote, remote')]_vars
  BY NextGood DEF Good, Forward
<1> QED BY <1>1, PublicationInvariant, PTL DEF Spec, FastForward

----------------------------------------------------------------------------
(* The wedged states. *)

\* Recovery goes round in a wedged state: the steps it takes, and what it reads of the ledger.
Round == {"stopped", "toPreparing", "prepare", "settlePrepare", "toVerifying", "verify", "settleVerify", "settlePublish", "toOutcome"}
Stuck(t) ==
    /\ Wedged(t) /\ delivery[t] \in OpenDelivery \ {"Validating"} /\ ~pass[t].live /\ pass[t].pc \in Round
    /\ pass[t].pc = "settlePublish" => pass[t].verdict = Verdict(t)
    /\ pass[t].pc = "settlePrepare" => pass[t].fail = "retryable" /\ effect[t]["prepare"] = "Failed"

\* A preparation recovery cannot take up: its effect has failed, or is unknown with attempts left.
Unprepared(t) == effect[t]["prepare"] = "Failed" \/ (effect[t]["prepare"] = "OutcomeUnknown" /\ attempts[t] < MaxAttempts)

\* A step leaves the records of Task t, and with its pass and delivery all of it.
Recorded(t) == pub'[t] = pub[t] /\ ack'[t] = ack[t] /\ attempts'[t] = attempts[t]
Kept(t) == Recorded(t) /\ delivery'[t] = delivery[t] /\ pass'[t] = pass[t]

\* At each step of the round it is known which of the wedged states it is, and no call is made.
LEMMA StuckIs ==
    ASSUME PublicationInv, NEW t \in Tasks, Stuck(t)
    PROVE  /\ pass[t].call = "no"
           /\ pass[t].pc \in {"toPreparing", "prepare", "settlePrepare"} => pub[t] = "Preparing" /\ Unprepared(t)
           /\ pass[t].pc \in {"toVerifying", "verify", "settleVerify", "settlePublish"} =>
                /\ pub[t] = "Verifying" /\ ack[t] = "unknown" /\ effect[t]["verify"] \in Settled
                /\ effect[t]["publish"] \in Settled \ {IF Verdict(t) \in Delivered THEN "Succeeded" ELSE "OutcomeUnknown"}
           /\ pass[t].pc = "toOutcome" => pub[t] = "CancelledBeforePublish" /\ delivery[t] = "Preparing"
<1>1. /\ pass[t].pc \in InPreparing => pub[t] = "Preparing"
      /\ pass[t].pc \in InVerifying => pub[t] = "Verifying"
      /\ pass[t].pc = "toOutcome" => pub[t] \in TerminalPub
  BY StateAt
<1>2. pass[t].pc \in {"toPreparing", "prepare", "settlePrepare"} => pub[t] = "Preparing"
  BY <1>1 DEF InPreparing
<1>3. pass[t].pc \in {"toVerifying", "verify", "settleVerify", "settlePublish"} => pub[t] = "Verifying"
  BY <1>1 DEF InVerifying, Judged
<1>4. pass[t].pc = "toOutcome" => pub[t] \notin {"Preparing", "Verifying"}
  BY <1>1 DEF TerminalPub, Delivered
<1>5. pass[t].pc \in {"toPreparing", "prepare", "settlePrepare"} => pub[t] = "Preparing" /\ Unprepared(t)
  BY <1>2 DEF Stuck, Wedged, Unprepared
<1>6. pass[t].pc \in {"toVerifying", "verify", "settleVerify", "settlePublish"} =>
        /\ pub[t] = "Verifying" /\ ack[t] = "unknown" /\ effect[t]["verify"] \in Settled
        /\ effect[t]["publish"] \in Settled \ {IF Verdict(t) \in Delivered THEN "Succeeded" ELSE "OutcomeUnknown"}
  BY <1>3 DEF Stuck, Wedged
<1>7. pass[t].pc = "toOutcome" => pub[t] = "CancelledBeforePublish" /\ delivery[t] = "Preparing"
  BY <1>4 DEF Stuck, Wedged
<1>8. pass[t].call = "no"
  <2>1. TaskInv(t)
    BY TaskIs
  <2>2. pass[t].call # "no" => pass[t].pc \in Kinds /\ effect[t][pass[t].pc] = "InFlight"
    BY <2>1 DEF TaskInv, Calls
  <2>3. pass[t].pc \in Kinds => pass[t].pc \in {"prepare", "verify"}
    BY DEF Stuck, Round, Kinds
  <2>4. "InFlight" \notin Settled /\ "InFlight" \notin {"Failed", "OutcomeUnknown"}
    BY DEF Settled
  <2> QED BY <1>5, <1>6, <2>2, <2>3, <2>4 DEF Unprepared
<1> QED BY <1>5, <1>6, <1>7, <1>8

\* A step of the round leads to another, since the records stay and what is settled does.
LEMMA StuckOn ==
    ASSUME PublicationInv, Stays, NEW t \in Tasks, Stuck(t), Recorded(t), ~pass'[t].live, pass'[t].pc \in Round,
           pass'[t].pc = "settlePublish" => pub[t] = "Verifying" /\ pass'[t].verdict = Verdict(t),
           pass'[t].pc = "settlePrepare" => pass'[t].fail = "retryable" /\ effect[t]["prepare"] = "Failed",
           delivery'[t] \in OpenDelivery \ {"Validating"}, pub[t] = "CancelledBeforePublish" => delivery'[t] = delivery[t]
    PROVE  Stuck(t)'
<1>1. \A k \in Kinds : effect[t][k] \in Settled => effect'[t][k] = effect[t][k] /\ reply'[t][k] = reply[t][k]
  BY DEF Stays, Same
<1>2. "prepare" \in Kinds /\ "verify" \in Kinds /\ "publish" \in Kinds /\ {"Failed", "OutcomeUnknown"} \subseteq Settled
  BY DEF Kinds, Settled
<1>3. effect[t]["verify"] \in Settled => Verdict(t)' = Verdict(t) /\ effect'[t]["verify"] = effect[t]["verify"]
  BY <1>1, <1>2 DEF Verdict
<1>4. pub[t] = "Verifying" => effect[t]["verify"] \in Settled
  BY DEF Stuck, Wedged
<1>5. Wedged(t)'
  <2>1. CASE pub[t] = "Preparing" /\ Unprepared(t)
    BY <1>1, <1>2, <2>1 DEF Wedged, Unprepared, Recorded
  <2>2. CASE /\ pub[t] = "Verifying" /\ ack[t] = "unknown" /\ effect[t]["verify"] \in Settled
             /\ effect[t]["publish"] \in Settled \ {IF Verdict(t) \in Delivered THEN "Succeeded" ELSE "OutcomeUnknown"}
    BY <1>1, <1>2, <1>3, <2>2 DEF Wedged, Recorded
  <2>3. CASE pub[t] = "CancelledBeforePublish" /\ delivery[t] = "Preparing"
    BY <2>3 DEF Wedged, Recorded
  <2> QED BY <2>1, <2>2, <2>3 DEF Stuck, Wedged, Unprepared
<1>6. effect[t]["prepare"] = "Failed" => effect'[t]["prepare"] = "Failed"
  BY <1>1, <1>2
<1> QED BY <1>3, <1>4, <1>5, <1>6 DEF Stuck

\* A step that leaves the Task alone.
LEMMA StuckKept ==
    ASSUME PublicationInv, Stays, NEW t \in Tasks, Stuck(t), Kept(t)
    PROVE  Stuck(t)'
<1>1. ~pass[t].live /\ pass[t].pc \in Round /\ delivery[t] \in OpenDelivery \ {"Validating"}
      /\ (pass[t].pc = "settlePublish" => pass[t].verdict = Verdict(t))
      /\ (pass[t].pc = "settlePrepare" => pass[t].fail = "retryable" /\ effect[t]["prepare"] = "Failed")
  BY DEF Stuck
<1>2. pass[t].pc = "settlePublish" => pub[t] = "Verifying"
  BY StuckIs
<1> QED BY <1>1, <1>2, StuckOn DEF Kept

\* A step at which the pass stops.
LEMMA StuckStops ==
    ASSUME PublicationInv, Stays, NEW t \in Tasks, Stuck(t), Recorded(t), delivery'[t] = delivery[t], pass'[t] = Stopped(t)
    PROVE  Stuck(t)'
<1>1. ~Stopped(t).live /\ Stopped(t).pc = "stopped"
  BY DEF Stopped, Idle
<1>2. "stopped" \in Round /\ delivery[t] \in OpenDelivery \ {"Validating"}
  BY DEF Round, Stuck
<1> QED BY <1>1, <1>2, StuckOn

\* A step at which it goes on.
LEMMA StuckGoes ==
    ASSUME PublicationInv, Stays, NEW t \in Tasks, Stuck(t), Recorded(t), NEW q \in Round \ {"settlePublish", "settlePrepare"}, Goes(t, q),
           delivery'[t] \in OpenDelivery \ {"Validating"}, pub[t] = "CancelledBeforePublish" => delivery'[t] = delivery[t]
    PROVE  Stuck(t)'
<1>1. PICK p : p = pass[t]
  OBVIOUS
<1>2. p \in PassRec /\ ~p.live
  BY <1>1, TaskIs DEF Stuck
<1> DEFINE r == [p EXCEPT !.pc = q]
<1>3. ~r.live /\ r.pc = q
  BY <1>2 DEF PassRec
<1>4. pass'[t] = r
  BY <1>1 DEF Goes, PublicationInv, TypeOK
<1> HIDE DEF r
<1> QED BY <1>3, <1>4, StuckOn

\* A recovery pass that fails stops.
LEMMA StuckFails ==
    ASSUME PublicationInv, NEW t \in Tasks, Stuck(t), Fails(t)
    PROVE  pass'[t] = Stopped(t)
<1>1. Stops(t)
  BY DEF Stuck, Fails
<1> QED BY <1>1 DEF Stops, PublicationInv, TypeOK

\* A step of a Task leaves every other Task alone.
LEMMA Elsewhere ==
    ASSUME PublicationInv, NEW u \in Tasks, NEW t \in Tasks, t # u,
           Steps(u) \/ Serves(u) \/ Time(u) \/ Faults(u) \/ Cancel(u) \/ WatchCancel(u)
             \/ \E k \in {"publish", "verify"} : ServeLate(u, k)
    PROVE  Kept(t)
<1>1. /\ \A x : [pub EXCEPT ![u] = x][t] = pub[t] /\ [ack EXCEPT ![u] = x][t] = ack[t]
      /\ \A x : [attempts EXCEPT ![u] = x][t] = attempts[t] /\ [delivery EXCEPT ![u] = x][t] = delivery[t]
      /\ \A x : [pass EXCEPT ![u] = x][t] = pass[t]
  BY DEF PublicationInv, TypeOK
<1>2. /\ \A q : Goes(u, q) => pass'[t] = pass[t]
      /\ \A x : Gets(u, x) => pass'[t] = pass[t]
      /\ Stops(u) => pass'[t] = pass[t]
      /\ Fails(u) => pass'[t] = pass[t]
  BY <1>1 DEF Goes, Gets, Stops, Fails
<1>3. ASSUME UNCHANGED <<pub, ack, delivery>>, UNCHANGED ledger, pass'[t] = pass[t] PROVE Kept(t)
  BY <1>3 DEF Kept, Recorded, ledger
<1>4. ASSUME NEW k \in Kinds, Reserve(u, k) \/ ClaimEffect(u, k) \/ Replay(u, k) \/ Return(u, k) PROVE Kept(t)
  <2>1. CASE Reserve(u, k)
    BY <2>1 DEF Reserve, Kept, Recorded
  <2>2. CASE ClaimEffect(u, k)
    BY <1>1, <2>2 DEF ClaimEffect, Kept, Recorded
  <2>3. CASE Replay(u, k)
    BY <1>1, <1>3, <2>3 DEF Replay
  <2>4. CASE Return(u, k)
    BY <1>1, <2>4 DEF Return, Kept, Recorded
  <2> QED BY <1>4, <2>1, <2>2, <2>3, <2>4
<1>5. ASSUME NEW k, NEW state, NEW next, Settle(u, k, state, next) PROVE Kept(t)
  BY <1>1, <1>2, <1>5 DEF Settle, Kept, Recorded
<1>6. ASSUME UNCHANGED UnchangedBut, UNCHANGED <<ack, delivery>>, pub' = pub \/ \E x : pub' = [pub EXCEPT ![u] = x], pass'[t] = pass[t]
      PROVE  Kept(t)
  BY <1>1, <1>6 DEF UnchangedBut, ledger, Kept, Recorded
<1>7. ASSUME NEW from, NEW to, NEW next, Transition(u, from, to, next), UNCHANGED UnchangedBut, UNCHANGED <<ack, delivery>> PROVE Kept(t)
  BY <1>2, <1>6, <1>7 DEF Transition
<1>8. ASSUME NEW pc, NEW from, NEW to, NEW next, Deliver(u, pc, from, to, next) PROVE Kept(t)
  BY <1>1, <1>2, <1>8 DEF Deliver, UnchangedBut, ledger, Kept, Recorded
<1>9. ASSUME Start(u) \/ EnsureClaim(u) \/ Cleanup(u) \/ EnsurePublication(u) \/ Decide(u) \/ CancelPrepared(u) PROVE Kept(t)
  BY <1>2, <1>6, <1>9 DEF Start, EnsureClaim, Cleanup, EnsurePublication, Decide, CancelPrepared
<1>10. ASSUME SetPrepared(u) \/ SetFailed(u) \/ SetOutcome(u) PROVE Kept(t)
  BY <1>7, <1>10 DEF SetPrepared, SetFailed, SetOutcome
<1>11. ASSUME SetPublishing(u) PROVE Kept(t)
  BY <1>2, <1>6, <1>7, <1>11 DEF SetPublishing
<1>12. ASSUME SetVerifying(u) PROVE Kept(t)
  BY <1>1, <1>2, <1>12 DEF SetVerifying, Transition, UnchangedBut, ledger, Kept, Recorded
<1>13. ASSUME SettleError(u) \/ SettleVerify(u) \/ SettlePr(u) PROVE Kept(t)
  BY <1>5, <1>13 DEF SettleError, SettleVerify, SettlePr
<1>14. ASSUME SettlePublish(u) PROVE Kept(t)
  BY <1>1, <1>5, <1>6, <1>14 DEF SettlePublish
<1>15. ASSUME SetPRIntent(u) \/ SetPRReceipt(u) \/ ReclaimClaim(u) PROVE Kept(t)
  BY <1>2, <1>6, <1>15 DEF SetPRIntent, SetPRReceipt, ReclaimClaim
<1>16. ASSUME DeliverOutcome(u) \/ Terminalize(u) \/ Recover(u) PROVE Kept(t)
  BY <1>1, <1>2, <1>16 DEF DeliverOutcome, Terminalize, Recover, UnchangedBut, ledger, Kept, Recorded
<1>17. Steps(u) => Kept(t)
  BY <1>4, <1>8, <1>9, <1>10, <1>11, <1>12, <1>13, <1>14, <1>15, <1>16 DEF Steps, Effects, DeliverStage
<1>18. Serves(u) => Kept(t)
  BY <1>2, <1>3 DEF Serves, ServeOther, ServePublish, ServeVerify
<1>19. Time(u) => Kept(t)
  BY DEF Time, LeaseRunsOut, ReconcileExpired, Kept, Recorded
<1>20. Faults(u) => Kept(t)
  BY <1>1, <1>2, <1>3 DEF Faults, CallLost, PrepareRefused, CreateFails, StoreError
<1>21. Cancel(u) \/ (\E k \in {"publish", "verify"} : ServeLate(u, k)) => Kept(t)
  BY <1>3 DEF Cancel, ServeLate
<1>22. WatchCancel(u) => Kept(t)
  BY <1>1 DEF WatchCancel, ledger, Kept, Recorded
<1> QED BY <1>17, <1>18, <1>19, <1>20, <1>21, <1>22

\* An error of the preparation or the verification leads on in the round, or ends it.
LEMMA StuckError ==
    ASSUME PublicationInv, Stays, NEW t \in Tasks, Stuck(t), NEW k \in {"prepare", "verify"}, pass[t].pc = k,
           Recorded(t), delivery'[t] = delivery[t], pass'[t] = AfterError(t, k, "retryable")
    PROVE  Stuck(t)'
<1>1. delivery[t] \in OpenDelivery \ {"Validating"} /\ ~pass[t].live
  BY DEF Stuck
<1>2. PICK p : p = pass[t]
  OBVIOUS
<1>3. p \in PassRec /\ ~p.live
  BY <1>1, <1>2, TaskIs
<1> DEFINE o == [p EXCEPT !.call = "no", !.fail = "retryable"]
<1>4. CASE k = "prepare"
  <2>1. attempts[t] \in 0 .. MaxAttempts /\ MaxAttempts \in Nat
    BY PublicationAssumption DEF PublicationInv, TypeOK
  <2>2. Unprepared(t)
    BY <1>4, StuckIs
  <2>3. attempts[t] >= MaxAttempts => effect[t]["prepare"] = "Failed"
    BY SMTT(60), <2>1, <2>2 DEF Unprepared
  <2> DEFINE r == [o EXCEPT !.pc = "settlePrepare"]
  <2>4. ~r.live /\ r.pc = "settlePrepare" /\ r.fail = "retryable" /\ ~o.live
    BY <1>3 DEF PassRec
  <2>5. AfterError(t, "prepare", "retryable") = IF o.live \/ attempts[t] >= MaxAttempts THEN r ELSE Stopped(t)
    BY <1>2 DEF AfterError
  <2> HIDE DEF o, r
  <2>6. CASE attempts[t] >= MaxAttempts
    <3>1. pass'[t] = r
      BY <1>4, <2>5, <2>6
    <3>2. "settlePrepare" \in Round
      BY DEF Round
    <3> QED BY <1>1, <2>3, <2>4, <2>6, <3>1, <3>2, StuckOn
  <2>7. CASE ~(attempts[t] >= MaxAttempts)
    <3>1. pass'[t] = Stopped(t)
      BY <1>4, <2>4, <2>5, <2>7
    <3> QED BY <3>1, StuckStops
  <2> QED BY <2>6, <2>7
<1>5. CASE k = "verify"
  <2> DEFINE r == [o EXCEPT !.pc = "settleVerify"]
  <2>1. ~r.live /\ r.pc = "settleVerify"
    BY <1>3 DEF PassRec
  <2>2. AfterError(t, "verify", "retryable") = r
    BY <1>2 DEF AfterError
  <2>3. pass'[t] = r
    BY <1>5, <2>2
  <2> HIDE DEF o, r
  <2>4. "settleVerify" \in Round
    BY DEF Round
  <2> QED BY <1>1, <2>1, <2>3, <2>4, StuckOn
<1> QED BY <1>4, <1>5

\* A settled effect is replayed: the preparation is an error, the verification leads to
\* the same verdict.
LEMMA StuckReplay ==
    ASSUME PublicationInv, Stays, NEW t \in Tasks, Stuck(t), NEW k \in Kinds, Replay(t, k)
    PROVE  Stuck(t)'
<1>1. /\ pass[t].pc = k /\ Recorded(t) /\ delivery'[t] = delivery[t] /\ delivery[t] \in OpenDelivery \ {"Validating"} /\ ~pass[t].live
      /\ pass' = [pass EXCEPT ![t] = IF effect[t][k] = "Succeeded" THEN After(t, k, reply[t][k]) ELSE AfterError(t, k, "retryable")]
  BY DEF Replay, At, Recorded, ledger, Stuck
<1>2. pass'[t] = IF effect[t][k] = "Succeeded" THEN After(t, k, reply[t][k]) ELSE AfterError(t, k, "retryable")
  BY <1>1 DEF PublicationInv, TypeOK
<1>3. k \in {"prepare", "verify"}
  BY <1>1 DEF Stuck, Round, Kinds
<1>4. PICK p : p = pass[t]
  OBVIOUS
<1>5. p \in PassRec /\ ~p.live
  BY <1>1, <1>4, TaskIs
<1>6. CASE effect[t][k] # "Succeeded"
  <2>1. pass'[t] = AfterError(t, k, "retryable")
    BY <1>2, <1>6
  <2> QED BY <1>1, <1>3, <2>1, StuckError
<1>7. CASE effect[t][k] = "Succeeded"
  <2>1. k = "verify"
    <3>1. pass[t].pc = "prepare" => effect[t]["prepare"] # "Succeeded"
      BY StuckIs DEF Unprepared
    <3> QED BY <1>1, <1>3, <1>7, <3>1
  <2>2. pub[t] = "Verifying"
    BY <1>1, <2>1, StuckIs
  <2> DEFINE o == [p EXCEPT !.call = "no"]
             r == [o EXCEPT !.pc = "settlePublish", !.verdict = reply[t]["verify"]]
  <2>3. ~r.live /\ r.pc = "settlePublish" /\ r.verdict = reply[t]["verify"]
    BY <1>5 DEF PassRec
  <2>4. After(t, "verify", reply[t]["verify"]) = r
    BY <1>4 DEF After
  <2>5. Verdict(t) = reply[t]["verify"]
    BY <1>7, <2>1 DEF Verdict
  <2>6. pass'[t] = r
    BY <1>2, <1>7, <2>1, <2>4
  <2> HIDE DEF o, r
  <2>7. "settlePublish" \in Round
    BY DEF Round
  <2> QED BY <1>1, <2>2, <2>3, <2>5, <2>6, <2>7, StuckOn
<1> QED BY <1>6, <1>7

\* Settling the preparation, the verification, and then the publish effect, which has another state.
LEMMA StuckSettles ==
    ASSUME PublicationInv, Stays, NEW t \in Tasks, Stuck(t), SettleError(t) \/ SettleVerify(t) \/ SettlePublish(t)
    PROVE  Stuck(t)'
<1>1. delivery[t] \in OpenDelivery \ {"Validating"} /\ ~pass[t].live
  BY DEF Stuck
<1>2. CASE SettleVerify(t)
  <2>1. pass[t].pc = "settleVerify" /\ Recorded(t) /\ delivery'[t] = delivery[t]
    BY <1>2 DEF SettleVerify, At, Settle, Recorded
  <2>2. pub[t] = "Verifying" /\ effect[t]["verify"] \in Settled
    BY <2>1, StuckIs
  <2>3. CASE effect[t]["verify"] = "OutcomeUnknown"
    <3>1. PICK p : p = pass[t]
      OBVIOUS
    <3>2. p \in PassRec /\ ~p.live
      BY <1>1, <3>1, TaskIs
    <3> DEFINE r == [p EXCEPT !.pc = "settlePublish", !.verdict = "OutcomeUnknown"]
    <3>3. ~r.live /\ r.pc = "settlePublish" /\ r.verdict = "OutcomeUnknown"
      BY <3>2 DEF PassRec
    <3>4. pass' = [pass EXCEPT ![t] = r]
      BY <1>2, <2>3, <3>1 DEF SettleVerify, Settle
    <3> HIDE DEF r
    <3>5. pass'[t] = r
      BY <3>4 DEF PublicationInv, TypeOK
    <3>6. Verdict(t) = "OutcomeUnknown" /\ "settlePublish" \in Round
      BY <2>3 DEF Verdict, Round
    <3> QED BY <1>1, <2>1, <2>2, <3>3, <3>5, <3>6, StuckOn
  <2>4. CASE effect[t]["verify"] # "OutcomeUnknown"
    <3>1. effect[t]["verify"] \notin {"none", "OutcomeUnknown"}
      BY <2>2, <2>4 DEF Settled
    <3>2. Fails(t)
      BY <1>2, <2>2, <3>1 DEF SettleVerify, Settle
    <3>3. pass'[t] = Stopped(t)
      BY <3>2, StuckFails
    <3> QED BY <2>1, <3>3, StuckStops
  <2> QED BY <2>3, <2>4
<1>3. CASE SettlePublish(t)
  <2>1. pass[t].pc = "settlePublish"
    BY <1>3 DEF SettlePublish, At
  <2>2. /\ ack[t] = "unknown" /\ pass[t].verdict = Verdict(t)
        /\ effect[t]["publish"] \in Settled \ {IF Verdict(t) \in Delivered THEN "Succeeded" ELSE "OutcomeUnknown"}
    BY <2>1, StuckIs DEF Stuck
  <2>3. Settle(t, "publish", IF pass[t].verdict \in Delivered THEN "Succeeded" ELSE "OutcomeUnknown", NextAfterVerify(t))
    BY <1>1, <1>3, <2>2 DEF SettlePublish
  <2>4. PICK s : s = IF Verdict(t) \in Delivered THEN "Succeeded" ELSE "OutcomeUnknown"
    OBVIOUS
  <2>5. Settle(t, "publish", s, NextAfterVerify(t)) /\ effect[t]["publish"] \in Settled /\ effect[t]["publish"] \notin {"none", s}
    BY <2>2, <2>3, <2>4 DEF Settled
  <2>6. Fails(t) /\ Recorded(t) /\ delivery'[t] = delivery[t]
    BY <2>5 DEF Settle, Recorded
  <2>7. pass'[t] = Stopped(t)
    BY <2>6, StuckFails
  <2> QED BY <2>6, <2>7, StuckStops
<1>4. CASE SettleError(t)
  <2>1. "settlePreflight" \notin Round
    BY DEF Round
  <2>2. pass[t].pc = "settlePrepare"
    BY <1>4, <2>1 DEF SettleError, At, Stuck
  <2>3. pass[t].fail = "retryable" /\ effect[t]["prepare"] = "Failed"
    BY <2>2 DEF Stuck
  <2>4. Settle(t, "prepare", "OutcomeUnknown", [pass[t] EXCEPT !.pc = "setFailed"])
    BY <1>4, <2>2, <2>3 DEF SettleError, At
  <2>5. "Failed" \in Settled /\ "Failed" \notin {"none", "OutcomeUnknown"} /\ "prepare" # "preflight"
    BY DEF Settled
  <2>6. Fails(t) /\ Recorded(t) /\ delivery'[t] = delivery[t]
    BY <2>3, <2>4, <2>5 DEF Settle, Recorded
  <2>7. pass'[t] = Stopped(t)
    BY <2>6, StuckFails
  <2> QED BY <2>6, <2>7, StuckStops
<1> QED BY <1>2, <1>3, <1>4

\* The delivery is brought to the stage of the Publication, or the pass stops.
LEMMA StuckDelivers ==
    ASSUME PublicationInv, Stays, NEW t \in Tasks, Stuck(t), DeliverStage(t) \/ DeliverOutcome(t) \/ Recover(t)
    PROVE  Stuck(t)'
<1>1. delivery[t] \in OpenDelivery \ {"Validating"} /\ ~pass[t].live /\ pass[t].pc \in Round
  BY DEF Stuck
<1>2. Recorded(t)
  BY DEF DeliverStage, Deliver, DeliverOutcome, Recover, UnchangedBut, ledger, Recorded
<1>3. ASSUME delivery' = delivery, Fails(t) PROVE Stuck(t)'
  BY <1>2, <1>3, StuckFails, StuckStops
<1>4. ASSUME delivery' = delivery, NEW q \in Round \ {"settlePublish", "settlePrepare"}, Goes(t, q) PROVE Stuck(t)'
  BY <1>1, <1>2, <1>4, StuckGoes
<1>5. CASE DeliverStage(t)
  <2>1. "toPrepared" \notin Round /\ "toPublishing" \notin Round
    BY DEF Round
  <2>2. Deliver(t, "toPreparing", "Validating", "Preparing", "prepare") \/ Deliver(t, "toVerifying", "Publishing", "Verifying", "verify")
    BY <1>1, <1>5, <2>1 DEF DeliverStage, Deliver, At
  <2>3. CASE Deliver(t, "toPreparing", "Validating", "Preparing", "prepare")
    <3>1. "prepare" \in Round \ {"settlePublish", "settlePrepare"}
      BY DEF Round
    <3>2. delivery' = delivery /\ (Goes(t, "prepare") \/ Fails(t))
      BY <1>1, <2>3 DEF Deliver
    <3> QED BY <1>3, <1>4, <3>1, <3>2
  <2>4. CASE Deliver(t, "toVerifying", "Publishing", "Verifying", "verify")
    <3>1. "verify" \in Round \ {"settlePublish", "settlePrepare"} /\ "Verifying" \in OpenDelivery \ {"Validating"}
      BY DEF Round, OpenDelivery
    <3>2. pub[t] = "Verifying"
      BY <2>4, StuckIs DEF Deliver, At
    <3>3. CASE delivery[t] = "Publishing"
      <4>1. Goes(t, "verify") /\ delivery' = [delivery EXCEPT ![t] = "Verifying"]
        BY <2>4, <3>3 DEF Deliver
      <4>2. delivery'[t] = "Verifying"
        BY <4>1 DEF PublicationInv, TypeOK
      <4> QED BY <1>2, <3>1, <3>2, <4>1, <4>2, StuckGoes
    <3>4. CASE delivery[t] # "Publishing"
      <4>1. delivery' = delivery /\ (Goes(t, "verify") \/ Fails(t))
        BY <2>4, <3>4 DEF Deliver
      <4> QED BY <1>3, <1>4, <3>1, <4>1
    <3> QED BY <3>3, <3>4
  <2> QED BY <2>2, <2>3, <2>4
<1>6. CASE DeliverOutcome(t)
  <2>1. pub[t] = "CancelledBeforePublish" /\ delivery[t] = "Preparing"
    BY <1>6, StuckIs DEF DeliverOutcome, At
  <2>2. DeliveryFor(pub[t]) = "CancelledBeforePublish"
    BY <2>1 DEF DeliveryFor
  <2>3. <<"Preparing", "CancelledBeforePublish">> \notin DeliveryTransitions
    BY SMTT(60) DEF DeliveryTransitions, Delivered
  <2>4. delivery' = delivery /\ Fails(t)
    BY <1>6, <2>1, <2>2, <2>3 DEF DeliverOutcome
  <2> QED BY <1>3, <2>4
<1>7. CASE Recover(t)
  <2>1. Goes(t, Resume(t)) /\ delivery' = delivery
    BY <1>1, <1>7 DEF Recover
  <2>2. pub[t] \in {"Preparing", "Verifying", "CancelledBeforePublish"}
    BY DEF Stuck, Wedged
  <2>3. Resume(t) \in {"toPreparing", "toVerifying", "toOutcome"}
    BY SMTT(60), <2>2 DEF Resume
  <2>4. Resume(t) \in Round \ {"settlePublish", "settlePrepare"}
    BY <2>3 DEF Round
  <2> QED BY <1>4, <2>1, <2>4
<1> QED BY <1>5, <1>6, <1>7

\* No other step of the Task is possible: what recovery calls for has settled.
LEMMA StuckSteps ==
    ASSUME PublicationInv, Stays, NEW t \in Tasks, Stuck(t), Steps(t)
    PROVE  Stuck(t)'
<1>1. pass[t].pc \in Round /\ ~pass[t].live /\ pass[t].call = "no"
  BY StuckIs DEF Stuck
<1>2. ASSUME NEW q, At(t, q) PROVE q \in Round
  BY <1>1, <1>2 DEF At
<1>3. ASSUME Effects(t) PROVE Stuck(t)'
  <2>1. PICK k \in Kinds : Reserve(t, k) \/ ClaimEffect(t, k) \/ Replay(t, k) \/ Return(t, k)
    BY <1>3 DEF Effects
  <2>2. ~Return(t, k)
    BY <1>1 DEF Return
  <2>3. ~(Reserve(t, k) \/ ClaimEffect(t, k))
    <3> SUFFICES ASSUME Reserve(t, k) \/ ClaimEffect(t, k) PROVE FALSE
      OBVIOUS
    <3>1. pass[t].pc = k /\ effect[t][k] \in {"none", "Pending", "Expired"}
      BY DEF Reserve, ClaimEffect, At
    <3>2. k \in {"prepare", "verify"}
      BY <1>1, <3>1 DEF Round, Kinds
    <3>3. effect[t][k] \in Settled
      BY <3>1, <3>2, StuckIs DEF Settled, Unprepared
    <3> QED BY <3>1, <3>3 DEF Settled
  <2> QED BY <2>1, <2>2, <2>3, StuckReplay
<1>4. ~(Start(t) \/ EnsureClaim(t) \/ Cleanup(t) \/ EnsurePublication(t))
  <2>1. "idle" \notin Round /\ "claim" \notin Round /\ "cleanup" \notin Round /\ "create" \notin Round
    BY DEF Round
  <2> QED BY <1>1, <1>2, <2>1 DEF Start, EnsureClaim, Cleanup, EnsurePublication
<1>5. ~(SetPrepared(t) \/ SetFailed(t) \/ Decide(t) \/ CancelPrepared(t) \/ SetPublishing(t) \/ SetVerifying(t))
  <2>1. /\ "setPrepared" \notin Round /\ "setFailed" \notin Round /\ "decide" \notin Round
        /\ "cancelPrepared" \notin Round /\ "setPublishing" \notin Round /\ "setVerifying" \notin Round
    BY DEF Round
  <2> QED BY <1>2, <2>1 DEF SetPrepared, SetFailed, Decide, CancelPrepared, SetPublishing, SetVerifying
<1>6. ~(SettlePr(t) \/ SetPRIntent(t) \/ SetPRReceipt(t) \/ SetOutcome(t) \/ ReclaimClaim(t))
  <2>1. /\ "settlePr" \notin Round /\ "prIntent" \notin Round
        /\ "prReceipt" \notin Round /\ "setOutcome" \notin Round /\ "reclaim" \notin Round
    BY DEF Round
  <2> QED BY <1>2, <2>1 DEF SettlePr, SetPRIntent, SetPRReceipt, SetOutcome, ReclaimClaim
<1>7. ~Terminalize(t)
  <2>1. "failing" \notin Round
    BY DEF Round
  <2> QED BY <1>1, <2>1 DEF Terminalize
<1> QED BY <1>3, <1>4, <1>5, <1>6, <1>7, StuckSettles, StuckDelivers DEF Steps

\* A wedged recovery stays wedged, whatever its Task, another, the publisher or time does.
LEMMA StuckStays ==
    ASSUME PublicationInv, [Next]_vars, NEW t \in Tasks, Stuck(t)
    PROVE  Stuck(t)'
<1>1. Stays
  BY NextGood DEF Good
<1>2. ASSUME NEW u \in Tasks,
             Steps(u) \/ Serves(u) \/ Time(u) \/ Faults(u) \/ Cancel(u) \/ WatchCancel(u)
               \/ \E k \in {"publish", "verify"} : ServeLate(u, k)
      PROVE  Stuck(t)'
  <2>1. CASE u # t
    BY <1>1, <1>2, <2>1, Elsewhere, StuckKept
  <2>2. CASE u = t
    <3>1. pass[t].pc \in Round /\ ~pass[t].live /\ pass[t].call = "no"
      BY StuckIs DEF Stuck
    <3>2. CASE Steps(t)
      BY <1>1, <3>2, StuckSteps
    <3>3. ~(Serves(t) \/ WatchCancel(t))
      BY <3>1 DEF Serves, ServeOther, ServePublish, ServeVerify, WatchCancel
    <3>4. CASE Time(t) \/ Cancel(t) \/ \E k \in {"publish", "verify"} : ServeLate(t, k)
      <4>1. Kept(t)
        BY <3>4 DEF Time, LeaseRunsOut, ReconcileExpired, Cancel, ServeLate, ledger, Kept, Recorded
      <4> QED BY <1>1, <4>1, StuckKept
    <3>5. CASE Faults(t)
      <4>1. "create" \notin Round
        BY DEF Round
      <4>2. StoreError(t)
        BY <3>1, <3>5, <4>1 DEF Faults, CallLost, PrepareRefused, CreateFails, At
      <4>3. Recorded(t) /\ delivery'[t] = delivery[t] /\ pass' = [pass EXCEPT ![t] = AfterStoreError(t)]
        BY <4>2 DEF StoreError, ledger, Recorded
      <4>4. pass'[t] = AfterStoreError(t)
        BY <4>3 DEF PublicationInv, TypeOK
      <4>5. CASE pass[t].pc \in Kinds
        <5>1. PICK k \in {"prepare", "verify"} : k = pass[t].pc
          BY <3>1, <4>5 DEF Round, Kinds
        <5>2. AfterStoreError(t) = AfterError(t, k, "retryable")
          BY SMTT(60), <4>5, <5>1 DEF AfterStoreError, Kinds
        <5> QED BY <1>1, <4>3, <4>4, <5>1, <5>2, StuckError
      <4>6. CASE pass[t].pc \notin Kinds
        <5>1. "settlePreflight" \notin Round /\ "failing" \notin Round
          BY DEF Round
        <5>2. AfterStoreError(t) = Stopped(t)
          BY SMTT(60), <3>1, <4>6, <5>1 DEF AfterStoreError
        <5> QED BY <1>1, <4>3, <4>4, <5>2, StuckStops
      <4> QED BY <4>5, <4>6
    <3> QED BY <1>2, <2>2, <3>2, <3>3, <3>4, <3>5
  <2> QED BY <2>1, <2>2
<1>3. CASE Crash
  <2>1. Recorded(t) /\ delivery' = delivery /\ pass'[t] = IF pass[t].pc = "idle" THEN Idle ELSE Stopped(t)
    BY <1>3 DEF Crash, ledger, Recorded
  <2>2. pass[t].pc # "idle"
    BY DEF Stuck, Round
  <2> QED BY <1>1, <2>1, <2>2, StuckStops
<1>4. CASE ForeignMove \/ UNCHANGED vars
  <2>1. Kept(t)
    BY <1>4 DEF ForeignMove, vars, ledger, Kept, Recorded
  <2> QED BY <1>1, <2>1, StuckKept
<1> QED BY <1>2, <1>3, <1>4 DEF Next

\* Recovery cannot leave the wedged states (reconcilePersistedPublicationStep, settleExternalEffectStore):
\* once a pass has stopped in one, with a delivery past validation, the Publication stays in it and
\* the delivery never settles, however often it is recovered and whatever happens meanwhile.
THEOREM PublicationWedged ==
    ASSUME NEW t \in Tasks
    PROVE  Spec => [](pass[t] = Stopped(t) /\ Wedged(t) /\ delivery[t] \in OpenDelivery \ {"Validating"}
                        => [](Wedged(t) /\ delivery[t] \in OpenDelivery))
<1>1. PublicationInv /\ [Next]_vars /\ Stuck(t) => Stuck(t)'
  BY StuckStays
<1>2. pass[t] = Stopped(t) /\ Wedged(t) /\ delivery[t] \in OpenDelivery \ {"Validating"} => Stuck(t)
  BY DEF Stuck, Stopped, Idle, Round
<1>3. Stuck(t) => Wedged(t) /\ delivery[t] \in OpenDelivery
  BY DEF Stuck
<1> QED BY <1>1, <1>2, <1>3, PublicationInvariant, PTL DEF Spec

=============================================================================
