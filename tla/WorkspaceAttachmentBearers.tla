---------------------- MODULE WorkspaceAttachmentBearers ----------------------
(***************************************************************************)
(* A bearer never outlives the settlement of its Task, for any number of   *)
(* Tasks, workers, epochs, bearers and faults, as long as no two passes of *)
(* one Task overlapped and no Lease ran out.                               *)
(***************************************************************************)
EXTENDS WorkspaceAttachmentProofs

\* Zenon proves every leaf that names no other backend.
USE ZenonT(60)

----------------------------------------------------------------------------
(* The invariant: bearers. *)

\* The bearer of epoch e is in its Secret, and its Task has not rotated it since.
Last(e) == \A f \in Epochs : granted[f].task = granted[e].task => f <= e
Live(e) == granted[e].task # 0 /\ secret[e] = granted[e].digest /\ Last(e)

Attaching == {"lease", "read", "secret", "fence", "renew", "patch"}

\* A settlement that read an attachment of its Task and has not detached it.
Revoking(p) == p.pc = "begin" \/ (p.pc = "stamp" /\ p.claimed)

\* What is recorded was published, and a quarantine is for good.
Recorded(p) ==
    /\ p.digest <= bearers
    /\ p.pc \in Attaching => ~p.keep
    /\ p.pc \in {"record", "adopt"} \/ Revoking(p) => granted[p.epoch].task = p.task
    /\ p.pc \in Settling => task[p.task].ended
    /\ p.pc \in {"qsecret", "qlease"} => ws.desired = "Quarantined" /\ p.epoch = ws.epoch
    /\ p.pc \in Settling /\ p.plan = "credentials" => ws.desired = "Quarantined" /\ p.epoch = ws.epoch
    /\ p.pc \in {"unhold", "qlease"} /\ p.epoch # 0 => ~Live(p.epoch)

\* A bearer is published with a number, a Task records an epoch of its own, and only a Task that
\* has ended has settled or left the receipt.
Kept ==
    /\ \A e \in Epochs : granted[e].digest <= bearers /\ (granted[e].task # 0 => granted[e].digest # 0)
    /\ \A t \in Tasks : /\ task[t].epoch # 0 => granted[task[t].epoch].task = t
                        /\ task[t].settled \/ ws.receipt[1] = t => task[t].ended
    /\ ws.receipt[2] <= ws.epoch

RecordInv == Kept /\ \A w \in Workers : Recorded(wk[w])

\* While no pass overlaps another of its Task and no Lease has run out: a Task has published
\* nothing when it attaches, or rotates the bearer of its own attachment, and its settlement
\* suspends only after the bearer is deleted.
NoGrant(t) == \A e \in Epochs : granted[e].task # t
Entitled(t) == NoGrant(t) \/ ws.att.task = t
Newest(p) == \A f \in Epochs : granted[f].task = p.task => f <= p.epoch
Counted == {"secret", "fence", "renew", "patch", "record", "adopt"}
Alone(p) ==
    /\ p.pc \in Attaching => ~task[p.task].settled /\ ws.receipt[1] # p.task
    /\ p.pc \in Attaching \cup {"clean"} => Entitled(p.task)
    /\ p.pc \in {"unsecret", "unlease"} => NoGrant(p.task) \/ ~p.claimed
    /\ p.pc \in Counted \/ Revoking(p) => Newest(p)
    /\ Revoking(p) => task[p.task].epoch = p.epoch
    /\ p.pc \in {"suspend", "mark", "qlease"} => \A e \in Epochs : granted[e].task = p.task => ~Live(e)

\* The patch of a current copy is made under the Lease, fenced to its epoch.
Fenced(p) == p.pc = "patch" => lease.holder = p.task /\ lease.epoch = p.epoch

\* A bearer that is still there is of the workspace's epoch, its Task holds the Lease, fenced to
\* this epoch or to the one of its rotation, and has not settled, and no receipt covers it.
Covers(e) ==
    LET t == granted[e].task IN
    /\ ws.epoch = e /\ lease.holder = t /\ e <= lease.epoch
    /\ ~task[t].settled /\ ws.receipt[1] # t /\ ws.receipt[2] < e
    /\ ws.att = NoAtt => task[t].ended /\ task[t].epoch = e

\* Each Task has one pass, and keeps its attachment until it has ended.
Attends == \A e \in Epochs : granted[e].task # 0 => task[granted[e].task].ended \/ ws.att.task = granted[e].task
Single ==
    /\ ~lease.expired /\ Attends
    /\ \A v, w \in Workers : wk[v].task = wk[w].task /\ wk[v].task # 0 => v = w

Bearers ==
    /\ Single
    /\ \A w \in Workers : Alone(wk[w]) /\ (w \in fresh => Fenced(wk[w]))
    /\ \A e \in Epochs : Live(e) => Covers(e)

BearerInv == ~strayed => Bearers

----------------------------------------------------------------------------
(* What is recorded. *)

\* What no step takes back.
Onward ==
    /\ bearers <= bearers'
    /\ \A e \in Epochs : granted[e].task # 0 => granted'[e] = granted[e]
    /\ \A t \in Tasks : task[t].ended => task'[t].ended
    /\ ws.desired = "Quarantined" => ws'.desired = "Quarantined" /\ ws'.epoch = ws.epoch
    /\ \A e \in Epochs : Live(e)' => Live(e) \/ ws.epoch < e

\* A step that publishes nothing and makes no bearer.
Calm ==
    /\ granted' = granted /\ bearers' = bearers /\ \A e \in Epochs : secret'[e] \in {secret[e], 0}
    /\ \A t \in Tasks : /\ task[t].ended => task'[t].ended
                        /\ task'[t].epoch = task[t].epoch \/ granted[task'[t].epoch].task = t
                        /\ task'[t].settled => task[t].settled \/ task[t].ended
    /\ ws'.epoch = ws.epoch /\ (ws.desired = "Quarantined" => ws'.desired = "Quarantined")
    /\ ws'.receipt = ws.receipt \/ \E t \in Tasks : ws'.receipt = <<t, task[t].epoch>> /\ task[t].ended

\* What a worker's locals record stays true as the others go on.
LEMMA RecordedOn ==
    ASSUME Types, bearers' \in Int, NEW p \in WorkerRec, Shape(p), Behind(p), Recorded(p), Onward
    PROVE  Recorded(p)'
<1>1. p.digest \in Digests /\ p.epoch \in 0 .. MaxEpoch /\ p.digest <= bearers /\ bearers <= bearers' /\ bearers \in Digests
  BY DEF WorkerRec, Recorded, Onward, Types
<1>2. p.digest <= bearers'
  BY SMTT(60), <1>1 DEF Digests
<1>3. p.epoch # 0 => p.epoch \in Epochs
  BY SMTT(60), <1>1 DEF Epochs
<1>4. p.task \in Tasks => p.task # 0
  BY SMTT(60) DEF Tasks
<1>5. ASSUME p.pc \in {"record", "adopt"} \/ Revoking(p) PROVE granted'[p.epoch].task = p.task
  <2>1. p.epoch \in Epochs /\ p.task \in Tasks
    BY <1>5 DEF Revoking, Shape, Numbered
  <2>2. granted[p.epoch].task = p.task
    BY <1>5 DEF Recorded
  <2> QED BY <1>4, <2>1, <2>2 DEF Onward
<1>6. ASSUME p.pc \in Settling PROVE task'[p.task].ended
  <2>1. p.task \in Tasks
    BY <1>6 DEF Shape, Settling
  <2> QED BY <1>6, <2>1 DEF Onward, Recorded
<1>7. ASSUME p.pc \in {"qsecret", "qlease"} \/ (p.pc \in Settling /\ p.plan = "credentials")
      PROVE  ws'.desired = "Quarantined" /\ p.epoch = ws'.epoch
  BY <1>7 DEF Onward, Recorded
<1>8. ASSUME p.pc \in {"unhold", "qlease"}, p.epoch # 0 PROVE ~Live(p.epoch)'
  <2>1. p.epoch <= ws.epoch /\ ~Live(p.epoch) /\ p.epoch \in Epochs
    BY <1>3, <1>8 DEF Behind, Recorded, Settling
  <2>2. ~(ws.epoch < p.epoch)
    BY SMTT(60), <2>1, WsIs, <1>1
  <2> QED BY <2>1, <2>2 DEF Onward
<1> QED BY <1>2, <1>5, <1>6, <1>7, <1>8 DEF Recorded, Revoking

\* A calm step goes on and keeps what is recorded outside the workers.
LEMMA CalmKeeps ==
    ASSUME AttachInv, Kept, Calm
    PROVE  Onward /\ Kept'
<1>1. ASSUME NEW e \in Epochs, Live(e)' PROVE Live(e)
  <2>1. granted[e].task # 0 /\ secret'[e] = granted[e].digest
    BY <1>1 DEF Live, Last, Calm
  <2>2. secret'[e] # 0
    BY <2>1 DEF Kept
  <2>3. secret'[e] = secret[e]
    BY <2>2 DEF Calm
  <2>4. Last(e)
    BY <1>1 DEF Live, Last, Calm
  <2> QED BY <2>1, <2>3, <2>4 DEF Live
<1>2. bearers <= bearers'
  <2>1. bearers \in Int /\ bearers' = bearers
    BY Ints DEF AttachInv, Calm
  <2> QED BY SMTT(60), <2>1
<1>3. Onward
  BY <1>1, <1>2 DEF Onward, Calm
<1>4. \A e \in Epochs : granted'[e].digest <= bearers' /\ (granted'[e].task # 0 => granted'[e].digest # 0)
  BY DEF Kept, Calm
<1>5. ASSUME NEW t \in Tasks PROVE task'[t].epoch # 0 => granted'[task'[t].epoch].task = t
  BY DEF Kept, Calm
<1>6. CASE ws'.receipt = ws.receipt
  <2>1. ASSUME NEW t \in Tasks, task'[t].settled \/ ws'.receipt[1] = t PROVE task'[t].ended
    BY <1>6, <2>1 DEF Kept, Calm
  <2>2. ws'.receipt[2] <= ws'.epoch
    BY <1>6 DEF Kept, Calm
  <2> QED BY <1>3, <1>4, <1>5, <2>1, <2>2 DEF Kept
<1>7. CASE \E t \in Tasks : ws'.receipt = <<t, task[t].epoch>> /\ task[t].ended
  <2>1. PICK u \in Tasks : ws'.receipt = <<u, task[u].epoch>> /\ task[u].ended
    BY <1>7
  <2>2. ws'.receipt[1] = u /\ ws'.receipt[2] = task[u].epoch
    <3>1. <<u, task[u].epoch>>[1] = u /\ <<u, task[u].epoch>>[2] = task[u].epoch
      OBVIOUS
    <3> QED BY <2>1, <3>1
  <2>3. ASSUME NEW t \in Tasks, task'[t].settled \/ ws'.receipt[1] = t PROVE task'[t].ended
    <3>1. task[t].ended
      BY <2>1, <2>2, <2>3 DEF Kept, Calm
    <3> QED BY <3>1 DEF Calm
  <2>4. task[u].epoch \in 0 .. MaxEpoch /\ ws.epoch \in 0 .. MaxEpoch
    BY WsIs DEF AttachInv, Types, TaskRec
  <2>5. task[u].epoch # 0 => task[u].epoch \in Epochs /\ u # 0
    BY SMTT(60), <2>4 DEF Epochs, Tasks
  <2>6. task[u].epoch # 0 => task[u].epoch <= ws.epoch
    BY <2>5 DEF Kept, AttachInv, WsInv
  <2>7. task[u].epoch <= ws.epoch
    BY SMTT(60), <2>4, <2>6
  <2>8. ws'.receipt[2] <= ws'.epoch
    BY <2>2, <2>7 DEF Calm
  <2> QED BY <1>3, <1>4, <1>5, <2>3, <2>8 DEF Kept
<1> QED BY <1>6, <1>7 DEF Calm

\* One worker moves.
LEMMA RecordMoves ==
    ASSUME AttachInv, AttachInv', RecordInv, NEW w \in Workers, NEW r \in WorkerRec, wk' = Put(w, r), Onward, Kept',
           Recorded(r)'
    PROVE  RecordInv'
<1>1. /\ wk'[w] = r
      /\ \A v \in Workers : v # w => wk'[v] = wk[v]
  BY PutIs DEF AttachInv, Types
<1>2. bearers' \in Int
  <2>1. bearers' \in Digests
    BY DEF AttachInv, Types
  <2> QED BY SMTT(60), <2>1 DEF Digests
<1>3. ASSUME NEW v \in Workers PROVE Recorded(wk[v])'
  <2>1. CASE v = w
    BY <1>1, <2>1
  <2>2. CASE v # w
    <3>1. PICK p : p = wk[v]
      OBVIOUS
    <3>2. Recorded(p)'
      BY <1>2, <3>1, WorkerIs, RecordedOn DEF RecordInv
    <3> QED BY <1>1, <2>2, <3>1, <3>2
  <2> QED BY <2>1, <2>2
<1> QED BY <1>3 DEF RecordInv

\* No worker moves.
LEMMA RecordStill ==
    ASSUME AttachInv, AttachInv', RecordInv, wk' = wk, Calm
    PROVE  RecordInv'
<1>1. Onward /\ Kept'
  BY CalmKeeps DEF RecordInv
<1>2. bearers' \in Int
  BY Ints DEF AttachInv, Calm
<1>3. ASSUME NEW v \in Workers PROVE Recorded(wk[v])'
  <2>1. PICK p : p = wk[v]
    OBVIOUS
  <2>2. Recorded(p)'
    BY <1>1, <1>2, <2>1, WorkerIs, RecordedOn DEF RecordInv
  <2> QED BY <2>1, <2>2
<1> QED BY <1>1, <1>3 DEF RecordInv

\* The worker that moves, before its step, is still recorded truly after it.
LEMMA RecordedStays ==
    ASSUME AttachInv, AttachInv', RecordInv, NEW w \in Workers, NEW p, p = wk[w], Onward
    PROVE  Recorded(p)'
<1>1. bearers' \in Int
  <2>1. bearers' \in Digests
    BY DEF AttachInv, Types
  <2> QED BY SMTT(60), <2>1 DEF Digests
<1> QED BY <1>1, WorkerIs, RecordedOn DEF RecordInv

\* A worker stops.
LEMMA RecordStops ==
    ASSUME AttachInv, AttachInv', RecordInv, NEW w \in Workers, Idles(w), Calm
    PROVE  RecordInv'
<1>1. wk' = Put(w, Idle)
  BY DEF Idles, Put
<1>2. 0 <= bearers'
  <2>1. bearers' \in Digests
    BY DEF AttachInv, Types
  <2> QED BY SMTT(60), <2>1 DEF Digests
<1>3. Recorded(Idle)'
  BY <1>2, IdleIs DEF Recorded, Revoking, Attaching, Settling, Idle
<1> QED BY <1>1, <1>3, IdleIs, CalmKeeps, RecordMoves DEF RecordInv

\* A worker that goes from p to step q records nothing new, or what it records is so.
Gentle(q, p) ==
    /\ q \in WorkerSteps /\ q # "stamp"
    /\ q \in Attaching => p.pc \in Attaching
    /\ q \in {"record", "adopt"} => p.pc \in {"record", "adopt"}
    /\ q = "begin" => Revoking(p)
    /\ q \in Settling => p.pc \in Settling
    /\ q \in {"qsecret", "qlease"} => ws'.desired = "Quarantined" /\ p.epoch = ws'.epoch
    /\ q \in {"unhold", "qlease"} /\ p.epoch # 0 => ~Live(p.epoch)'

\* A worker goes on.
LEMMA RecordGoes ==
    ASSUME AttachInv, AttachInv', RecordInv, NEW w \in Workers, NEW q, NEW p, p = wk[w], Goes(w, q), Calm,
           Gentle(q, p)
    PROVE  RecordInv'
<1>2. PICK r \in WorkerRec : wk' = Put(w, r) /\ r.pc = q /\ Like(r, wk[w])
  BY GoesIs DEF AttachInv, Types, Gentle
<1>3. Onward /\ Kept'
  BY CalmKeeps DEF RecordInv
<1>4. Recorded(p)'
  BY <1>3, RecordedStays
<1>5. Recorded(r)'
  BY <1>2, <1>4 DEF Recorded, Revoking, Gentle, Like
<1> QED BY <1>2, <1>3, <1>5, RecordMoves

\* A step that leaves the stores alone, but for a Secret it may delete, is calm.
LEMMA CalmStay ==
    ASSUME Types, ws' = ws, granted' = granted, bearers' = bearers, task' = task,
           secret' = secret \/ \E e : secret' = [secret EXCEPT ![e] = 0]
    PROVE  Calm
<1>1. \A e \in Epochs : secret'[e] \in {secret[e], 0}
  BY SecretGone
<1> QED BY <1>1 DEF Calm

\* A step that writes the workspace, but for its epoch and its receipt, is calm.
LEMMA CalmWrite ==
    ASSUME granted' = granted, bearers' = bearers, task' = task, secret' = secret, ws'.epoch = ws.epoch,
           ws'.receipt = ws.receipt, ws.desired = "Quarantined" => ws'.desired = "Quarantined"
    PROVE  Calm
BY DEF Calm

\* A step of an attempt records no more than its bearer.
LEMMA RecordAttempt ==
    ASSUME AttachInv, AttachInv', RecordInv, NEW w \in Workers, NEW r \in WorkerRec, wk' = Put(w, r), Onward, Kept',
           r.digest <= bearers', r.pc \in Attaching => ~r.keep,
           r.pc \in Attaching \cup {"clean", "unsecret", "unlease", "drop"}
    PROVE  RecordInv'
<1>1. Recorded(r)'
  BY DEF Recorded, Revoking, Attaching, Settling
<1> QED BY <1>1, RecordMoves

\* What is recorded of one worker.
LEMMA RecordedIs ==
    ASSUME RecordInv, NEW w \in Workers
    PROVE  Kept /\ Recorded(wk[w]) /\ wk[w].digest <= bearers /\ (wk[w].pc \in Attaching => ~wk[w].keep)
BY DEF RecordInv, Recorded

\* A worker goes to a step of the cleanup.
LEMMA RecordCleans ==
    ASSUME AttachInv, AttachInv', RecordInv, NEW w \in Workers, NEW q \in {"clean", "unlease"}, Goes(w, q), Calm
    PROVE  RecordInv'
<1>1. PICK p : p = wk[w]
  OBVIOUS
<1>2. Gentle(q, p)
  BY DEF Gentle, WorkerSteps, Attaching, Settling
<1> QED BY <1>1, <1>2, RecordGoes

\* The Lease is taken and the workspace is read.
LEMMA RecordAcquire ==
    ASSUME AttachInv, AttachInv', RecordInv, NEW w \in Workers, acquireLease(w)
    PROVE  RecordInv'
<1>1. At(w, "lease") /\ Calm
  BY CalmStay DEF acquireLease, AttachInv
<1>2. CASE LeaseFits(Task(w))
  <2> DEFINE c == lease.holder # Task(w) \/ lease.expired
             r == [wk[w] EXCEPT !.pc = "read", !.claimed = c]
  <2>1. c \in BOOLEAN /\ wk' = Put(w, r)
    BY <1>2 DEF acquireLease, Put
  <2> HIDE DEF c
  <2>2. "read" \in WorkerSteps
    BY DEF WorkerSteps
  <2>3. r \in WorkerRec /\ r.pc = "read" /\ r.digest = wk[w].digest /\ r.keep = wk[w].keep
    BY <2>1, <2>2, WorkerIs DEF WorkerRec
  <2> HIDE DEF r
  <2>4. r.digest <= bearers' /\ ~r.keep /\ r.pc \in Attaching
    BY <1>1, <2>3, RecordedIs DEF At, Attaching, Calm
  <2>5. Onward /\ Kept'
    BY <1>1, CalmKeeps, RecordedIs
  <2> QED BY <2>1, <2>3, <2>4, <2>5, RecordAttempt
<1>3. CASE ~LeaseFits(Task(w))
  <2>1. Idles(w)
    BY <1>3 DEF acquireLease, Stops
  <2> QED BY <1>1, <2>1, RecordStops
<1> QED BY <1>2, <1>3

\* The attempt takes a number.
LEMMA RecordRead ==
    ASSUME AttachInv, AttachInv', RecordInv, NEW w \in Workers, readWorkspace(w)
    PROVE  RecordInv'
<1>1. At(w, "read") /\ Calm
  BY CalmStay DEF readWorkspace, AttachInv
<1>2. CASE Goes(w, "clean")
  BY <1>1, <1>2, RecordCleans
<1>3. CASE /\ EpochsLeft
           /\ wk' = [wk EXCEPT ![w] = [@ EXCEPT !.pc = "secret", !.epoch = nextWorkspaceAttachmentEpoch]]
  <2> DEFINE e == nextWorkspaceAttachmentEpoch
             r == [wk[w] EXCEPT !.pc = "secret", !.epoch = e]
  <2>1. wk' = Put(w, r)
    BY <1>3 DEF Put
  <2>2. e = ws.epoch + 1 /\ e <= MaxEpoch /\ ws.epoch \in 0 .. MaxEpoch
    BY <1>3, NextEpoch DEF AttachInv, EpochsLeft, Types, WsRec
  <2>3. e \in 0 .. MaxEpoch
    BY SMTT(60), <2>2, AttachmentAssumption
  <2> HIDE DEF e
  <2>4. "secret" \in WorkerSteps
    BY DEF WorkerSteps
  <2>5. r \in WorkerRec /\ r.pc = "secret" /\ r.digest = wk[w].digest /\ r.keep = wk[w].keep
    BY <2>3, <2>4, WorkerIs DEF WorkerRec
  <2> HIDE DEF r
  <2>6. r.digest <= bearers' /\ ~r.keep /\ r.pc \in Attaching
    BY <1>1, <2>5, RecordedIs DEF At, Attaching, Calm
  <2>7. Onward /\ Kept'
    BY <1>1, CalmKeeps, RecordedIs
  <2> QED BY <2>1, <2>5, <2>6, <2>7, RecordAttempt
<1> QED BY <1>2, <1>3 DEF readWorkspace

\* A new bearer is above every published one, so the Secret that is made for it is of no grant.
LEMMA NewBearer ==
    ASSUME AttachInv, Kept, NEW e \in Epochs, bearers < MaxBearers, bearers' = bearers + 1,
           secret' = [secret EXCEPT ![e] = bearers'], ws' = ws, task' = task, granted' = granted
    PROVE  /\ Onward /\ Kept' /\ \A f \in Epochs : Live(f)' => Live(f)
<1>1. /\ \A f \in Epochs : secret'[f] = IF f = e THEN bearers' ELSE secret[f]
  BY SecretMade DEF AttachInv
<1>2. \A f \in Epochs : granted[f].digest \in Digests /\ granted[f].digest <= bearers
  BY DEF AttachInv, Types, GrantRec, Kept
<1>3. bearers \in Digests
  BY DEF AttachInv, Types
<1>4. bearers <= bearers' /\ \A f \in Epochs : granted[f].digest <= bearers' /\ granted[f].digest # bearers'
  BY SMTT(60), <1>2, <1>3 DEF Digests
<1>5. \A f \in Epochs : Live(f)' => Live(f)
  BY <1>1, <1>4 DEF Live, Last
<1>6. Onward
  BY <1>4, <1>5 DEF Onward
<1>7. Kept'
  BY <1>4 DEF Kept
<1> QED BY <1>5, <1>6, <1>7

\* The Secret is created or recovered.
LEMMA RecordSecret ==
    ASSUME AttachInv, AttachInv', RecordInv, NEW w \in Workers, createSecret(w)
    PROVE  RecordInv'
<1>1. At(w, "secret") /\ ws' = ws /\ task' = task /\ granted' = granted
  BY DEF createSecret
<1>2. wk[w].epoch \in Epochs
  BY <1>1, WorkerIs DEF Shape, Numbered, At
<1>3. ASSUME NEW d \in Digests, d <= bearers', wk' = [wk EXCEPT ![w] = [@ EXCEPT !.pc = "fence", !.digest = d]],
             Onward, Kept'
      PROVE  RecordInv'
  <2> DEFINE r == [wk[w] EXCEPT !.pc = "fence", !.digest = d]
  <2>1. wk' = Put(w, r)
    BY <1>3 DEF Put
  <2>2. "fence" \in WorkerSteps
    BY DEF WorkerSteps
  <2>3. r \in WorkerRec /\ r.pc = "fence" /\ r.digest = d /\ r.keep = wk[w].keep
    BY <2>2, WorkerIs DEF WorkerRec
  <2> HIDE DEF r
  <2>4. r.digest <= bearers' /\ ~r.keep /\ r.pc \in Attaching
    BY <1>1, <1>3, <2>3, RecordedIs DEF At, Attaching
  <2> QED BY <1>3, <2>1, <2>3, <2>4, RecordAttempt
<1>4. CASE /\ secret[wk[w].epoch] = 0 /\ bearers < MaxBearers /\ bearers' = bearers + 1
           /\ secret' = [secret EXCEPT ![wk[w].epoch] = bearers'] /\ faults' = faults
           /\ wk' = [wk EXCEPT ![w] = [@ EXCEPT !.pc = "fence", !.digest = bearers']]
  <2>1. Onward /\ Kept'
    BY <1>1, <1>2, <1>4, NewBearer, RecordedIs
  <2>2. bearers' \in Digests
    BY DEF AttachInv, Types
  <2>3. bearers' <= bearers'
    BY SMTT(60), <2>2 DEF Digests
  <2> QED BY <1>3, <1>4, <2>1, <2>2, <2>3
<1>5. CASE /\ secret[wk[w].epoch] # 0 /\ UNCHANGED <<secret, bearers, faults>>
           /\ wk' = [wk EXCEPT ![w] = [@ EXCEPT !.pc = "fence", !.digest = secret[wk[w].epoch]]]
  <2>1. Calm
    BY <1>1, <1>5, CalmStay DEF AttachInv
  <2>2. Onward /\ Kept'
    BY <2>1, CalmKeeps, RecordedIs
  <2>3. secret[wk[w].epoch] \in 0 .. bearers /\ bearers \in Digests
    BY <1>2 DEF AttachInv, Types
  <2>4. secret[wk[w].epoch] \in Digests /\ secret[wk[w].epoch] <= bearers
    BY SMTT(60), <2>3, AttachmentAssumption DEF Digests
  <2> QED BY <1>3, <1>5, <2>2, <2>4
<1>6. CASE Goes(w, "clean") /\ Fault /\ UNCHANGED <<secret, bearers>>
  <2>1. Calm
    BY <1>1, <1>6, CalmStay DEF AttachInv
  <2> QED BY <1>6, <2>1, RecordCleans
<1> QED BY <1>4, <1>5, <1>6 DEF createSecret

\* The workspace is read again and the Lease is renewed.
LEMMA RecordFence ==
    ASSUME AttachInv, AttachInv', RecordInv, NEW w \in Workers, revalidate(w) \/ renewAttachmentLeaseFence(w)
    PROVE  RecordInv'
<1>1. wk[w].pc \in {"fence", "renew"} /\ Calm
  BY CalmStay DEF revalidate, renewAttachmentLeaseFence, At, AttachInv
<1>2. CASE Goes(w, "clean")
  BY <1>1, <1>2, RecordCleans
<1>3. ASSUME NEW q \in {"renew", "patch"}, Goes(w, q) PROVE RecordInv'
  <2>1. PICK p : p = wk[w]
    OBVIOUS
  <2>2. Gentle(q, p)
    BY <1>1, <1>3, <2>1 DEF Gentle, WorkerSteps, Attaching, Settling
  <2> QED BY <1>1, <1>3, <2>1, <2>2, RecordGoes
<1>4. CASE wk' = [wk EXCEPT ![w] = [@ EXCEPT !.pc = "clean", !.keep = TRUE]]
  <2> DEFINE r == [wk[w] EXCEPT !.pc = "clean", !.keep = TRUE]
  <2>1. wk' = Put(w, r)
    BY <1>4 DEF Put
  <2>2. "clean" \in WorkerSteps
    BY DEF WorkerSteps
  <2>3. r \in WorkerRec /\ r.pc = "clean" /\ r.digest = wk[w].digest
    BY <2>2, WorkerIs DEF WorkerRec
  <2> HIDE DEF r
  <2>4. r.digest <= bearers' /\ r.pc \notin Attaching
    BY <1>1, <2>3, RecordedIs DEF Attaching, Calm
  <2>5. Onward /\ Kept'
    BY <1>1, CalmKeeps, RecordedIs
  <2> QED BY <2>1, <2>3, <2>4, <2>5, RecordAttempt
<1> QED BY <1>2, <1>3, <1>4 DEF revalidate, renewAttachmentLeaseFence, Unfenced

\* A publication takes nothing back: its epoch is above every published one, and no quarantined
\* workspace is attached to.
LEMMA PublishKeeps ==
    ASSUME AttachInv, Kept, NEW w \in Workers, Recorded(wk[w]), At(w, "patch"), w \in fresh, Writes(w, Attached(w)),
           Grants(w), secret' = secret, task' = task, bearers' = bearers
    PROVE  /\ Onward /\ Kept'
           /\ \A f \in Epochs : granted[f].task # 0 => f # wk[w].epoch
           /\ \A f \in Epochs : f # wk[w].epoch => granted'[f] = granted[f]
<1>1. /\ wk[w].epoch = ws.epoch + 1 /\ wk[w].epoch \in Epochs
      /\ granted'[wk[w].epoch].task = wk[w].task /\ granted'[wk[w].epoch].digest = wk[w].digest
      /\ \A f \in Epochs : f # wk[w].epoch => granted'[f] = granted[f]
  BY AttachPublish
<1>2. ws.epoch \in 0 .. MaxEpoch /\ ws'.epoch = wk[w].epoch /\ ws'.receipt = ws.receipt
      /\ ws.receipt \in (0 .. NumTasks) \X (0 .. MaxEpoch)
  BY WsIs, AttachedIs DEF AttachInv, Writes
<1>3. ws.epoch < wk[w].epoch /\ \A f \in Epochs : f <= ws.epoch => f # wk[w].epoch
  BY SMTT(60), <1>1, <1>2 DEF Epochs
<1>4. \A f \in Epochs : granted[f].task # 0 => f # wk[w].epoch
  BY <1>3 DEF AttachInv, WsInv
<1>5. ws.desired # "Quarantined"
  <2>1. Valid(wk[w].task)
    BY WorkerIs DEF Fits, At
  <2> QED BY <2>1 DEF Valid, Reusable, Handshake, Rotatable
<1>6. \A f \in Epochs : Live(f)' => Live(f) \/ ws.epoch < f
  <2>1. ASSUME NEW f \in Epochs, Live(f)', f # wk[w].epoch PROVE Live(f)
    <3>1. granted[f].task # 0 /\ secret[f] = granted[f].digest
      BY <1>1, <2>1 DEF Live
    <3>2. ASSUME NEW h \in Epochs, granted[h].task = granted[f].task PROVE h <= f
      <4>1. granted'[h].task = granted'[f].task
        BY <1>1, <1>4, <2>1, <3>1, <3>2
      <4> QED BY <2>1, <4>1 DEF Live, Last
    <3> QED BY <3>1, <3>2 DEF Live, Last
  <2> QED BY <1>3, <2>1
<1>7. bearers <= bearers'
  <2>1. bearers \in Int
    BY Ints DEF AttachInv
  <2> QED BY SMTT(60), <2>1
<1>8. Onward
  BY <1>1, <1>4, <1>5, <1>6, <1>7 DEF Onward
<1>9. \A f \in Epochs : granted'[f].digest <= bearers' /\ (granted'[f].task # 0 => granted'[f].digest # 0)
  <2>1. wk[w].digest <= bearers /\ wk[w].digest # 0
    BY WorkerIs DEF Recorded, Shape, At
  <2> QED BY <1>1, <2>1 DEF Kept
<1>10. ASSUME NEW t \in Tasks, task[t].epoch # 0 PROVE granted'[task[t].epoch].task = t
  <2>1. task[t].epoch \in 0 .. MaxEpoch
    BY DEF AttachInv, Types, TaskRec
  <2>2. task[t].epoch \in Epochs /\ t # 0
    BY SMTT(60), <1>10, <2>1 DEF Epochs, Tasks
  <2>3. granted[task[t].epoch].task = t
    BY <1>10 DEF Kept
  <2> QED BY <1>1, <1>4, <2>2, <2>3
<1>11. ws'.receipt[2] <= ws'.epoch
  <2>1. ws.receipt[2] \in 0 .. MaxEpoch
    BY <1>2
  <2>2. ws.receipt[2] <= ws.epoch
    BY DEF Kept
  <2>3. ws.receipt[2] <= wk[w].epoch
    BY SMTT(60), <1>1, <1>2, <2>1, <2>2
  <2> QED BY <1>2, <2>3
<1>12. Kept'
  BY <1>2, <1>9, <1>10, <1>11 DEF Kept
<1> QED BY <1>1, <1>4, <1>8, <1>12

\* The attachment is published.
LEMMA RecordPatch ==
    ASSUME AttachInv, AttachInv', RecordInv, NEW w \in Workers, patchAttachment(w)
    PROVE  RecordInv'
<1>1. At(w, "patch") /\ secret' = secret /\ task' = task /\ bearers' = bearers
  BY DEF patchAttachment
<1>2. CASE /\ w \in fresh /\ Writes(w, Attached(w)) /\ Grants(w)
           /\ Goes(w, IF ws.att = NoAtt THEN "record" ELSE "drop") \/ Goes(w, "clean")
  <2>1. PICK q \in {"record", "drop", "clean"} : Goes(w, q)
    BY <1>2
  <2>2. q \in WorkerSteps
    BY DEF WorkerSteps
  <2>3. PICK r \in WorkerRec : wk' = Put(w, r) /\ r.pc = q /\ Like(r, wk[w])
    BY <2>1, <2>2, GoesIs DEF AttachInv, Types
  <2>4. Onward /\ Kept'
    BY <1>1, <1>2, RecordedIs, PublishKeeps
  <2>5. granted'[wk[w].epoch].task = wk[w].task
    BY <1>1, <1>2, AttachPublish
  <2>6. granted'[r.epoch].task = r.task /\ r.digest <= bearers'
    BY <1>1, <2>3, <2>5, RecordedIs DEF Like
  <2>7. Recorded(r)'
    BY <2>3, <2>6 DEF Recorded, Revoking, Attaching, Settling
  <2> QED BY <2>3, <2>4, <2>7, RecordMoves
<1>3. CASE UNCHANGED <<ws, fresh, granted>> /\ Goes(w, "fence")
  <2>1. PICK p : p = wk[w]
    OBVIOUS
  <2>2. Gentle("fence", p)
    BY <1>1, <2>1 DEF Gentle, WorkerSteps, Attaching, Settling, At
  <2>3. Calm
    BY <1>1, <1>3, CalmStay DEF AttachInv
  <2> QED BY <1>3, <2>1, <2>2, <2>3, RecordGoes
<1>4. CASE UNCHANGED <<ws, fresh, granted>> /\ Goes(w, "clean")
  <2>1. Calm
    BY <1>1, <1>4, CalmStay DEF AttachInv
  <2> QED BY <1>4, <2>1, RecordCleans
<1> QED BY <1>2, <1>3, <1>4 DEF patchAttachment, PatchFits, Grants

\* The cleanup.
LEMMA RecordCleanup ==
    ASSUME AttachInv, AttachInv', RecordInv, NEW w \in Workers, cleanupReads(w) \/ cleanupSecret(w) \/ cleanupLease(w)
    PROVE  RecordInv'
<1>1. CASE cleanupReads(w)
  <2>1. Calm
    BY <1>1, CalmStay DEF cleanupReads, AttachInv
  <2>2. CASE Stops(w)
    BY <2>1, <2>2, RecordStops DEF Stops
  <2>3. ASSUME NEW q \in {"unsecret", "unlease"}, NEW c \in BOOLEAN,
               wk' = [wk EXCEPT ![w] = [@ EXCEPT !.pc = q, !.claimed = c]]
        PROVE  RecordInv'
    <3> DEFINE r == [wk[w] EXCEPT !.pc = q, !.claimed = c]
    <3>1. wk' = Put(w, r)
      BY <2>3 DEF Put
    <3>2. q \in WorkerSteps
      BY <2>3 DEF WorkerSteps
    <3>3. r \in WorkerRec /\ r.pc = q /\ r.digest = wk[w].digest
      BY <3>2, WorkerIs DEF WorkerRec
    <3> HIDE DEF r
    <3>4. r.digest <= bearers' /\ r.pc \notin Attaching
      BY <2>1, <2>3, <3>3, RecordedIs DEF Attaching, Calm
    <3>5. Onward /\ Kept'
      BY <2>1, CalmKeeps, RecordedIs
    <3> QED BY <3>1, <3>3, <3>4, <3>5, RecordAttempt
  <2>4. CASE ~Stops(w)
    <3> DEFINE q == IF wk[w].digest # 0 /\ ~wk[w].keep THEN "unsecret" ELSE "unlease"
               c == wk[w].claimed /\ ws.att = NoAtt
    <3>1. q \in {"unsecret", "unlease"} /\ c \in BOOLEAN
      BY WorkerIs
    <3>2. wk' = [wk EXCEPT ![w] = [@ EXCEPT !.pc = q, !.claimed = c]]
      BY <1>1, <2>4 DEF cleanupReads
    <3> HIDE DEF q, c
    <3> QED BY <3>1, <3>2, <2>3
  <2> QED BY <2>2, <2>4
<1>2. CASE cleanupSecret(w)
  <2>1. Calm /\ Goes(w, "unlease")
    BY <1>2, CalmStay DEF cleanupSecret, AttachInv
  <2> QED BY <2>1, RecordCleans
<1>3. CASE cleanupLease(w)
  <2>1. Calm /\ Idles(w)
    BY <1>3, CalmStay DEF cleanupLease, Stops, AttachInv
  <2> QED BY <2>1, RecordStops
<1> QED BY <1>1, <1>2, <1>3

\* A Task that has not ended resumes its workspace or begins an attempt.
LEMMA RecordBegins ==
    ASSUME AttachInv, AttachInv', RecordInv, NEW w \in Workers, NEW t \in Tasks, resumeWorkspace(w, t) \/ beginAttach(w, t)
    PROVE  RecordInv'
<1>1. CASE resumeWorkspace(w, t)
  <2>1. /\ granted' = granted /\ bearers' = bearers /\ task' = task /\ secret' = secret /\ wk' = wk
        /\ ws.desired = "Suspended"
    BY <1>1 DEF resumeWorkspace
  <2>2. ws' = [ws EXCEPT !.desired = "Ready", !.demand = t, !.seen = FALSE] \/ ws' = [ws EXCEPT !.demand = t]
    BY <1>1 DEF resumeWorkspace, WritesLast
  <2>3. ws'.epoch = ws.epoch /\ ws'.receipt = ws.receipt
    BY <2>2 DEF AttachInv, Types, WsRec
  <2>4. Calm
    BY <2>1, <2>3, CalmWrite
  <2> QED BY <2>1, <2>4, RecordStill
<1>2. CASE beginAttach(w, t)
  <2>1. Calm
    BY <1>2, CalmStay DEF beginAttach, AttachInv
  <2> DEFINE r == [Idle EXCEPT !.pc = "lease", !.task = t]
  <2>2. wk' = Put(w, r)
    BY <1>2 DEF beginAttach, Begins, Put
  <2>3. t \in 0 .. NumTasks
    BY SMTT(60) DEF Tasks
  <2>4. "lease" \in WorkerSteps
    BY DEF WorkerSteps
  <2>5. r \in WorkerRec /\ r.pc = "lease" /\ r.digest = 0 /\ r.keep = FALSE
    BY <2>3, <2>4, IdleIs DEF WorkerRec
  <2> HIDE DEF r
  <2>6. 0 <= bearers'
    <3>1. bearers' \in Digests
      BY DEF AttachInv, Types
    <3> QED BY SMTT(60), <3>1 DEF Digests
  <2>7. r.digest <= bearers' /\ ~r.keep /\ r.pc \in Attaching
    BY <2>5, <2>6 DEF Attaching
  <2>8. Onward /\ Kept'
    BY <2>1, CalmKeeps, RecordedIs
  <2> QED BY <2>2, <2>5, <2>7, <2>8, RecordAttempt
<1> QED BY <1>1, <1>2

\* An enforced attachment is adopted.
LEMMA RecordAdopt ==
    ASSUME AttachInv, AttachInv', RecordInv, NEW w \in Workers, NEW t \in Tasks, adoptAttachment(w, t)
    PROVE  RecordInv'
<1>1. ws.att.task = t
  BY DEF adoptAttachment, Adoptable
<1>2. Calm
  BY CalmStay DEF adoptAttachment, AttachInv
<1> DEFINE r == [Idle EXCEPT !.pc = "adopt", !.task = t, !.epoch = ws.att.epoch]
<1>3. wk' = Put(w, r)
  BY DEF adoptAttachment, Put
<1>4. t \in 0 .. NumTasks /\ ws.att.epoch \in 0 .. MaxEpoch
  <2>1. t \in 0 .. NumTasks
    BY SMTT(60) DEF Tasks
  <2> QED BY <2>1, WsIs DEF AttachInv
<1>5. "adopt" \in WorkerSteps
  BY DEF WorkerSteps
<1>6. r \in WorkerRec /\ r.pc = "adopt" /\ r.task = t /\ r.epoch = ws.att.epoch /\ r.digest = 0
  BY <1>4, <1>5, IdleIs DEF WorkerRec
<1> HIDE DEF r
<1>7. 0 <= bearers'
  <2>1. bearers' \in Digests
    BY DEF AttachInv, Types
  <2> QED BY SMTT(60), <2>1 DEF Digests
<1>8. PICK p \in WorkerRec : p = r
  BY <1>6
<1>9. granted'[p.epoch].task = p.task
  BY <1>1, <1>2, <1>6, <1>8, TaskAttached DEF Calm
<1>10. Recorded(p)'
  BY <1>6, <1>7, <1>8, <1>9 DEF Recorded, Revoking, Attaching, Settling
<1>11. Onward /\ Kept'
  BY <1>2, CalmKeeps, RecordedIs
<1> QED BY <1>3, <1>8, <1>10, <1>11, RecordMoves

\* The stamp and the demand are cleared, and the epoch is recorded on the Task.
LEMMA RecordMarks ==
    ASSUME AttachInv, AttachInv', RecordInv, NEW w \in Workers,
           recordACPWorkspaceDetachAction(w) \/ markACPTaskAttachmentEpoch(w) \/ dropExpiredBearer(w)
    PROVE  RecordInv'
<1>1. CASE recordACPWorkspaceDetachAction(w)
  <2>1. /\ granted' = granted /\ bearers' = bearers /\ task' = task /\ secret' = secret /\ wk[w].pc = "adopt"
    BY <1>1 DEF recordACPWorkspaceDetachAction, At
  <2>2. ws' = [ws EXCEPT !.stamp = 0, !.demand = 0] \/ ws' = ws
    BY <1>1 DEF recordACPWorkspaceDetachAction, Writes
  <2>3. ws'.epoch = ws.epoch /\ ws'.receipt = ws.receipt /\ ws'.desired = ws.desired
    BY <2>2 DEF AttachInv, Types, WsRec
  <2>4. Calm
    BY <2>1, <2>3, CalmWrite
  <2>5. CASE Goes(w, "record")
    <3>1. PICK p : p = wk[w]
      OBVIOUS
    <3>2. Gentle("record", p)
      BY <2>1, <3>1 DEF Gentle, WorkerSteps, Attaching, Settling
    <3> QED BY <2>4, <2>5, <3>1, <3>2, RecordGoes
  <2>6. CASE Idles(w)
    BY <2>4, <2>6, RecordStops
  <2> QED BY <1>1, <2>5, <2>6 DEF recordACPWorkspaceDetachAction, Stops
<1>2. CASE markACPTaskAttachmentEpoch(w)
  <2>1. /\ granted' = granted /\ bearers' = bearers /\ ws' = ws /\ secret' = secret /\ wk[w].pc = "record" /\ Idles(w)
    BY <1>2 DEF markACPTaskAttachmentEpoch, At, Stops
  <2>2. wk[w].task \in Tasks /\ task' = SetEpoch(wk[w].task, wk[w].epoch)
    BY <1>2, WorkerIs DEF markACPTaskAttachmentEpoch, Shape, At, Task, SetEpoch
  <2>3. granted[wk[w].epoch].task = wk[w].task
    BY <2>1, RecordedIs DEF Recorded
  <2>4. /\ task'[wk[w].task].epoch = wk[w].epoch
        /\ \A u \in Tasks : /\ task'[u].settled = task[u].settled /\ task'[u].ended = task[u].ended
                            /\ u # wk[w].task => task'[u] = task[u]
    BY <2>2, WorkerIs, TaskIs
  <2>5. Calm
    BY <2>1, <2>3, <2>4 DEF Calm
  <2> QED BY <2>1, <2>5, RecordStops
<1>3. CASE dropExpiredBearer(w)
  <2>1. Calm /\ Idles(w)
    BY <1>3, CalmStay DEF dropExpiredBearer, Stops, AttachInv
  <2> QED BY <2>1, RecordStops
<1> QED BY <1>1, <1>2, <1>3

\* A settlement begins, or its Task is marked.
LEMMA RecordSettle ==
    ASSUME AttachInv, AttachInv', RecordInv, NEW w \in Workers, NEW t \in Tasks, settleACPClassWorkspace(w, t)
    PROVE  RecordInv'
<1>1. task[t].ended /\ ws' = ws /\ granted' = granted /\ bearers' = bearers /\ secret' = secret
  BY DEF settleACPClassWorkspace
<1>2. CASE Covered(t) \/ ByOther(t)
  <2>1. task' = SetSettled(t) /\ wk' = wk
    BY <1>2 DEF settleACPClassWorkspace, SetSettled
  <2>2. \A u \in Tasks : /\ task'[u].ended = task[u].ended /\ task'[u].epoch = task[u].epoch
                         /\ u # t => task'[u] = task[u]
    BY <2>1, WorkerIs, TaskIs
  <2>3. Calm
    BY <1>1, <2>2 DEF Calm
  <2> QED BY <2>1, <2>3, RecordStill
<1>3. CASE ~(Covered(t) \/ ByOther(t))
  <2>1. ws.att # NoAtt => ws.att.task = t
    BY <1>3 DEF ByOther
  <2>2. ws.att # NoAtt => granted[ws.epoch].task = t /\ ws.epoch = ws.att.epoch
    BY <2>1, TaskAttached
  <2>3. Calm /\ task'[t].ended
    <3>1. CASE ws.att # NoAtt
      <4>1. task' = SetEpoch(t, ws.att.epoch)
        BY <1>3, <3>1 DEF settleACPClassWorkspace, SetEpoch
      <4>2. /\ task'[t].epoch = ws.att.epoch
            /\ \A u \in Tasks : /\ task'[u].settled = task[u].settled /\ task'[u].ended = task[u].ended
                                /\ u # t => task'[u] = task[u]
        BY <4>1, WsIs, TaskIs DEF AttachInv
      <4> QED BY <1>1, <2>2, <3>1, <4>2 DEF Calm
    <3>2. CASE ws.att = NoAtt
      <4>1. task' = task
        BY <1>3, <3>2 DEF settleACPClassWorkspace
      <4> QED BY <1>1, <4>1 DEF Calm
    <3> QED BY <3>1, <3>2
  <2> DEFINE k == Stamped
             c == ws.att # NoAtt
             q == IF ws.epoch > 0 THEN "stamp" ELSE "suspend"
             d == DetachPlan(t)
             r == [Idle EXCEPT !.pc = q, !.task = t, !.epoch = ws.epoch, !.keep = k, !.claimed = c, !.plan = d]
  <2>4. wk' = Put(w, r)
    BY <1>3 DEF settleACPClassWorkspace, Put
  <2>5. k \in BOOLEAN /\ c \in BOOLEAN /\ d \in Plans /\ (d = "credentials" => ws.desired = "Quarantined")
    BY PlanIs DEF Stamped
  <2>6. q \in {"stamp", "suspend"} /\ q \in WorkerSteps
    BY DEF WorkerSteps
  <2>7. t \in 0 .. NumTasks /\ ws.epoch \in 0 .. MaxEpoch
    <3>1. t \in 0 .. NumTasks
      BY SMTT(60) DEF Tasks
    <3> QED BY <3>1, WsIs DEF AttachInv
  <2>8. c => granted[ws.epoch].task = t
    BY <2>2
  <2> HIDE DEF k, c, q, d
  <2>9. r \in WorkerRec /\ r.pc = q /\ r.task = t /\ r.epoch = ws.epoch /\ r.digest = 0 /\ r.claimed = c /\ r.plan = d
    BY <2>5, <2>6, <2>7, IdleIs DEF WorkerRec
  <2> HIDE DEF r
  <2>10. PICK p \in WorkerRec : p = r
    BY <2>9
  <2>11. 0 <= bearers'
    <3>1. bearers' \in Digests
      BY DEF AttachInv, Types
    <3> QED BY SMTT(60), <3>1 DEF Digests
  <2>12. /\ p.digest <= bearers' /\ p.pc \in {"stamp", "suspend"} /\ task'[p.task].ended
         /\ p.claimed => granted'[p.epoch].task = p.task
         /\ p.plan = "credentials" => ws'.desired = "Quarantined" /\ p.epoch = ws'.epoch
    BY <1>1, <2>3, <2>5, <2>6, <2>8, <2>9, <2>10, <2>11
  <2>13. Recorded(p)'
    BY <2>12 DEF Recorded, Revoking, Attaching, Settling
  <2>14. Onward /\ Kept'
    BY <2>3, CalmKeeps, RecordedIs
  <2> QED BY <2>4, <2>10, <2>13, <2>14, RecordMoves
<1> QED BY <1>2, <1>3

\* The stamp is written and the attachment is taken away.
LEMMA RecordRevoke ==
    ASSUME AttachInv, AttachInv', RecordInv, NEW w \in Workers, markACPWorkspaceRevocationStarted(w) \/ BeginRevocation(w)
    PROVE  RecordInv'
<1>1. granted' = granted /\ bearers' = bearers /\ task' = task /\ secret' = secret
  BY DEF markACPWorkspaceRevocationStarted, BeginRevocation
<1>2. CASE markACPWorkspaceRevocationStarted(w)
  <2> DEFINE q == IF wk[w].claimed THEN "begin" ELSE "final"
  <2>1. ws' = ws \/ ws' = [ws EXCEPT !.stamp = wk[w].epoch]
    BY <1>2 DEF markACPWorkspaceRevocationStarted, Writes
  <2>2. ws'.epoch = ws.epoch /\ ws'.receipt = ws.receipt /\ ws'.desired = ws.desired
    BY <2>1 DEF AttachInv, Types, WsRec
  <2>3. Calm
    BY <1>1, <2>2, CalmWrite
  <2>4. CASE Goes(w, q)
    <3>1. PICK p : p = wk[w]
      OBVIOUS
    <3>2. PICK x \in {"begin", "final"} : x = q /\ (x = "begin" => p.claimed)
      BY <3>1
    <3>3. Gentle(x, p)
      BY <1>2, <3>1, <3>2 DEF Gentle, WorkerSteps, Attaching, Settling, Revoking, markACPWorkspaceRevocationStarted, At
    <3> HIDE DEF q
    <3> QED BY <2>3, <2>4, <3>1, <3>2, <3>3, RecordGoes
  <2>5. CASE Idles(w)
    BY <2>3, <2>5, RecordStops
  <2> QED BY <1>2, <2>4, <2>5 DEF markACPWorkspaceRevocationStarted, Stops
<1>3. CASE BeginRevocation(w)
  <2> DEFINE high == Highest({ws.epoch, wk[w].epoch, ws.attached})
  <2>1. high = ws.epoch
    <3>1. wk[w].epoch <= ws.epoch /\ ws.attached <= ws.epoch
      BY <1>3, WorkerIs DEF BeginRevocation, Behind, At, Settling, AttachInv, WsInv
    <3> QED BY <3>1, Ints, HighestIs DEF AttachInv
  <2>2. Idles(w) /\ (ws' = ws \/ ws' = [ws EXCEPT !.att = NoAtt, !.epoch = high, !.seen = FALSE])
    BY <1>3 DEF BeginRevocation, WritesLast, Stops
  <2> HIDE DEF high
  <2>3. ws'.epoch = ws.epoch /\ ws'.receipt = ws.receipt /\ ws'.desired = ws.desired
    BY <2>1, <2>2 DEF AttachInv, Types, WsRec
  <2>4. Calm
    BY <1>1, <2>3, CalmWrite
  <2> QED BY <2>2, <2>4, RecordStops
<1> QED BY <1>2, <1>3

\* A deleted Secret holds no published bearer.
LEMMA GoneNotLive ==
    ASSUME Types, Kept, NEW e \in Epochs, secret' = [secret EXCEPT ![e] = 0], granted' = granted
    PROVE  ~Live(e)'
<1>1. secret'[e] = 0
  BY SecretGone
<1> QED BY <1>1 DEF Live, Last, Kept

\* The bearer and the Lease are deleted.
LEMMA RecordFinal ==
    ASSUME AttachInv, AttachInv', RecordInv, NEW w \in Workers,
           \/ FinalizeRevocation(w) \/ finalizeSecret(w) \/ deleteWorkspaceOwnedAttachmentLeaseForEpoch(w)
           \/ waitForRelease(w)
    PROVE  RecordInv'
<1>1. Calm
  BY CalmStay DEF FinalizeRevocation, finalizeSecret, deleteWorkspaceOwnedAttachmentLeaseForEpoch, waitForRelease, AttachInv
<1>2. PICK p : p = wk[w]
  OBVIOUS
<1>3. CASE FinalizeRevocation(w)
  <2>1. PICK q \in {"bearer", "late"} : Goes(w, q)
    BY <1>3 DEF FinalizeRevocation
  <2>2. Gentle(q, p)
    BY <1>2, <1>3, <2>1 DEF Gentle, WorkerSteps, Attaching, Settling, FinalizeRevocation, At
  <2> QED BY <1>1, <1>2, <2>1, <2>2, RecordGoes
<1>4. CASE finalizeSecret(w)
  <2>1. /\ Goes(w, "unhold") /\ p.pc = "bearer" /\ secret' = [secret EXCEPT ![p.epoch] = 0]
    BY <1>2, <1>4 DEF finalizeSecret, At
  <2>2. p.epoch \in Epochs
    BY <1>2, <2>1, WorkerIs DEF Shape, Numbered
  <2>3. ~Live(p.epoch)'
    BY <1>1, <2>1, <2>2, RecordedIs, GoneNotLive DEF AttachInv, Calm
  <2>4. Gentle("unhold", p)
    BY <2>1, <2>3 DEF Gentle, WorkerSteps, Attaching, Settling
  <2> QED BY <1>1, <1>2, <2>1, <2>4, RecordGoes
<1>5. CASE deleteWorkspaceOwnedAttachmentLeaseForEpoch(w)
  <2>1. PICK q \in {"suspend", "late"} : Goes(w, q)
    BY <1>5 DEF deleteWorkspaceOwnedAttachmentLeaseForEpoch
  <2>2. Gentle(q, p)
    BY <1>2, <1>5, <2>1 DEF Gentle, WorkerSteps, Attaching, Settling, deleteWorkspaceOwnedAttachmentLeaseForEpoch, At
  <2> QED BY <1>1, <1>2, <2>1, <2>2, RecordGoes
<1>6. CASE waitForRelease(w)
  <2>1. Idles(w)
    BY <1>6 DEF waitForRelease, Stops
  <2> QED BY <1>1, <2>1, RecordStops
<1> QED BY <1>3, <1>4, <1>5, <1>6

\* The workspace is quarantined and the credentials are deleted.
LEMMA RecordQuarantine ==
    ASSUME AttachInv, AttachInv', RecordInv, NEW w \in Workers,
           quarantineACPWorkspacePastDetachTimeout(w) \/ deleteACPWorkspaceAttachmentCredentials(w)
    PROVE  RecordInv'
<1>1. PICK p : p = wk[w]
  OBVIOUS
<1>2. CASE quarantineACPWorkspacePastDetachTimeout(w)
  <2>1. /\ granted' = granted /\ bearers' = bearers /\ task' = task /\ secret' = secret /\ Goes(w, "qsecret")
        /\ p.pc = "late" /\ w \in fresh
    BY <1>1, <1>2 DEF quarantineACPWorkspacePastDetachTimeout, At
  <2>2. ws' = [ws EXCEPT !.desired = "Quarantined", !.seen = FALSE]
    BY <1>2 DEF quarantineACPWorkspacePastDetachTimeout, Writes
  <2>3. ws'.epoch = ws.epoch /\ ws'.receipt = ws.receipt /\ ws'.desired = "Quarantined"
    BY <2>2 DEF AttachInv, Types, WsRec
  <2>4. Calm
    BY <2>1, <2>3, CalmWrite
  <2>5. p.epoch = ws.epoch
    BY <1>1, <2>1, WorkerIs DEF Fits, Detached
  <2>6. Gentle("qsecret", p)
    BY <2>1, <2>3, <2>5 DEF Gentle, WorkerSteps, Attaching, Settling
  <2> QED BY <1>1, <2>1, <2>4, <2>6, RecordGoes
<1>3. CASE deleteACPWorkspaceAttachmentCredentials(w) /\ At(w, "qsecret")
  <2>1. /\ Goes(w, "qlease") /\ p.pc = "qsecret" /\ ws' = ws /\ granted' = granted
        /\ secret' = IF p.epoch > 0 THEN [secret EXCEPT ![p.epoch] = 0] ELSE secret
    BY <1>1, <1>3 DEF deleteACPWorkspaceAttachmentCredentials, At
  <2>2. Calm
    BY <1>3, <2>1, CalmStay DEF deleteACPWorkspaceAttachmentCredentials, AttachInv, At
  <2>3. p.epoch \in 0 .. MaxEpoch
    BY <1>1, WorkerIs
  <2>4. p.epoch # 0 => p.epoch \in Epochs /\ p.epoch > 0
    BY SMTT(60), <2>3 DEF Epochs
  <2>5. p.epoch # 0 => ~Live(p.epoch)'
    BY <2>1, <2>4, RecordedIs, GoneNotLive DEF AttachInv
  <2>6. ws.desired = "Quarantined" /\ p.epoch = ws.epoch
    BY <1>1, <2>1, RecordedIs DEF Recorded
  <2>7. Gentle("qlease", p)
    BY <2>1, <2>5, <2>6 DEF Gentle, WorkerSteps, Attaching, Settling
  <2> QED BY <1>1, <2>1, <2>2, <2>7, RecordGoes
<1>4. CASE deleteACPWorkspaceAttachmentCredentials(w) /\ At(w, "qlease")
  <2>1. /\ Idles(w) /\ ws' = ws /\ granted' = granted /\ secret' = secret /\ bearers' = bearers /\ wk[w].pc = "qlease"
    BY <1>4 DEF deleteACPWorkspaceAttachmentCredentials, At, Stops
  <2>2. wk[w].task \in Tasks /\ task' = SetSettled(wk[w].task)
    BY <1>4, WorkerIs DEF deleteACPWorkspaceAttachmentCredentials, Shape, At, Task, SetSettled
  <2>3. \A u \in Tasks : /\ task'[u].ended = task[u].ended /\ task'[u].epoch = task[u].epoch
                         /\ u # wk[w].task => task'[u] = task[u]
    BY <2>2, WorkerIs, TaskIs
  <2>4. task[wk[w].task].ended
    BY <2>1, RecordedIs DEF Recorded, Settling
  <2>5. Calm
    BY <2>1, <2>3, <2>4 DEF Calm
  <2> QED BY <2>1, <2>5, RecordStops
<1> QED BY <1>2, <1>3, <1>4 DEF deleteACPWorkspaceAttachmentCredentials

\* The detach action is applied and the Task is marked.
LEMMA RecordDetach ==
    ASSUME AttachInv, AttachInv', RecordInv, NEW w \in Workers, applyDetachAction(w) \/ markACPTaskWorkspaceSettled(w)
    PROVE  RecordInv'
<1>1. CASE applyDetachAction(w)
  <2>1. PICK p : p = wk[w]
    OBVIOUS
  <2>2. /\ granted' = granted /\ bearers' = bearers /\ task' = task /\ secret' = secret /\ p.pc = "suspend"
    BY <1>1, <2>1 DEF applyDetachAction, At
  <2>3. p.task \in Tasks /\ task[p.task].ended /\ (w \in fresh => ws.att = NoAtt /\ LetGo)
    BY <2>1, <2>2, WorkerIs, RecordedIs DEF Shape, Fits, Detached, Freed, Recorded, Settling
  <2>4. CASE p.plan = "credentials" /\ Goes(w, "qsecret") /\ ws' = ws
    <3>1. Calm
      BY <2>2, <2>4, CalmStay DEF AttachInv
    <3>2. ws.desired = "Quarantined" /\ p.epoch = ws.epoch
      BY <2>1, <2>2, <2>4, RecordedIs DEF Recorded, Settling
    <3>3. Gentle("qsecret", p)
      BY <2>2, <2>4, <3>2 DEF Gentle, WorkerSteps, Attaching, Settling
    <3> QED BY <2>1, <2>4, <3>1, <3>3, RecordGoes
  <2>5. CASE Goes(w, "mark") /\ ws' = ws
    <3>1. Calm
      BY <2>2, <2>5, CalmStay DEF AttachInv
    <3>2. Gentle("mark", p)
      BY <2>2 DEF Gentle, WorkerSteps, Attaching, Settling
    <3> QED BY <2>1, <2>5, <3>1, <3>2, RecordGoes
  <2>6. CASE Idles(w) /\ ws' = ws
    <3>1. Calm
      BY <2>2, <2>6, CalmStay DEF AttachInv
    <3> QED BY <2>6, <3>1, RecordStops
  <2>7. CASE /\ p.plan = "patch" /\ w \in fresh /\ Goes(w, "mark")
             /\ ws' = IF ws.desired = "Suspended" THEN Receipted(p.task) ELSE Suspended(p.task)
    <3>1. ws'.epoch = ws.epoch /\ (ws'.receipt = ws.receipt \/ ws'.receipt = <<p.task, task[p.task].epoch>>)
      BY <2>3, <2>7, DetachWrites
    <3>2. ws.desired # "Quarantined"
      BY <2>1, <2>2, <2>7, WorkerIs DEF Fits, Planned
    <3>3. Calm
      BY <2>2, <2>3, <3>1, <3>2 DEF Calm
    <3>4. Gentle("mark", p)
      BY <2>2 DEF Gentle, WorkerSteps, Attaching, Settling
    <3> QED BY <2>1, <2>7, <3>3, <3>4, RecordGoes
  <2> QED BY <1>1, <2>1, <2>4, <2>5, <2>6, <2>7 DEF applyDetachAction, Stops, Writes, Task
<1>2. CASE markACPTaskWorkspaceSettled(w)
  <2>1. /\ Idles(w) /\ ws' = ws /\ granted' = granted /\ secret' = secret /\ bearers' = bearers /\ wk[w].pc = "mark"
    BY <1>2 DEF markACPTaskWorkspaceSettled, At, Stops
  <2>2. wk[w].task \in Tasks /\ task' = SetSettled(wk[w].task)
    BY <1>2, WorkerIs DEF markACPTaskWorkspaceSettled, Shape, At, Task, SetSettled
  <2>3. \A u \in Tasks : /\ task'[u].ended = task[u].ended /\ task'[u].epoch = task[u].epoch
                         /\ u # wk[w].task => task'[u] = task[u]
    BY <2>2, WorkerIs, TaskIs
  <2>4. task[wk[w].task].ended
    BY <2>1, RecordedIs DEF Recorded, Settling
  <2>5. Calm
    BY <2>1, <2>3, <2>4 DEF Calm
  <2> QED BY <2>1, <2>5, RecordStops
<1> QED BY <1>1, <1>2

\* The environment.
LEMMA RecordEnv ==
    ASSUME AttachInv, AttachInv', RecordInv,
           (\E t \in Tasks : endTask(t)) \/ adapterSync \/ expire \/ (\E w \in Workers : crash(w))
    PROVE  RecordInv'
<1>1. ASSUME NEW t \in Tasks, endTask(t) PROVE RecordInv'
  <2>1. /\ task' = SetEnded(t) /\ ws' = ws /\ granted' = granted /\ secret' = secret /\ bearers' = bearers /\ wk' = wk
    BY <1>1 DEF endTask, SetEnded
  <2>2. 0 \in 0 .. MaxEpoch
    BY SMTT(60), AttachmentAssumption
  <2>3. /\ task'[t].ended
        /\ \A u \in Tasks : /\ task'[u].settled = task[u].settled /\ task'[u].epoch = task[u].epoch
                            /\ u # t => task'[u] = task[u]
    BY <2>1, <2>2, TaskIs DEF AttachInv
  <2>4. Calm
    BY <2>1, <2>3 DEF Calm
  <2> QED BY <2>1, <2>4, RecordStill
<1>2. CASE adapterSync
  <2>1. granted' = granted /\ secret' = secret /\ bearers' = bearers /\ wk' = wk /\ task' = task
    BY <1>2 DEF adapterSync
  <2>2. Calm
    BY <1>2, <2>1, SyncIs, CalmWrite
  <2> QED BY <2>1, <2>2, RecordStill
<1>3. CASE expire
  <2>1. granted' = granted /\ secret' = secret /\ bearers' = bearers /\ wk' = wk /\ task' = task
    BY <1>3 DEF expire
  <2>2. ws'.epoch = ws.epoch /\ ws'.receipt = ws.receipt /\ ws'.desired = ws.desired
    BY <1>3, ExpiredIs DEF expire
  <2>3. Calm
    BY <2>1, <2>2, CalmWrite
  <2> QED BY <2>1, <2>3, RecordStill
<1>4. ASSUME NEW w \in Workers, crash(w) PROVE RecordInv'
  <2>1. Calm /\ Idles(w)
    BY <1>4, CalmStay DEF crash, Stops, AttachInv
  <2> QED BY <2>1, RecordStops
<1> QED BY <1>1, <1>2, <1>3, <1>4

\* A step of a worker keeps what is recorded.
LEMMA RecordStep ==
    ASSUME AttachInv, AttachInv', RecordInv, NEW w \in Workers, Moves(w)
    PROVE  RecordInv'
<1>1. CASE acquireLease(w) \/ readWorkspace(w) \/ createSecret(w) \/ revalidate(w) \/ renewAttachmentLeaseFence(w)
  BY <1>1, RecordAcquire, RecordRead, RecordSecret, RecordFence
<1>2. CASE patchAttachment(w) \/ cleanupReads(w) \/ cleanupSecret(w) \/ cleanupLease(w)
  BY <1>2, RecordPatch, RecordCleanup
<1>3. CASE recordACPWorkspaceDetachAction(w) \/ markACPTaskAttachmentEpoch(w) \/ dropExpiredBearer(w)
  BY <1>3, RecordMarks
<1>4. CASE \/ FinalizeRevocation(w) \/ finalizeSecret(w) \/ deleteWorkspaceOwnedAttachmentLeaseForEpoch(w)
           \/ waitForRelease(w) \/ markACPWorkspaceRevocationStarted(w) \/ BeginRevocation(w)
  BY <1>4, RecordFinal, RecordRevoke
<1>5. CASE \/ quarantineACPWorkspacePastDetachTimeout(w) \/ deleteACPWorkspaceAttachmentCredentials(w)
           \/ applyDetachAction(w) \/ markACPTaskWorkspaceSettled(w)
  BY <1>5, RecordQuarantine, RecordDetach
<1> QED BY <1>1, <1>2, <1>3, <1>4, <1>5 DEF Moves, Step

\* Every step keeps what is recorded.
LEMMA RecordNext == AttachInv /\ AttachInv' /\ RecordInv /\ [Next]_vars => RecordInv'
<1> SUFFICES ASSUME AttachInv, AttachInv', RecordInv, [Next]_vars PROVE RecordInv'
  OBVIOUS
<1>1. CASE \E w \in Workers : Moves(w) \/ (crash(w) /\ UNCHANGED strayed)
  BY <1>1, RecordStep, RecordEnv
<1>2. CASE \E w \in Workers, t \in Tasks : resumeWorkspace(w, t) \/ beginAttach(w, t) \/ adoptAttachment(w, t)
  BY <1>2, RecordBegins, RecordAdopt
<1>3. CASE \E t \in Tasks : Settles(t) \/ (endTask(t) /\ UNCHANGED strayed)
  BY <1>3, RecordSettle, RecordEnv DEF Settles
<1>4. CASE Syncs \/ expire
  BY <1>4, RecordEnv DEF Syncs
<1>5. CASE UNCHANGED vars
  <2>1. ws' = ws /\ secret' = secret /\ task' = task /\ wk' = wk /\ granted' = granted /\ bearers' = bearers
    BY <1>5 DEF vars
  <2>2. Calm
    BY <2>1, CalmStay DEF AttachInv
  <2> QED BY <2>1, <2>2, RecordStill
<1> QED BY <1>1, <1>2, <1>3, <1>4, <1>5 DEF Next

\* Nothing is recorded at first.
LEMMA RecordInit == Init => RecordInv
<1> SUFFICES ASSUME Init PROVE RecordInv
  OBVIOUS
<1> DEFINE g == [task |-> 0, digest |-> 0]
           k == [ended |-> FALSE, epoch |-> 0, settled |-> FALSE]
<1>1. g.task = 0 /\ g.digest = 0 /\ k.epoch = 0 /\ ~k.settled
  OBVIOUS
<1>2. granted = [e \in Epochs |-> g] /\ task = [t \in Tasks |-> k] /\ wk = [w \in Workers |-> Idle] /\ bearers = 0
  BY DEF Init
<1>3. ws.receipt[1] = 0 /\ ws.receipt[2] = 0 /\ ws.epoch = 0
  <2>1. PICK x : x = <<0, 0>>
    OBVIOUS
  <2>2. PICK s \in Cold : ws = [att |-> NoAtt, epoch |-> 0, desired |-> "Ready", stamp |-> 0, receipt |-> x,
                              demand |-> 0, attached |-> 0, state |-> s, seen |-> TRUE]
    BY <2>1 DEF Init
  <2>3. ws.receipt = x /\ ws.epoch = 0
    BY <2>2
  <2>4. <<0, 0>>[1] = 0 /\ <<0, 0>>[2] = 0
    OBVIOUS
  <2> QED BY <2>1, <2>3, <2>4
<1>4. 0 <= 0 /\ \A t \in Tasks : t # 0
  BY SMTT(60) DEF Tasks
<1> HIDE DEF g, k
<1>5. Kept
  BY <1>1, <1>2, <1>3, <1>4 DEF Kept
<1>6. Recorded(Idle)
  BY <1>2, <1>4, IdleIs DEF Recorded, Revoking, Attaching, Settling
<1> QED BY <1>2, <1>5, <1>6 DEF RecordInv

----------------------------------------------------------------------------
(* Bearers. *)

\* The effect of a step on the others is confined to Task t.
Aside(t) ==
    /\ \A u \in Tasks : u # t => task'[u].settled = task[u].settled /\ task'[u].epoch = task[u].epoch
    /\ ws'.receipt[1] \in {ws.receipt[1], t}
    /\ \A e \in Epochs : granted'[e].task \in {granted[e].task, t}
    /\ ws.att.task \in {0, t} \/ (ws'.att.task = ws.att.task /\ ws'.att.epoch = ws.att.epoch)
    /\ \A e \in Epochs : Live(e)' => Live(e) \/ granted'[e].task = t

\* Worker w has the only pass of Task t.
Own(w, t) == t \in Tasks /\ \A v \in Workers : v # w => wk[v].task # t

\* What the passes of the other Tasks rely on stays.
LEMMA AloneAside ==
    ASSUME NEW p, NEW t, Shape(p), Alone(p), Aside(t), p.pc = "idle" \/ p.task # t
    PROVE  Alone(p)'
<1>1. CASE p.pc = "idle"
  BY <1>1 DEF Alone, Attaching, Revoking, Counted
<1>2. CASE p.pc # "idle"
  <2>1. p.task \in Tasks /\ p.task # t
    BY <1>2 DEF Shape
  <2>2. p.task # 0
    BY SMTT(60), <2>1 DEF Tasks
  <2>3. NoGrant(p.task) => NoGrant(p.task)'
    BY <2>1 DEF Aside, NoGrant
  <2>4. ws.receipt[1] # p.task => ws'.receipt[1] # p.task
    BY <2>1 DEF Aside
  <2>5. task'[p.task].settled = task[p.task].settled /\ task'[p.task].epoch = task[p.task].epoch
    BY <2>1 DEF Aside
  <2>6. ws.att.task = p.task => ws'.att.task = ws.att.task /\ ws'.att.epoch = ws.att.epoch
    BY <2>1, <2>2 DEF Aside
  <2>7. (\A e \in Epochs : granted[e].task = p.task => ~Live(e)) => \A e \in Epochs : granted'[e].task = p.task => ~Live(e)'
    BY <2>1 DEF Aside
  <2>8. p.pc \in Attaching => ~task'[p.task].settled /\ ws'.receipt[1] # p.task
    BY <2>4, <2>5 DEF Alone
  <2>9. p.pc \in Attaching \cup {"clean"} => Entitled(p.task)'
    BY <2>3, <2>6 DEF Alone, Entitled
  <2>10. p.pc \in {"unsecret", "unlease"} => NoGrant(p.task)' \/ ~p.claimed
    BY <2>3 DEF Alone
  <2>13. Newest(p) => Newest(p)'
    BY <2>1 DEF Aside, Newest
  <2>11. Revoking(p) => task'[p.task].epoch = p.epoch
    BY <2>5 DEF Alone
  <2>12. p.pc \in {"suspend", "mark", "qlease"} => \A e \in Epochs : granted'[e].task = p.task => ~Live(e)'
    BY <2>7 DEF Alone
  <2> QED BY <2>8, <2>9, <2>10, <2>11, <2>12, <2>13 DEF Alone, Revoking
<1> QED BY <1>1, <1>2

\* A worker that is not idle has the only pass of its Task.
LEMMA OwnIs ==
    ASSUME AttachInv, Single, NEW w \in Workers, wk[w].pc # "idle"
    PROVE  Own(w, wk[w].task)
<1>1. wk[w].task \in Tasks
  BY WorkerIs DEF Shape
<1>2. wk[w].task # 0
  BY SMTT(60), <1>1 DEF Tasks
<1> QED BY <1>1, <1>2 DEF Own, Single

\* So has a worker that takes a Task without straying.
LEMMA TakesOwn ==
    ASSUME AttachInv, NEW w \in Workers, NEW t \in Tasks, Takes(w, t), ~strayed'
    PROVE  Own(w, t)
BY TakesIs DEF AttachInv, Own

\* Grants that stay keep their attachments until their Tasks have ended.
LEMMA GrantsStay ==
    ASSUME Single, AttachInv, granted' = granted, \A u \in Tasks : task[u].ended => task'[u].ended,
           \A u \in Tasks : ws.att.task = u => task'[u].ended \/ ws'.att.task = u
    PROVE  Attends'
<1>1. ASSUME NEW e \in Epochs, granted[e].task # 0 PROVE task'[granted[e].task].ended \/ ws'.att.task = granted[e].task
  <2>1. granted[e].task \in 0 .. NumTasks
    BY DEF AttachInv, Types, GrantRec
  <2>2. granted[e].task \in Tasks
    BY SMTT(60), <1>1, <2>1 DEF Tasks
  <2> QED BY <1>1, <2>2 DEF Single, Attends
<1> QED BY <1>1 DEF Attends

\* One worker moves.
LEMMA BearersMove ==
    ASSUME AttachInv, Bearers, NEW w \in Workers, NEW t, Own(w, t), NEW r \in WorkerRec, wk' = Put(w, r), Shape(r),
           r.pc = "idle" \/ r.task = t, Aside(t), Alone(r)', w \in fresh' => Fenced(r)',
           \A v \in Workers : v # w /\ wk[v].pc = "patch" /\ v \in fresh' =>
               v \in fresh /\ lease'.holder = lease.holder /\ lease'.epoch = lease.epoch,
           ~lease'.expired, Attends',
           \A e \in Epochs : Live(e)' => Covers(e)'
    PROVE  Bearers'
<1>1. /\ wk'[w] = r
      /\ \A v \in Workers : v # w => wk'[v] = wk[v]
  BY PutIs DEF AttachInv, Types
<1>2. r.task \in {0, t}
  BY IdleIs DEF Shape
<1>3. \A v \in Workers : v # w => wk[v].task # t
  BY DEF Own
<1>4. ASSUME NEW u \in Workers, NEW v \in Workers, wk'[u].task = wk'[v].task, wk'[u].task # 0, u # v PROVE FALSE
  <2>1. CASE u = w
    <3>1. wk'[u].task = t /\ wk'[v].task # t
      BY <1>1, <1>2, <1>3, <1>4, <2>1
    <3> QED BY <1>4, <3>1
  <2>2. CASE v = w
    <3>1. wk'[v].task = t /\ wk'[u].task # t
      BY <1>1, <1>2, <1>3, <1>4, <2>2
    <3> QED BY <1>4, <3>1
  <2>3. CASE u # w /\ v # w
    <3>1. wk[u].task = wk[v].task /\ wk[u].task # 0
      BY <1>1, <1>4, <2>3
    <3> QED BY <1>4, <3>1 DEF Bearers, Single
  <2> QED BY <2>1, <2>2, <2>3
<1>5. Single'
  BY <1>4 DEF Single
<1>6. ASSUME NEW v \in Workers PROVE Alone(wk[v])' /\ (v \in fresh' => Fenced(wk[v])')
  <2>1. CASE v = w
    BY <1>1, <2>1
  <2>2. CASE v # w
    <3>1. PICK p : p = wk[v]
      OBVIOUS
    <3>2. Shape(p) /\ Alone(p) /\ p.task # t
      BY <1>3, <2>2, <3>1, WorkerIs DEF Bearers
    <3>3. Alone(p)'
      BY <3>2, AloneAside
    <3>4. ASSUME v \in fresh' PROVE Fenced(p)'
      <4>1. p.pc = "patch" => v \in fresh /\ lease'.holder = lease.holder /\ lease'.epoch = lease.epoch
        BY <2>2, <3>1, <3>4
      <4>2. v \in fresh => Fenced(p)
        BY <3>1 DEF Bearers
      <4> QED BY <4>1, <4>2 DEF Fenced
    <3> QED BY <1>1, <2>2, <3>1, <3>3, <3>4
  <2> QED BY <2>1, <2>2
<1> QED BY <1>5, <1>6 DEF Bearers

\* A step that leaves alone what the bearers depend on.
Quiet ==
    /\ granted' = granted /\ task' = task /\ lease' = lease /\ \A e \in Epochs : Live(e)' => Live(e)
    /\ ws'.att.task = ws.att.task /\ ws'.att.epoch = ws.att.epoch /\ (ws'.att = NoAtt => ws.att = NoAtt)
    /\ ws'.receipt = ws.receipt /\ ws'.epoch = ws.epoch

\* Such a step leaves the others and the bearers as they are.
LEMMA QuietKeeps ==
    ASSUME AttachInv, Bearers, Quiet
    PROVE  /\ \A t : Aside(t)
           /\ \A e \in Epochs : Live(e)' => Covers(e)'
           /\ ~lease'.expired /\ Attends'
<1>1. ASSUME NEW t PROVE Aside(t)
  BY DEF Quiet, Aside
<1>2. ASSUME NEW e \in Epochs, Live(e)' PROVE Covers(e)'
  <2>1. Covers(e)
    BY <1>2 DEF Quiet, Bearers
  <2> QED BY <2>1 DEF Quiet, Covers
<1>3. ~lease'.expired
  BY DEF Quiet, Bearers, Single
<1>4. Attends'
  BY DEF Quiet, Bearers, Single, Attends
<1> QED BY <1>1, <1>2, <1>3, <1>4

\* What a pass relies on stays in such a step.
LEMMA AloneQuiet ==
    ASSUME NEW p, Alone(p), Quiet
    PROVE  Alone(p)'
<1>1. NoGrant(p.task)' <=> NoGrant(p.task)
  BY DEF Quiet, NoGrant
<1>2. (\A e \in Epochs : granted[e].task = p.task => ~Live(e)) => \A e \in Epochs : granted'[e].task = p.task => ~Live(e)'
  BY DEF Quiet
<1>3. (Entitled(p.task)' <=> Entitled(p.task)) /\ (Newest(p)' <=> Newest(p))
  BY <1>1 DEF Quiet, Entitled, Newest
<1> QED BY <1>1, <1>2, <1>3 DEF Alone, Revoking, Quiet

\* One worker moves in such a step.
LEMMA QuietMove ==
    ASSUME AttachInv, Bearers, Quiet, NEW w \in Workers, NEW t, Own(w, t), NEW r \in WorkerRec, wk' = Put(w, r), Shape(r),
           r.pc = "idle" \/ r.task = t, Alone(r)', w \in fresh' => Fenced(r)', fresh' \subseteq fresh \cup {w}
    PROVE  Bearers'
<1>1. \A v \in Workers : v # w /\ wk[v].pc = "patch" /\ v \in fresh' =>
               v \in fresh /\ lease'.holder = lease.holder /\ lease'.epoch = lease.epoch
  BY DEF Quiet
<1> QED BY <1>1, QuietKeeps, BearersMove

\* No worker moves in such a step.
LEMMA QuietStill ==
    ASSUME AttachInv, Bearers, Quiet, wk' = wk, fresh' \subseteq fresh
    PROVE  Bearers'
<1>1. Single'
  BY QuietKeeps DEF Single, Bearers
<1>2. ASSUME NEW v \in Workers PROVE Alone(wk[v])' /\ (v \in fresh' => Fenced(wk[v])')
  <2>1. PICK p : p = wk[v]
    OBVIOUS
  <2>2. Alone(p)'
    BY <2>1, AloneQuiet DEF Bearers
  <2>3. v \in fresh' => Fenced(p)'
    BY <2>1 DEF Bearers, Fenced, Quiet
  <2> QED BY <2>1, <2>2, <2>3
<1> QED BY <1>1, <1>2, QuietKeeps DEF Bearers

\* An idle worker relies on nothing.
LEMMA AloneIdle == Alone(Idle) /\ Fenced(Idle) /\ Alone(Idle)' /\ Fenced(Idle)'
<1>1. Alone(Idle) /\ Fenced(Idle)
  BY IdleIs DEF Alone, Fenced, Attaching, Revoking, Counted
<1>2. PICK p : p = Idle
  OBVIOUS
<1>3. Alone(p)' /\ Fenced(p)'
  BY <1>2, IdleIs DEF Alone, Fenced, Attaching, Revoking, Counted
<1> QED BY <1>1, <1>2, <1>3 DEF Idle

\* A worker stops.
LEMMA QuietStops ==
    ASSUME AttachInv, Bearers, Quiet, NEW w \in Workers, wk[w].pc # "idle", Idles(w), fresh' \subseteq fresh
    PROVE  Bearers'
<1>1. wk' = Put(w, Idle)
  BY DEF Idles, Put
<1>2. PICK t : t = wk[w].task
  OBVIOUS
<1>3. Own(w, t)
  BY <1>2, OwnIs DEF Bearers
<1>4. PICK r \in WorkerRec : r = Idle
  BY IdleIs
<1>5. Shape(r) /\ r.pc = "idle" /\ Alone(r)' /\ Fenced(r)'
  BY <1>4, IdleIs, SoundIdle, AloneIdle DEF Idle
<1> QED BY <1>1, <1>3, <1>4, <1>5, QuietMove

\* A worker at p may go on to step q without relying on more.
Tame(q, p) ==
    /\ q \in WorkerSteps /\ q \notin {"idle", "stamp", "patch"} /\ p.pc # "idle"
    /\ q \in Attaching => p.pc \in Attaching
    /\ q \in {"unsecret", "unlease"} => p.pc \in {"unsecret", "unlease"}
    /\ q = "clean" => p.pc \in Attaching
    /\ q \in Counted => p.pc \in Counted
    /\ q = "begin" => Revoking(p)
    /\ q \in {"suspend", "mark", "qlease"} =>
          p.pc \in {"suspend", "mark", "qlease"} \/ \A e \in Epochs : granted[e].task = p.task => ~Live(e)'

\* A worker goes on.
LEMMA QuietGoes ==
    ASSUME AttachInv, AttachInv', Bearers, Quiet, NEW w \in Workers, NEW q, NEW p, p = wk[w], Goes(w, q), Tame(q, p),
           fresh' \subseteq fresh \cup {w}
    PROVE  Bearers'
<1>1. PICK r \in WorkerRec : wk' = Put(w, r) /\ r.pc = q /\ Like(r, p)
  BY GoesIs DEF AttachInv, Types, Tame
<1>2. PICK t : t = p.task
  OBVIOUS
<1>3. Own(w, t) /\ r.task = t
  BY <1>1, <1>2, OwnIs DEF Bearers, Tame, Like
<1>4. Alone(p)'
  BY AloneQuiet DEF Bearers
<1>5. Alone(r)'
  <2>1. r.task = p.task /\ r.epoch = p.epoch /\ r.digest = p.digest /\ r.claimed = p.claimed /\ r.keep = p.keep
    BY <1>1 DEF Like
  <2>2. r.pc \in {"suspend", "mark", "qlease"} => \A e \in Epochs : granted'[e].task = r.task => ~Live(e)'
    BY <1>1, <1>4, <2>1 DEF Alone, Tame, Quiet
  <2>3. r.pc \in Attaching => ~task'[r.task].settled /\ ws'.receipt[1] # r.task
    BY <1>1, <1>4, <2>1 DEF Alone, Tame
  <2>4. r.pc \in Attaching \cup {"clean"} => Entitled(r.task)'
    BY <1>1, <1>4, <2>1 DEF Alone, Tame, Entitled, NoGrant
  <2>5. r.pc \in {"unsecret", "unlease"} => NoGrant(r.task)' \/ ~r.claimed
    BY <1>1, <1>4, <2>1 DEF Alone, Tame, NoGrant
  <2>6. Revoking(r) => task'[r.task].epoch = r.epoch
    BY <1>1, <1>4, <2>1 DEF Alone, Tame, Revoking
  <2>7. r.pc \in Counted \/ Revoking(r) => Newest(r)'
    BY <1>1, <1>4, <2>1 DEF Alone, Tame, Revoking, Newest
  <2> QED BY <2>2, <2>3, <2>4, <2>5, <2>6, <2>7 DEF Alone, Revoking
<1>6. Fenced(r)'
  BY <1>1 DEF Fenced, Tame
<1>7. Shape(r)
  <2>1. wk'[w] = r
    BY <1>1, PutIs DEF AttachInv, Types
  <2>2. Shape(wk[w])'
    BY DEF AttachInv, Sound
  <2> QED BY <2>1, <2>2 DEF Shape
<1> QED BY <1>1, <1>3, <1>5, <1>6, <1>7, QuietMove

\* A step that deletes at most one Secret.
LEMMA QuietStay ==
    ASSUME Types, Kept, ws' = ws, granted' = granted, task' = task, lease' = lease,
           secret' = secret \/ \E e : secret' = [secret EXCEPT ![e] = 0]
    PROVE  Quiet
<1>1. \A e \in Epochs : secret'[e] \in {secret[e], 0}
  BY SecretGone
<1>2. \A e \in Epochs : Live(e)' => Live(e)
  BY <1>1 DEF Live, Last, Kept
<1> QED BY <1>2 DEF Quiet

\* A step that writes the workspace, but for its attachment, its epoch and its receipt.
LEMMA QuietWrite ==
    ASSUME granted' = granted, task' = task, lease' = lease, secret' = secret, ws'.epoch = ws.epoch,
           ws'.receipt = ws.receipt, ws'.att = ws.att
    PROVE  Quiet
BY DEF Quiet, Live, Last

\* A step of an attempt whose Task has published nothing, or rotates its bearer.
LEMMA QuietAttempt ==
    ASSUME AttachInv, AttachInv', Bearers, Quiet, NEW w \in Workers, NEW r \in WorkerRec, wk' = Put(w, r),
           r.task = wk[w].task, r.pc \in {"read", "secret", "fence", "clean", "unsecret", "unlease"},
           r.pc \in {"read", "secret", "fence"} => wk[w].pc \in Attaching,
           r.pc \in {"secret", "fence"} => Newest(r),
           r.pc \in {"unsecret", "unlease"} => NoGrant(r.task) \/ ~r.claimed,
           wk[w].pc # "idle", Entitled(wk[w].task), fresh' \subseteq fresh \cup {w}
    PROVE  Bearers'
<1>1. PICK t : t = wk[w].task
  OBVIOUS
<1>2. Own(w, t)
  BY <1>1, OwnIs DEF Bearers
<1>3. r.pc \in Attaching => ~task'[r.task].settled /\ ws'.receipt[1] # r.task
  BY DEF Bearers, Alone, Quiet, Attaching
<1>4. PICK p : p = r
  OBVIOUS
<1>5. /\ Entitled(p.task)' /\ (NoGrant(p.task) => NoGrant(p.task)') /\ (Newest(p) => Newest(p)')
      /\ p.pc \in Counted => p.pc \in {"secret", "fence"}
  BY <1>4 DEF Entitled, NoGrant, Newest, Quiet, Counted
<1>6. Alone(p)' /\ Fenced(p)'
  BY <1>3, <1>4, <1>5 DEF Alone, Revoking, Fenced
<1>7. Shape(p)
  <2>1. wk'[w] = p
    BY <1>4, PutIs DEF AttachInv, Types
  <2>2. Shape(wk[w])'
    BY DEF AttachInv, Sound
  <2> QED BY <2>1, <2>2 DEF Shape
<1> QED BY <1>1, <1>2, <1>4, <1>6, <1>7, QuietMove

\* An attempt's Task has published nothing, or is attached, and has not settled.
LEMMA AttemptIs ==
    ASSUME AttachInv, Bearers, NEW w \in Workers, wk[w].pc \in Attaching
    PROVE  wk[w].pc # "idle" /\ Entitled(wk[w].task) /\ ~task[wk[w].task].settled /\ ws.receipt[1] # wk[w].task
BY DEF Bearers, Alone, Attaching

\* The workspace is read and the Secret is created or recovered.
LEMMA BearersRead ==
    ASSUME AttachInv, AttachInv', RecordInv, Bearers, NEW w \in Workers, readWorkspace(w)
    PROVE  Bearers'
<1>1. wk[w].pc = "read" /\ wk[w].pc \in Attaching /\ fresh' \subseteq fresh \cup {w} /\ Quiet
  BY QuietStay, RecordedIs DEF readWorkspace, At, Attaching, AttachInv
<1>2. CASE Goes(w, "clean")
  <2>1. PICK p : p = wk[w]
    OBVIOUS
  <2>2. Tame("clean", p)
    BY <1>1, <2>1 DEF Tame, WorkerSteps, Attaching, Counted
  <2> QED BY <1>1, <1>2, <2>1, <2>2, QuietGoes
<1>3. CASE /\ EpochsLeft
           /\ wk' = [wk EXCEPT ![w] = [@ EXCEPT !.pc = "secret", !.epoch = nextWorkspaceAttachmentEpoch]]
  <2> DEFINE e == nextWorkspaceAttachmentEpoch
             r == [wk[w] EXCEPT !.pc = "secret", !.epoch = e]
  <2>1. wk' = Put(w, r)
    BY <1>3 DEF Put
  <2>2. e = ws.epoch + 1 /\ e <= MaxEpoch /\ ws.epoch \in 0 .. MaxEpoch
    BY <1>3, NextEpoch DEF AttachInv, EpochsLeft, Types, WsRec
  <2>3. e \in 0 .. MaxEpoch
    BY SMTT(60), <2>2, AttachmentAssumption
  <2> HIDE DEF e
  <2>4. "secret" \in WorkerSteps
    BY DEF WorkerSteps
  <2>5. r \in WorkerRec /\ r.pc = "secret" /\ r.task = wk[w].task /\ r.epoch = e
    BY <2>3, <2>4, WorkerIs DEF WorkerRec
  <2> HIDE DEF r
  <2>6. Newest(r)
    <3>1. ASSUME NEW f \in Epochs, granted[f].task = r.task PROVE f <= r.epoch
      <4>1. wk[w].task \in Tasks
        BY <1>1, WorkerIs DEF Shape
      <4>2. granted[f].task # 0
        BY SMTT(60), <2>5, <3>1, <4>1 DEF Tasks
      <4>3. f <= ws.epoch
        BY <4>2 DEF AttachInv, WsInv
      <4> QED BY SMTT(60), <2>2, <2>5, <4>3 DEF Epochs
    <3> QED BY <3>1 DEF Newest
  <2> QED BY <1>1, <2>1, <2>5, <2>6, AttemptIs, QuietAttempt
<1> QED BY <1>2, <1>3 DEF readWorkspace

\* The Secret is created or recovered: a new bearer is of no grant.
LEMMA BearersSecret ==
    ASSUME AttachInv, AttachInv', RecordInv, Bearers, NEW w \in Workers, createSecret(w)
    PROVE  Bearers'
<1>1. wk[w].pc = "secret" /\ wk[w].pc \in Attaching /\ fresh' \subseteq fresh \cup {w}
  BY DEF createSecret, At, Attaching
<1>2. wk[w].epoch \in Epochs
  BY <1>1, WorkerIs DEF Shape, Numbered
<1>3. ws' = ws /\ lease' = lease /\ task' = task /\ granted' = granted
  BY DEF createSecret
<1>4. ASSUME NEW d \in Digests, wk' = [wk EXCEPT ![w] = [@ EXCEPT !.pc = "fence", !.digest = d]], Quiet
      PROVE  Bearers'
  <2> DEFINE r == [wk[w] EXCEPT !.pc = "fence", !.digest = d]
  <2>1. wk' = Put(w, r)
    BY <1>4 DEF Put
  <2>2. "fence" \in WorkerSteps
    BY DEF WorkerSteps
  <2>3. r \in WorkerRec /\ r.pc = "fence" /\ r.task = wk[w].task /\ r.epoch = wk[w].epoch
    BY <2>2, WorkerIs DEF WorkerRec
  <2> HIDE DEF r
  <2>4. Newest(r)
    BY <1>1, <2>3 DEF Bearers, Alone, Counted, Newest
  <2> QED BY <1>1, <1>4, <2>1, <2>3, <2>4, AttemptIs, QuietAttempt
<1>5. CASE /\ secret[wk[w].epoch] = 0 /\ bearers < MaxBearers /\ bearers' = bearers + 1
           /\ secret' = [secret EXCEPT ![wk[w].epoch] = bearers'] /\ faults' = faults
           /\ wk' = [wk EXCEPT ![w] = [@ EXCEPT !.pc = "fence", !.digest = bearers']]
  <2>1. \A f \in Epochs : Live(f)' => Live(f)
    BY <1>2, <1>3, <1>5, NewBearer, RecordedIs
  <2>2. Quiet
    BY <1>3, <2>1 DEF Quiet
  <2>3. bearers' \in Digests
    BY DEF AttachInv, Types
  <2> QED BY <1>4, <1>5, <2>2, <2>3
<1>6. CASE /\ secret[wk[w].epoch] # 0 /\ UNCHANGED <<secret, bearers, faults>>
           /\ wk' = [wk EXCEPT ![w] = [@ EXCEPT !.pc = "fence", !.digest = secret[wk[w].epoch]]]
  <2>1. Quiet
    BY <1>3, <1>6, QuietStay, RecordedIs DEF AttachInv
  <2>2. secret[wk[w].epoch] \in 0 .. bearers /\ bearers \in Digests
    BY <1>2 DEF AttachInv, Types
  <2>3. secret[wk[w].epoch] \in Digests
    BY SMTT(60), <2>2, AttachmentAssumption DEF Digests
  <2> QED BY <1>4, <1>6, <2>1, <2>3
<1>7. CASE Goes(w, "clean") /\ Fault /\ UNCHANGED <<secret, bearers>>
  <2>1. Quiet
    BY <1>3, <1>7, QuietStay, RecordedIs DEF AttachInv
  <2>2. PICK p : p = wk[w]
    OBVIOUS
  <2>3. Tame("clean", p)
    BY <1>1, <2>2 DEF Tame, WorkerSteps, Attaching, Counted
  <2> QED BY <1>1, <1>7, <2>1, <2>2, <2>3, QuietGoes
<1> QED BY <1>5, <1>6, <1>7 DEF createSecret

\* The workspace is read again.
LEMMA BearersRevalidate ==
    ASSUME AttachInv, AttachInv', RecordInv, Bearers, NEW w \in Workers, revalidate(w)
    PROVE  Bearers'
<1>1. wk[w].pc = "fence" /\ fresh' \subseteq fresh \cup {w} /\ Quiet
  BY QuietStay, RecordedIs DEF revalidate, At, Reads, AttachInv
<1>2. PICK q \in {"renew", "clean"} : Goes(w, q)
  BY DEF revalidate
<1>3. PICK p : p = wk[w]
  OBVIOUS
<1>4. Tame(q, p)
  BY <1>1, <1>2, <1>3 DEF Tame, WorkerSteps, Attaching, Counted
<1> QED BY <1>1, <1>2, <1>3, <1>4, QuietGoes

\* The cleanup reads the workspace and deletes the Secret: a Task that published is attached, so it
\* stops or leaves the Lease alone.
LEMMA BearersCleanup ==
    ASSUME AttachInv, AttachInv', RecordInv, Bearers, NEW w \in Workers, cleanupReads(w) \/ cleanupSecret(w)
    PROVE  Bearers'
<1>1. Quiet /\ fresh' \subseteq fresh \cup {w}
  BY QuietStay, RecordedIs DEF cleanupReads, cleanupSecret, Stops, AttachInv
<1>2. CASE cleanupReads(w)
  <2>1. wk[w].pc = "clean"
    BY <1>2 DEF cleanupReads, At
  <2>2. CASE Stops(w)
    BY <1>1, <2>1, <2>2, QuietStops DEF Stops
  <2>3. ASSUME NEW q \in {"unsecret", "unlease"}, NEW c \in BOOLEAN, NoGrant(wk[w].task) \/ ~c,
               wk' = [wk EXCEPT ![w] = [@ EXCEPT !.pc = q, !.claimed = c]]
        PROVE  Bearers'
    <3> DEFINE r == [wk[w] EXCEPT !.pc = q, !.claimed = c]
    <3>1. wk' = Put(w, r)
      BY <2>3 DEF Put
    <3>2. q \in WorkerSteps
      BY <2>3 DEF WorkerSteps
    <3>3. r \in WorkerRec /\ r.pc = q /\ r.task = wk[w].task /\ r.claimed = c
      BY <3>2, WorkerIs DEF WorkerRec
    <3> HIDE DEF r
    <3>4. r.pc \in {"unsecret", "unlease"} /\ (NoGrant(r.task) \/ ~r.claimed) /\ Entitled(wk[w].task)
      BY <2>1, <2>3, <3>3 DEF Bearers, Alone
    <3> QED BY <1>1, <2>1, <2>3, <3>1, <3>3, <3>4, QuietAttempt
  <2>4. CASE ~Stops(w)
    <3> DEFINE q == IF wk[w].digest # 0 /\ ~wk[w].keep THEN "unsecret" ELSE "unlease"
               c == wk[w].claimed /\ ws.att = NoAtt
    <3>1. q \in {"unsecret", "unlease"} /\ c \in BOOLEAN
      BY WorkerIs
    <3>2. wk' = [wk EXCEPT ![w] = [@ EXCEPT !.pc = q, !.claimed = c]]
      BY <1>2, <2>4 DEF cleanupReads
    <3>3. wk[w].task \in Tasks
      BY <2>1, WorkerIs DEF Shape
    <3>4. NoGrant(wk[w].task) \/ ws.att # NoAtt
      BY <2>1, <3>3, TaskAttached DEF Bearers, Alone, Entitled
    <3>5. NoGrant(wk[w].task) \/ ~c
      BY <3>4
    <3> HIDE DEF q, c
    <3> QED BY <3>1, <3>2, <3>5, <2>3
  <2> QED BY <2>2, <2>4
<1>3. CASE cleanupSecret(w)
  <2>1. PICK p : p = wk[w]
    OBVIOUS
  <2>2. Tame("unlease", p) /\ Goes(w, "unlease")
    BY <1>3, <2>1 DEF Tame, WorkerSteps, Attaching, Counted, cleanupSecret, At
  <2> QED BY <1>1, <2>1, <2>2, QuietGoes
<1> QED BY <1>2, <1>3

\* A Task that attaches has published nothing, or is still attached.
LEMMA FirstGrant ==
    ASSUME AttachInv, Bearers, NEW t \in Tasks, ~task[t].ended
    PROVE  Entitled(t)
<1> SUFFICES ASSUME NEW e \in Epochs, granted[e].task = t PROVE ws.att.task = t
  BY DEF Entitled, NoGrant
<1>1. t # 0
  BY SMTT(60) DEF Tasks
<1> QED BY <1>1 DEF Bearers, Single, Attends

\* The epoch of an attachment is the last of its Task.
LEMMA AttachedLast ==
    ASSUME AttachInv, NEW t \in Tasks, NEW f \in Epochs, granted[f].task = t
    PROVE  f <= ws.epoch
<1>1. t # 0
  BY SMTT(60) DEF Tasks
<1> QED BY <1>1 DEF AttachInv, WsInv

\* A pass begins an attempt.
LEMMA BearersBegin ==
    ASSUME AttachInv, AttachInv', RecordInv, Bearers, NEW w \in Workers, NEW t \in Tasks, beginAttach(w, t), ~strayed'
    PROVE  Bearers'
<1>1. Quiet /\ fresh' \subseteq fresh /\ ~task[t].ended /\ Takes(w, t) /\ Valid(t)
  BY QuietStay, RecordedIs DEF beginAttach, Waiting, Attachable, AttachInv
<1>2. Own(w, t)
  BY <1>1, TakesOwn
<1> DEFINE r == [Idle EXCEPT !.pc = "lease", !.task = t]
<1>3. wk' = Put(w, r)
  BY DEF beginAttach, Begins, Put
<1>4. t \in 0 .. NumTasks
  BY SMTT(60) DEF Tasks
<1>5. "lease" \in WorkerSteps
  BY DEF WorkerSteps
<1>6. r \in WorkerRec /\ r.pc = "lease" /\ r.task = t /\ r.digest = 0
  BY <1>4, <1>5, IdleIs DEF WorkerRec
<1> HIDE DEF r
<1>7. PICK p \in WorkerRec : p = r
  BY <1>6
<1>8. Shape(p)
  BY <1>6, <1>7 DEF Shape, Numbered
<1>9. ~task'[t].settled /\ ws'.receipt[1] # t
  BY <1>1, RecordedIs DEF Kept, Quiet
<1>10. Entitled(t)'
  <2>1. Entitled(t)
    BY <1>1, FirstGrant
  <2> QED BY <1>1, <2>1 DEF Entitled, NoGrant, Quiet
<1>11. Alone(p)' /\ Fenced(p)'
  <2>1. p.pc = "lease" /\ p.task = t
    BY <1>6, <1>7
  <2> QED BY <1>9, <1>10, <2>1 DEF Alone, Revoking, Fenced, Entitled, NoGrant, Counted
<1> QED BY <1>1, <1>2, <1>3, <1>6, <1>7, <1>8, <1>11, QuietMove

\* An enforced attachment is adopted.
LEMMA BearersAdopt ==
    ASSUME AttachInv, AttachInv', RecordInv, Bearers, NEW w \in Workers, NEW t \in Tasks, adoptAttachment(w, t), ~strayed'
    PROVE  Bearers'
<1>1. Quiet /\ fresh' \subseteq fresh \cup {w} /\ Takes(w, t)
  BY QuietStay, RecordedIs DEF adoptAttachment, Waiting, Reads, AttachInv
<1>2. Own(w, t)
  BY <1>1, TakesOwn
<1> DEFINE r == [Idle EXCEPT !.pc = "adopt", !.task = t, !.epoch = ws.att.epoch]
<1>3. wk' = Put(w, r)
  BY DEF adoptAttachment, Put
<1>4. t \in 0 .. NumTasks /\ ws.att.epoch \in 0 .. MaxEpoch
  <2>1. t \in 0 .. NumTasks
    BY SMTT(60) DEF Tasks
  <2> QED BY <2>1, WsIs DEF AttachInv
<1>5. "adopt" \in WorkerSteps
  BY DEF WorkerSteps
<1>6. r \in WorkerRec /\ r.pc = "adopt" /\ r.task = t /\ r.epoch = ws.att.epoch
  BY <1>4, <1>5, IdleIs DEF WorkerRec
<1> HIDE DEF r
<1>7. PICK p \in WorkerRec : p = r
  BY <1>6
<1>8. Shape(p)
  <2>1. wk'[w] = p
    BY <1>3, <1>6, <1>7, PutIs DEF AttachInv, Types
  <2>2. Shape(wk[w])'
    BY DEF AttachInv, Sound
  <2> QED BY <2>1, <2>2 DEF Shape
<1>9. Newest(p)'
  <2>1. ws.att.epoch = ws.epoch
    BY TaskAttached DEF adoptAttachment, Adoptable
  <2> QED BY <1>1, <1>6, <1>7, <2>1, AttachedLast DEF Newest, Quiet
<1>10. Alone(p)' /\ Fenced(p)'
  BY <1>6, <1>7, <1>9 DEF Alone, Revoking, Fenced, Attaching
<1> QED BY <1>1, <1>2, <1>3, <1>6, <1>7, <1>8, <1>10, QuietMove

\* The stamp is cleared, the expired bearer is deleted, and the stamp is written.
LEMMA BearersStamps ==
    ASSUME AttachInv, AttachInv', RecordInv, Bearers, NEW w \in Workers,
           \/ recordACPWorkspaceDetachAction(w) \/ dropExpiredBearer(w) \/ markACPWorkspaceRevocationStarted(w)
    PROVE  Bearers'
<1>1. PICK p : p = wk[w]
  OBVIOUS
<1>2. CASE recordACPWorkspaceDetachAction(w)
  <2>1. p.pc = "adopt" /\ granted' = granted /\ task' = task /\ lease' = lease /\ secret' = secret
    BY <1>1, <1>2 DEF recordACPWorkspaceDetachAction, At
  <2>2. CASE Writes(w, [ws EXCEPT !.stamp = 0, !.demand = 0]) /\ Goes(w, "record")
    <3>1. ws'.epoch = ws.epoch /\ ws'.receipt = ws.receipt /\ ws'.att = ws.att
      BY <2>2 DEF Writes, AttachInv, Types, WsRec
    <3>2. Quiet /\ fresh' \subseteq fresh \cup {w}
      BY <2>1, <2>2, <3>1, QuietWrite DEF Writes
    <3>3. Tame("record", p)
      BY <2>1 DEF Tame, WorkerSteps, Attaching, Counted
    <3> QED BY <1>1, <2>2, <3>2, <3>3, QuietGoes
  <2>3. CASE Stops(w) /\ ws' = ws
    <3>1. Quiet /\ wk[w].pc # "idle"
      BY <1>1, <2>1, <2>3, QuietWrite
    <3> QED BY <2>3, <3>1, QuietStops DEF Stops
  <2> QED BY <1>2, <2>2, <2>3 DEF recordACPWorkspaceDetachAction
<1>3. CASE dropExpiredBearer(w)
  <2>1. Quiet /\ Stops(w) /\ wk[w].pc # "idle"
    BY <1>3, QuietStay, RecordedIs DEF dropExpiredBearer, AttachInv, At
  <2> QED BY <2>1, QuietStops DEF Stops
<1>4. CASE markACPWorkspaceRevocationStarted(w)
  <2>1. p.pc = "stamp" /\ granted' = granted /\ task' = task /\ lease' = lease /\ secret' = secret
    BY <1>1, <1>4 DEF markACPWorkspaceRevocationStarted, At
  <2>2. CASE Stops(w) /\ ws' = ws
    <3>1. Quiet /\ wk[w].pc # "idle"
      BY <1>1, <2>1, <2>2, QuietWrite
    <3> QED BY <2>2, <3>1, QuietStops DEF Stops
  <2>3. CASE /\ Goes(w, IF p.claimed THEN "begin" ELSE "final")
             /\ (ws' = ws /\ fresh' = fresh) \/ Writes(w, [ws EXCEPT !.stamp = wk[w].epoch])
    <3>1. ws'.epoch = ws.epoch /\ ws'.receipt = ws.receipt /\ ws'.att = ws.att
      BY <2>3 DEF Writes, AttachInv, Types, WsRec
    <3>2. Quiet /\ fresh' \subseteq fresh \cup {w}
      BY <2>1, <2>3, <3>1, QuietWrite DEF Writes
    <3>3. PICK q \in {"begin", "final"} : Goes(w, q) /\ (q = "begin" => p.claimed)
      BY <2>3
    <3>4. Tame(q, p)
      BY <2>1, <3>3 DEF Tame, WorkerSteps, Attaching, Counted, Revoking
    <3> QED BY <1>1, <3>2, <3>3, <3>4, QuietGoes
  <2> QED BY <1>1, <1>4, <2>2, <2>3 DEF markACPWorkspaceRevocationStarted
<1> QED BY <1>2, <1>3, <1>4

\* The settlement goes on, waits, or quarantines the workspace.
LEMMA BearersFinal ==
    ASSUME AttachInv, AttachInv', RecordInv, Bearers, NEW w \in Workers,
           \/ FinalizeRevocation(w) \/ finalizeSecret(w) \/ waitForRelease(w)
           \/ quarantineACPWorkspacePastDetachTimeout(w)
    PROVE  Bearers'
<1>1. PICK p : p = wk[w]
  OBVIOUS
<1>2. CASE FinalizeRevocation(w) \/ finalizeSecret(w)
  <2>1. Quiet /\ fresh' \subseteq fresh \cup {w}
    BY <1>2, QuietStay, RecordedIs DEF FinalizeRevocation, finalizeSecret, AttachInv
  <2>2. PICK q \in {"bearer", "late", "unhold"} : Goes(w, q) /\ p.pc # "idle"
    BY <1>1, <1>2 DEF FinalizeRevocation, finalizeSecret, At
  <2>3. Tame(q, p)
    BY <2>2 DEF Tame, WorkerSteps, Attaching, Counted
  <2> QED BY <1>1, <2>1, <2>2, <2>3, QuietGoes
<1>3. CASE waitForRelease(w)
  <2>1. Quiet /\ Stops(w) /\ wk[w].pc # "idle"
    BY <1>3, QuietStay, RecordedIs DEF waitForRelease, AttachInv, At
  <2> QED BY <2>1, QuietStops DEF Stops
<1>4. CASE quarantineACPWorkspacePastDetachTimeout(w)
  <2>1. p.pc = "late" /\ granted' = granted /\ task' = task /\ lease' = lease /\ secret' = secret
        /\ fresh' \subseteq fresh \cup {w} /\ Goes(w, "qsecret")
    BY <1>1, <1>4 DEF quarantineACPWorkspacePastDetachTimeout, At, Writes
  <2>2. ws'.epoch = ws.epoch /\ ws'.receipt = ws.receipt /\ ws'.att = ws.att
    BY <1>4 DEF quarantineACPWorkspacePastDetachTimeout, Writes, AttachInv, Types, WsRec
  <2>3. Quiet
    BY <2>1, <2>2, QuietWrite
  <2>4. Tame("qsecret", p)
    BY <2>1 DEF Tame, WorkerSteps, Attaching, Counted
  <2> QED BY <1>1, <2>1, <2>3, <2>4, QuietGoes
<1> QED BY <1>2, <1>3, <1>4

\* The environment, a bearer that expires, a resumption and a crash.
LEMMA BearersEnv ==
    ASSUME AttachInv, AttachInv', RecordInv, Bearers,
           \/ adapterSync \/ (expire /\ ~strayed') \/ (\E w \in Workers : crash(w)) \/ (\E w \in Workers, t \in Tasks : resumeWorkspace(w, t))
    PROVE  Bearers'
<1>1. CASE adapterSync
  <2>1. Quiet
    BY <1>1, SyncIs, QuietWrite DEF adapterSync
  <2>2. wk' = wk /\ fresh' \subseteq fresh
    BY <1>1 DEF adapterSync
  <2> QED BY <2>1, <2>2, QuietStill
<1>2. ASSUME NEW w \in Workers, crash(w) PROVE Bearers'
  <2>1. Quiet /\ Stops(w) /\ wk[w].pc # "idle"
    BY <1>2, QuietStay, RecordedIs DEF crash, AttachInv, At
  <2> QED BY <2>1, QuietStops DEF Stops
<1>3. ASSUME NEW w \in Workers, NEW t \in Tasks, resumeWorkspace(w, t) PROVE Bearers'
  <2>1. ws'.epoch = ws.epoch /\ ws'.receipt = ws.receipt /\ ws'.att = ws.att
    BY <1>3 DEF resumeWorkspace, WritesLast, AttachInv, Types, WsRec
  <2>2. granted' = granted /\ task' = task /\ lease' = lease /\ secret' = secret /\ wk' = wk /\ fresh' \subseteq fresh
    BY <1>3 DEF resumeWorkspace, WritesLast
  <2>3. Quiet
    BY <2>1, <2>2, QuietWrite
  <2> QED BY <2>2, <2>3, QuietStill
<1>4. CASE expire /\ ~strayed'
  <2>1. /\ ws.att # NoAtt /\ ws' = [ws EXCEPT !.att.expired = TRUE] /\ granted' = granted /\ task' = task
        /\ lease' = lease /\ secret' = secret /\ wk' = wk /\ fresh' \subseteq fresh
    BY <1>4 DEF expire
  <2>2. \A e \in Epochs : Live(e)' => Live(e)
    BY <2>1 DEF Live, Last
  <2>3. Quiet
    BY <2>1, <2>2, ExpiredIs DEF Quiet
  <2> QED BY <2>1, <2>3, QuietStill
<1> QED BY <1>1, <1>2, <1>3, <1>4

\* A bearer that is still there has the workspace's epoch and its Task has the Lease.
LEMMA LiveIs ==
    ASSUME AttachInv, Bearers, NEW e \in Epochs, Live(e)
    PROVE  /\ granted[e].task \in Tasks /\ granted[e].task # 0 /\ e # 0 /\ ws.epoch = e /\ lease.holder = granted[e].task
           /\ e <= lease.epoch /\ Covers(e)
<1>1. granted[e].task \in 0 .. NumTasks /\ granted[e].task # 0
  BY DEF AttachInv, Types, GrantRec, Live, Last
<1>2. granted[e].task \in Tasks
  BY SMTT(60), <1>1 DEF Tasks
<1>3. e # 0
  BY SMTT(60) DEF Epochs
<1>4. Covers(e)
  BY DEF Bearers
<1> QED BY <1>1, <1>2, <1>3, <1>4 DEF Covers

\* A current attempt that is about to patch has the Lease, at the next epoch.
LEMMA PatcherIs ==
    ASSUME AttachInv, Bearers, NEW v \in Workers, wk[v].pc = "patch", v \in fresh
    PROVE  /\ wk[v].task \in Tasks /\ wk[v].task # 0 /\ lease.holder = wk[v].task /\ lease.epoch = wk[v].epoch
           /\ wk[v].epoch = ws.epoch + 1 /\ Valid(wk[v].task)
<1>1. wk[v].task \in Tasks /\ wk[v].epoch = ws.epoch + 1 /\ Valid(wk[v].task)
  BY WorkerIs DEF Shape, Fits
<1>2. wk[v].task # 0
  BY SMTT(60), <1>1 DEF Tasks
<1> QED BY <1>1, <1>2 DEF Bearers, Fenced

\* A step on the Lease.
LEMMA LeaseMove ==
    ASSUME AttachInv, Bearers, NEW w \in Workers, NEW t, Own(w, t), NEW r \in WorkerRec, wk' = Put(w, r), Shape(r),
           r.pc = "idle" \/ r.task = t, ws' = ws, granted' = granted, task' = task, secret' = secret, Alone(r),
           w \in fresh' => Fenced(r)', fresh' \subseteq fresh, ~lease'.expired,
           \A e \in Epochs : Live(e) => lease'.holder = granted[e].task /\ e <= lease'.epoch,
           \A v \in Workers : v # w /\ wk[v].pc = "patch" => v \notin fresh
    PROVE  Bearers'
<1>1. \A e \in Epochs : Live(e)' <=> Live(e)
  BY DEF Live, Last
<1>2. Aside(t)
  BY <1>1 DEF Aside
<1>3. Alone(r)'
  BY <1>1 DEF Alone, Revoking, Entitled, NoGrant, Newest
<1>4. Attends'
  BY DEF Bearers, Single, Attends
<1>5. \A v \in Workers : v # w /\ wk[v].pc = "patch" /\ v \in fresh' =>
               v \in fresh /\ lease'.holder = lease.holder /\ lease'.epoch = lease.epoch
  OBVIOUS
<1>6. ASSUME NEW e \in Epochs, Live(e)' PROVE Covers(e)'
  <2>1. Live(e) /\ Covers(e)
    BY <1>1, <1>6, LiveIs
  <2> QED BY <2>1 DEF Covers
<1> QED BY <1>2, <1>3, <1>4, <1>5, <1>6, BearersMove

\* While a Task has the Lease, or nobody has, no bearer of another Task is there and no other
\* attempt is about to patch.
LEMMA LeaseAlone ==
    ASSUME AttachInv, Bearers, NEW w \in Workers, NEW t, Own(w, t), lease.holder \in {0, t}
    PROVE  /\ \A e \in Epochs : Live(e) => granted[e].task = t /\ e <= lease.epoch
           /\ \A v \in Workers : v # w /\ wk[v].pc = "patch" => v \notin fresh
<1>1. ASSUME NEW e \in Epochs, Live(e) PROVE granted[e].task = t /\ e <= lease.epoch
  BY <1>1, LiveIs
<1>2. ASSUME NEW v \in Workers, v # w, wk[v].pc = "patch", v \in fresh PROVE FALSE
  BY <1>2, PatcherIs DEF Own
<1> QED BY <1>1, <1>2

\* The Lease is acquired, or its holder keeps it.
LEMMA BearersAcquire ==
    ASSUME AttachInv, AttachInv', RecordInv, Bearers, NEW w \in Workers, acquireLease(w)
    PROVE  Bearers'
<1>1. /\ wk[w].pc = "lease" /\ wk[w].pc \in Attaching /\ wk[w].pc # "idle"
      /\ ws' = ws /\ granted' = granted /\ task' = task /\ secret' = secret
  BY DEF acquireLease, At, Attaching
<1>2. CASE Stops(w) /\ lease' = lease
  <2>1. Quiet
    BY <1>1, <1>2, QuietWrite
  <2> QED BY <1>1, <1>2, <2>1, QuietStops DEF Stops
<1>3. CASE LeaseFits(Task(w))
  <2>1. PICK t : t = wk[w].task
    OBVIOUS
  <2>2. Own(w, t) /\ Entitled(t) /\ t \in 0 .. NumTasks
    BY <1>1, <2>1, OwnIs, AttemptIs, WorkerIs DEF Bearers
  <2>3. lease.holder \in {0, t}
    BY <1>3, <2>1 DEF LeaseFits, Task, Bearers, Single
  <2> DEFINE c == lease.holder # Task(w) \/ lease.expired
             r == [wk[w] EXCEPT !.pc = "read", !.claimed = c]
  <2>4. wk' = Put(w, r) /\ fresh' = fresh /\ lease' = [lease EXCEPT !.holder = t, !.expired = FALSE]
    BY <1>3, <2>1 DEF acquireLease, Put, Task
  <2>5. c \in BOOLEAN
    BY DEF Bearers, Single
  <2>6. "read" \in WorkerSteps
    BY DEF WorkerSteps
  <2> HIDE DEF c
  <2>7. r \in WorkerRec /\ r.pc = "read" /\ r.task = t
    BY <2>1, <2>5, <2>6, WorkerIs DEF WorkerRec
  <2> HIDE DEF r
  <2>8. PICK p \in WorkerRec : p = r
    BY <2>7
  <2>9. 0 \in 0 .. MaxEpoch
    BY SMTT(60), AttachmentAssumption
  <2>10. lease'.holder = t /\ lease'.epoch = lease.epoch /\ ~lease'.expired
    BY <2>2, <2>4, <2>9, LeaseIs DEF AttachInv
  <2>11. Shape(p)
    <3>1. wk'[w] = p
      BY <2>4, <2>7, <2>8, PutIs DEF AttachInv, Types
    <3>2. Shape(wk[w])'
      BY DEF AttachInv, Sound
    <3> QED BY <3>1, <3>2 DEF Shape
  <2>12. Alone(p) /\ Fenced(p)'
    BY <1>1, <2>1, <2>2, <2>7, <2>8, AttemptIs DEF Alone, Revoking, Fenced, Counted
  <2>13. \A e \in Epochs : Live(e) => lease'.holder = granted[e].task /\ e <= lease'.epoch
    BY <2>2, <2>3, <2>10, LeaseAlone
  <2> QED BY <1>1, <2>2, <2>3, <2>4, <2>7, <2>8, <2>10, <2>11, <2>12, <2>13, LeaseAlone, LeaseMove
<1> QED BY <1>2, <1>3 DEF acquireLease

\* The Lease is fenced to the epoch, was lost, or the answer was.
LEMMA BearersRenew ==
    ASSUME AttachInv, AttachInv', RecordInv, Bearers, NEW w \in Workers, renewAttachmentLeaseFence(w)
    PROVE  Bearers'
<1>1. /\ wk[w].pc = "renew" /\ wk[w].pc \in Attaching /\ wk[w].pc # "idle" /\ fresh' = fresh
      /\ ws' = ws /\ granted' = granted /\ task' = task /\ secret' = secret
  BY DEF renewAttachmentLeaseFence, At, Attaching
<1>2. PICK t : t = wk[w].task
  OBVIOUS
<1>3. Own(w, t) /\ Entitled(t) /\ t \in 0 .. NumTasks /\ ~task[t].settled /\ ws.receipt[1] # t
  BY <1>1, <1>2, OwnIs, AttemptIs, WorkerIs DEF Bearers
<1>4. ASSUME NEW r \in WorkerRec, wk' = Put(w, r), r.pc \in {"patch", "clean"}, r.task = t, r.epoch = wk[w].epoch,
             lease.holder = t, ~lease.expired, lease' = [lease EXCEPT !.epoch = wk[w].epoch]
      PROVE  Bearers'
  <2>1. wk[w].epoch \in 0 .. MaxEpoch
    BY WorkerIs
  <2>2. lease'.holder = t /\ lease'.epoch = wk[w].epoch /\ ~lease'.expired
    BY <1>3, <1>4, <2>1, LeaseIs DEF AttachInv
  <2>3. Shape(r)
    <3>1. wk'[w] = r
      BY <1>4, PutIs DEF AttachInv, Types
    <3>2. Shape(wk[w])'
      BY DEF AttachInv, Sound
    <3> QED BY <3>1, <3>2 DEF Shape
  <2>4. \A f \in Epochs : granted[f].task = t => f <= wk[w].epoch
    BY <1>1, <1>2 DEF Bearers, Alone, Counted, Newest
  <2>5. Alone(r)
    BY <1>3, <1>4, <2>4 DEF Alone, Revoking, Newest
  <2>6. Fenced(r)'
    BY <1>4, <2>2 DEF Fenced
  <2>7. \A e \in Epochs : Live(e) => lease'.holder = granted[e].task /\ e <= lease'.epoch
    BY <1>3, <1>4, <2>2, <2>4, LeaseAlone
  <2> QED BY <1>1, <1>3, <1>4, <2>2, <2>3, <2>5, <2>6, <2>7, LeaseAlone, LeaseMove
<1>5. ASSUME Unfenced(w)
      PROVE  \E r \in WorkerRec : wk' = Put(w, r) /\ r.pc = "clean" /\ r.task = t /\ r.epoch = wk[w].epoch
  <2> DEFINE r == [wk[w] EXCEPT !.pc = "clean", !.keep = TRUE]
  <2>1. wk' = Put(w, r)
    BY <1>5 DEF Unfenced, Put
  <2>2. "clean" \in WorkerSteps
    BY DEF WorkerSteps
  <2>3. r \in WorkerRec /\ r.pc = "clean" /\ r.task = t /\ r.epoch = wk[w].epoch
    BY <1>2, <2>2, WorkerIs DEF WorkerRec
  <2> QED BY <2>1, <2>3
<1>6. CASE lease.holder = Task(w) /\ ~lease.expired /\ lease' = [lease EXCEPT !.epoch = wk[w].epoch] /\ Goes(w, "patch")
  <2>1. "patch" \in WorkerSteps
    BY DEF WorkerSteps
  <2>2. PICK r \in WorkerRec : wk' = Put(w, r) /\ r.pc = "patch" /\ Like(r, wk[w])
    BY <1>6, <2>1, GoesIs DEF AttachInv, Types
  <2> QED BY <1>2, <1>4, <1>6, <2>2 DEF Like, Task
<1>7. CASE lease.holder = Task(w) /\ ~lease.expired /\ lease' = [lease EXCEPT !.epoch = wk[w].epoch] /\ Unfenced(w)
  BY <1>2, <1>4, <1>5, <1>7 DEF Task
<1>8. CASE Unfenced(w) /\ lease' = lease
  <2>1. PICK r \in WorkerRec : wk' = Put(w, r) /\ r.pc = "clean" /\ r.task = t
    BY <1>5, <1>8
  <2>2. Quiet
    BY <1>1, <1>8, QuietWrite
  <2> QED BY <1>1, <1>2, <1>3, <2>1, <2>2, QuietAttempt
<1> QED BY <1>6, <1>7, <1>8 DEF renewAttachmentLeaseFence

\* The Lease a failed attempt claimed is deleted: nobody else relies on it.
LEMMA BearersUnlease ==
    ASSUME AttachInv, AttachInv', RecordInv, Bearers, NEW w \in Workers, cleanupLease(w)
    PROVE  Bearers'
<1>1. /\ wk[w].pc = "unlease" /\ wk[w].pc # "idle" /\ Idles(w) /\ fresh' \subseteq fresh
      /\ ws' = ws /\ granted' = granted /\ task' = task /\ secret' = secret
  BY DEF cleanupLease, At, Stops
<1>2. CASE lease' = lease
  <2>1. Quiet
    BY <1>1, <1>2, QuietWrite
  <2> QED BY <1>1, <2>1, QuietStops
<1>3. CASE lease' = NoLease /\ wk[w].claimed /\ lease.holder = Task(w)
  <2>1. PICK t : t = wk[w].task
    OBVIOUS
  <2>2. Own(w, t) /\ NoGrant(t) /\ lease.holder = t
    BY <1>1, <1>3, <2>1, OwnIs DEF Bearers, Alone, Task
  <2>3. wk' = Put(w, Idle)
    BY <1>1 DEF Idles, Put
  <2>4. PICK r \in WorkerRec : r = Idle
    BY IdleIs
  <2>5. Shape(r) /\ r.pc = "idle" /\ Alone(r) /\ Fenced(r)'
    BY <2>4, IdleIs, SoundIdle, AloneIdle DEF Idle
  <2>6. ~lease'.expired
    BY <1>3 DEF NoLease
  <2>7. \A e \in Epochs : ~Live(e)
    BY <2>2, LeaseAlone DEF NoGrant
  <2> QED BY <1>1, <2>2, <2>3, <2>4, <2>5, <2>6, <2>7, LeaseAlone, LeaseMove
<1> QED BY <1>2, <1>3 DEF cleanupLease

\* The Lease of a revoked epoch is deleted: an attempt that is about to patch has fenced it to
\* a later epoch.
LEMMA BearersUnhold ==
    ASSUME AttachInv, AttachInv', RecordInv, Bearers, NEW w \in Workers, deleteWorkspaceOwnedAttachmentLeaseForEpoch(w)
    PROVE  Bearers'
<1>1. /\ wk[w].pc = "unhold" /\ wk[w].pc # "idle" /\ fresh' = fresh
      /\ ws' = ws /\ granted' = granted /\ task' = task /\ secret' = secret
  BY DEF deleteWorkspaceOwnedAttachmentLeaseForEpoch, At
<1>2. CASE Goes(w, "late") /\ lease' = lease
  <2>1. Quiet
    BY <1>1, <1>2, QuietWrite
  <2>2. PICK p : p = wk[w]
    OBVIOUS
  <2>3. Tame("late", p)
    BY <1>1, <2>2 DEF Tame, WorkerSteps, Attaching, Counted
  <2> QED BY <1>1, <1>2, <2>1, <2>2, <2>3, QuietGoes
<1>3. CASE lease.epoch \in {0, wk[w].epoch} /\ lease' = NoLease /\ Goes(w, "suspend")
  <2>1. PICK t : t = wk[w].task
    OBVIOUS
  <2>2. Own(w, t) /\ wk[w].epoch \in Epochs /\ wk[w].epoch <= ws.epoch
    BY <1>1, <2>1, OwnIs, WorkerIs DEF Bearers, Shape, Numbered, Behind, Settling
  <2>3. wk[w].epoch # 0
    BY SMTT(60), <2>2 DEF Epochs
  <2>4. ASSUME NEW e \in Epochs, Live(e) PROVE FALSE
    <3>1. e = ws.epoch /\ e <= lease.epoch /\ lease.epoch \in 0 .. MaxEpoch
      BY <2>4, LiveIs DEF AttachInv, Types, LeaseRec
    <3>2. e = wk[w].epoch
      BY SMTT(60), <1>3, <2>2, <3>1 DEF Epochs
    <3> QED BY <1>1, <2>3, <2>4, <3>2, RecordedIs DEF Recorded
  <2>5. ASSUME NEW v \in Workers, v # w, wk[v].pc = "patch", v \in fresh PROVE FALSE
    <3>1. lease.epoch = ws.epoch + 1 /\ ws.epoch \in 0 .. MaxEpoch
      BY <2>5, PatcherIs, WsIs DEF AttachInv
    <3> QED BY SMTT(60), <1>3, <2>2, <3>1 DEF Epochs
  <2>6. "suspend" \in WorkerSteps
    BY DEF WorkerSteps
  <2>7. PICK r \in WorkerRec : wk' = Put(w, r) /\ r.pc = "suspend" /\ Like(r, wk[w])
    BY <1>3, <2>6, GoesIs DEF AttachInv, Types
  <2>8. r.task = t
    BY <2>1, <2>7 DEF Like
  <2>9. Shape(r)
    <3>1. wk'[w] = r
      BY <2>7, PutIs DEF AttachInv, Types
    <3>2. Shape(wk[w])'
      BY DEF AttachInv, Sound
    <3> QED BY <3>1, <3>2 DEF Shape
  <2>10. Alone(r) /\ Fenced(r)'
    BY <2>4, <2>7 DEF Alone, Attaching, Revoking, Fenced, Counted
  <2>11. ~lease'.expired
    BY <1>3 DEF NoLease
  <2> QED BY <1>1, <2>2, <2>4, <2>5, <2>7, <2>8, <2>9, <2>10, <2>11, LeaseMove
<1> QED BY <1>2, <1>3 DEF deleteWorkspaceOwnedAttachmentLeaseForEpoch

\* A Task whose bearers are gone is marked settled; the Lease may be deleted with no bearer left.
LEMMA SettleMove ==
    ASSUME AttachInv, Bearers, NEW w \in Workers, NEW t, Own(w, t), NEW r \in WorkerRec, wk' = Put(w, r), Shape(r),
           r.pc = "idle", ws' = ws, granted' = granted, secret' = secret, task' = SetSettled(t), fresh' \subseteq fresh,
           \A e \in Epochs : granted[e].task = t => ~Live(e),
           \/ lease' = lease
           \/ /\ lease' = NoLease /\ \A e \in Epochs : ~Live(e)
              /\ \A v \in Workers : v # w /\ wk[v].pc = "patch" => v \notin fresh
    PROVE  Bearers'
<1>1. \A u \in Tasks : /\ task'[u].ended = task[u].ended /\ task'[u].epoch = task[u].epoch
                       /\ u # t => task'[u] = task[u]
  <2>1. 0 \in 0 .. MaxEpoch /\ t \in Tasks
    BY SMTT(60), AttachmentAssumption DEF Own
  <2> QED BY <2>1, TaskIs DEF AttachInv
<1>2. \A e \in Epochs : Live(e)' <=> Live(e)
  BY DEF Live, Last
<1>3. Aside(t)
  BY <1>1, <1>2 DEF Aside
<1>4. Alone(r)' /\ Fenced(r)'
  BY DEF Alone, Fenced, Attaching, Revoking, Counted
<1>5. ~lease'.expired
  <2>1. NoLease.expired = FALSE
    BY DEF NoLease
  <2>2. ~lease.expired
    BY DEF Bearers, Single
  <2> QED BY <2>1, <2>2
<1>6. Attends'
  BY <1>1, GrantsStay DEF Bearers
<1>7. ASSUME NEW e \in Epochs, Live(e)' PROVE Covers(e)'
  <2>1. Live(e) /\ lease' = lease
    BY <1>2, <1>7
  <2>2. granted[e].task \in Tasks /\ granted[e].task # t /\ Covers(e)
    BY <2>1, LiveIs
  <2>3. task'[granted[e].task] = task[granted[e].task]
    BY <1>1, <2>2
  <2> QED BY <2>1, <2>2, <2>3 DEF Covers
<1>8. \A v \in Workers : v # w /\ wk[v].pc = "patch" /\ v \in fresh' =>
               v \in fresh /\ lease'.holder = lease.holder /\ lease'.epoch = lease.epoch
  OBVIOUS
<1> QED BY <1>3, <1>4, <1>5, <1>6, <1>7, <1>8, BearersMove

\* The quarantine deletes the bearer and the Lease and releases the Task.
LEMMA BearersQuarantine ==
    ASSUME AttachInv, AttachInv', RecordInv, Bearers, NEW w \in Workers, deleteACPWorkspaceAttachmentCredentials(w)
    PROVE  Bearers'
<1>1. PICK p : p = wk[w]
  OBVIOUS
<1>2. CASE /\ At(w, "qsecret") /\ Goes(w, "qlease")
           /\ secret' = IF wk[w].epoch > 0 THEN [secret EXCEPT ![wk[w].epoch] = 0] ELSE secret
           /\ UNCHANGED <<ws, lease, task, fresh, granted, bearers, faults>>
  <2>1. Quiet /\ fresh' \subseteq fresh \cup {w}
    BY <1>2, QuietStay, RecordedIs DEF AttachInv
  <2>2. p.pc = "qsecret" /\ p.epoch = ws.epoch
    BY <1>1, <1>2, RecordedIs DEF Recorded, At
  <2>3. ASSUME NEW e \in Epochs, Live(e)' PROVE FALSE
    <3>1. Live(e)
      BY <2>1, <2>3 DEF Quiet
    <3>2. e = wk[w].epoch
      BY <1>1, <2>2, <3>1, LiveIs
    <3>3. e > 0
      BY SMTT(60) DEF Epochs
    <3>4. secret' = [secret EXCEPT ![e] = 0] /\ granted' = granted
      BY <1>2, <3>2, <3>3
    <3> QED BY <2>3, <3>4, GoneNotLive, RecordedIs DEF AttachInv
  <2>4. Tame("qlease", p)
    BY <2>2, <2>3 DEF Tame, WorkerSteps, Attaching, Counted
  <2> QED BY <1>1, <1>2, <2>1, <2>4, QuietGoes
<1>3. CASE /\ At(w, "qlease") /\ lease' = NoLease /\ Stops(w) /\ task' = [task EXCEPT ![Task(w)].settled = TRUE]
           /\ UNCHANGED <<ws, secret, granted, bearers, faults>>
  <2>1. PICK t : t = wk[w].task
    OBVIOUS
  <2>2. /\ wk[w].pc = "qlease" /\ wk[w].pc # "idle" /\ wk' = Put(w, Idle) /\ fresh' \subseteq fresh
        /\ task' = SetSettled(t) /\ ws.desired = "Quarantined" /\ wk[w].epoch = ws.epoch
    BY <1>3, <2>1, RecordedIs DEF At, Stops, Idles, Put, SetSettled, Task, Recorded
  <2>3. Own(w, t)
    BY <2>1, <2>2, OwnIs DEF Bearers
  <2>4. ASSUME NEW e \in Epochs, Live(e) PROVE FALSE
    <3>1. e = wk[w].epoch /\ e # 0
      BY <2>2, <2>4, LiveIs
    <3> QED BY <2>2, <2>4, <3>1, RecordedIs DEF Recorded
  <2>5. ASSUME NEW v \in Workers, v # w, wk[v].pc = "patch", v \in fresh PROVE FALSE
    BY <2>2, <2>5, PatcherIs DEF Valid, Reusable, Handshake, Rotatable
  <2>6. PICK r \in WorkerRec : r = Idle
    BY IdleIs
  <2>7. Shape(r) /\ r.pc = "idle"
    BY <2>6, IdleIs, SoundIdle
  <2> QED BY <1>3, <2>2, <2>3, <2>4, <2>5, <2>6, <2>7, SettleMove
<1> QED BY <1>2, <1>3 DEF deleteACPWorkspaceAttachmentCredentials

\* A settlement that ends marks its Task.
LEMMA BearersMark ==
    ASSUME AttachInv, AttachInv', RecordInv, Bearers, NEW w \in Workers, markACPTaskWorkspaceSettled(w)
    PROVE  Bearers'
<1>1. PICK t : t = wk[w].task
  OBVIOUS
<1>2. /\ wk[w].pc = "mark" /\ wk[w].pc # "idle" /\ wk' = Put(w, Idle) /\ fresh' \subseteq fresh
      /\ task' = SetSettled(t) /\ ws' = ws /\ granted' = granted /\ secret' = secret /\ lease' = lease
  BY <1>1 DEF markACPTaskWorkspaceSettled, At, Stops, Idles, Put, SetSettled, Task
<1>3. Own(w, t)
  BY <1>1, <1>2, OwnIs DEF Bearers
<1>4. \A e \in Epochs : granted[e].task = t => ~Live(e)
  BY <1>1, <1>2 DEF Bearers, Alone
<1>5. PICK r \in WorkerRec : r = Idle
  BY IdleIs
<1>6. Shape(r) /\ r.pc = "idle"
  BY <1>5, IdleIs, SoundIdle
<1> QED BY <1>2, <1>3, <1>4, <1>5, <1>6, SettleMove

\* A Task that another attachment or a receipt covers has no bearer left.
LEMMA CoveredGone ==
    ASSUME AttachInv, RecordInv, Bearers, NEW t \in Tasks, Covered(t) \/ ByOther(t), NEW e \in Epochs, granted[e].task = t,
           Live(e)
    PROVE  FALSE
<1>1. /\ ws.epoch = e /\ ws.receipt[1] # t /\ ws.receipt[2] < e /\ e # 0
      /\ ws.att = NoAtt => task[t].ended /\ task[t].epoch = e
  BY LiveIs DEF Covers
<1>2. CASE ws.att # NoAtt
  <2>1. ws.att.epoch = e /\ granted[ws.att.epoch].task = ws.att.task
    BY <1>1, <1>2 DEF AttachInv, WsInv
  <2>2. ws.att.task = t
    BY <2>1
  <2> QED BY <2>2 DEF Covered, ByOther
<1>3. CASE ws.att = NoAtt
  <2>1. acpWorkspaceSettlementReceiptCoversTask(t)
    BY <1>3 DEF Covered, ByOther
  <2>2. ws.receipt[2] >= e
    BY <1>1, <1>3, <2>1 DEF acpWorkspaceSettlementReceiptCoversTask
  <2>3. ws.receipt[2] \in 0 .. MaxEpoch
    BY WsIs DEF AttachInv
  <2> QED BY SMTT(60), <1>1, <2>2, <2>3 DEF Epochs
<1> QED BY <1>2, <1>3

\* A settlement begins, or finds its Task settled by others.
LEMMA BearersSettle ==
    ASSUME AttachInv, AttachInv', RecordInv, Bearers, NEW w \in Workers, NEW t \in Tasks, settleACPClassWorkspace(w, t),
           ~strayed'
    PROVE  Bearers'
<1>1. /\ task[t].ended /\ ws' = ws /\ granted' = granted /\ secret' = secret /\ lease' = lease /\ Takes(w, t)
  BY DEF settleACPClassWorkspace
<1>2. Own(w, t) /\ wk[w].pc = "idle"
  BY <1>1, TakesOwn, TakesIs DEF AttachInv
<1>3. CASE Covered(t) \/ ByOther(t)
  <2>1. task' = SetSettled(t) /\ wk' = wk /\ fresh' \subseteq fresh
    BY <1>3 DEF settleACPClassWorkspace, SetSettled
  <2>2. PICK r \in WorkerRec : r = wk[w]
    BY WorkerIs
  <2>3. wk' = Put(w, r) /\ Shape(r) /\ r.pc = "idle"
    BY <1>2, <2>1, <2>2, PutSame, WorkerIs
  <2>4. \A e \in Epochs : granted[e].task = t => ~Live(e)
    BY <1>3, CoveredGone
  <2> QED BY <1>1, <1>2, <2>1, <2>2, <2>3, <2>4, SettleMove
<1>4. CASE ~(Covered(t) \/ ByOther(t))
  <2>1. ws.att # NoAtt => ws.att.task = t
    BY <1>4 DEF ByOther
  <2>2. ws.att # NoAtt => ws.epoch = ws.att.epoch
    BY <2>1, TaskAttached
  <2>3. /\ \A u \in Tasks : /\ task'[u].settled = task[u].settled /\ task'[u].ended = task[u].ended
                            /\ u # t => task'[u] = task[u]
        /\ ws.att # NoAtt => task'[t].epoch = ws.epoch
        /\ ws.att = NoAtt => task' = task
    <3>1. CASE ws.att # NoAtt
      <4>1. task' = SetEpoch(t, ws.att.epoch)
        BY <1>4, <3>1 DEF settleACPClassWorkspace, SetEpoch
      <4> QED BY <2>2, <3>1, <4>1, WsIs, TaskIs DEF AttachInv
    <3>2. CASE ws.att = NoAtt
      BY <1>4, <3>2 DEF settleACPClassWorkspace
    <3> QED BY <3>1, <3>2
  <2> DEFINE k == Stamped
             c == ws.att # NoAtt
             q == IF ws.epoch > 0 THEN "stamp" ELSE "suspend"
             d == DetachPlan(t)
             r == [Idle EXCEPT !.pc = q, !.task = t, !.epoch = ws.epoch, !.keep = k, !.claimed = c, !.plan = d]
  <2>4. wk' = Put(w, r) /\ fresh' \subseteq fresh \cup {w}
    BY <1>4 DEF settleACPClassWorkspace, Put, Reads
  <2>5. k \in BOOLEAN /\ c \in BOOLEAN /\ d \in Plans /\ (d = "credentials" => ws.desired = "Quarantined")
    BY PlanIs DEF Stamped
  <2>6. q \in {"stamp", "suspend"} /\ q \in WorkerSteps /\ (q = "suspend" => ~(ws.epoch > 0))
    BY DEF WorkerSteps
  <2>7. t \in 0 .. NumTasks /\ ws.epoch \in 0 .. MaxEpoch
    <3>1. t \in 0 .. NumTasks
      BY SMTT(60) DEF Tasks
    <3> QED BY <3>1, WsIs DEF AttachInv
  <2>8. c => task'[t].epoch = ws.epoch
    BY <2>3
  <2> HIDE DEF k, c, q, d
  <2>9. r \in WorkerRec /\ r.pc = q /\ r.task = t /\ r.epoch = ws.epoch /\ r.claimed = c
    BY <2>5, <2>6, <2>7, IdleIs DEF WorkerRec
  <2> HIDE DEF r
  <2>10. PICK p \in WorkerRec : p = r
    BY <2>9
  <2>11. Shape(p)
    <3>1. wk'[w] = p
      BY <2>4, <2>9, <2>10, PutIs DEF AttachInv, Types
    <3>2. Shape(wk[w])'
      BY DEF AttachInv, Sound
    <3> QED BY <3>1, <3>2 DEF Shape
  <2>12. \A e \in Epochs : Live(e)' <=> Live(e)
    BY <1>1 DEF Live, Last
  <2>13. ASSUME p.pc = "suspend", NEW e \in Epochs, Live(e) PROVE FALSE
    <3>1. ws.epoch = e /\ ~(ws.epoch > 0)
      BY <2>6, <2>9, <2>10, <2>13, LiveIs
    <3> QED BY SMTT(60), <3>1 DEF Epochs
  <2>14. p.pc \in {"stamp", "suspend"} /\ (p.claimed => task'[p.task].epoch = p.epoch) /\ Newest(p)'
    <3>1. p.claimed = c /\ p.task = t /\ p.epoch = ws.epoch /\ p.pc = q
      BY <2>9, <2>10
    <3>2. p.claimed => task'[p.task].epoch = p.epoch
      BY <1>1, <2>8, <3>1
    <3>3. Newest(p)'
      BY <1>1, <3>1, AttachedLast DEF Newest
    <3> QED BY <2>6, <3>1, <3>2, <3>3
  <2>15. Alone(p)' /\ Fenced(p)'
    BY <2>12, <2>13, <2>14 DEF Alone, Attaching, Revoking, Fenced, Counted
  <2>16. Aside(t)
    BY <1>1, <2>3, <2>12 DEF Aside
  <2>17. Attends'
    BY <1>1, <2>3, GrantsStay DEF Bearers
  <2>18. ASSUME NEW e \in Epochs, Live(e)' PROVE Covers(e)'
    <3>1. Live(e)
      BY <2>12, <2>18
    <3>2. granted[e].task \in Tasks /\ Covers(e)
      BY <3>1, LiveIs
    <3> QED BY <1>1, <2>3, <3>2 DEF Covers
  <2>19. ~lease'.expired
    BY <1>1 DEF Bearers, Single
  <2>20. p.task = t /\ wk' = Put(w, p)
    BY <2>4, <2>9, <2>10
  <2>21. \A v \in Workers : v # w /\ wk[v].pc = "patch" /\ v \in fresh' =>
               v \in fresh /\ lease'.holder = lease.holder /\ lease'.epoch = lease.epoch
    BY <1>1, <2>4
  <2> QED BY <1>2, <2>11, <2>15, <2>16, <2>17, <2>18, <2>19, <2>20, <2>21, BearersMove
<1> QED BY <1>3, <1>4

\* The epoch of the attachment is recorded on its Task.
LEMMA BearersEpoch ==
    ASSUME AttachInv, AttachInv', RecordInv, Bearers, NEW w \in Workers, markACPTaskAttachmentEpoch(w)
    PROVE  Bearers'
<1>1. PICK t : t = wk[w].task
  OBVIOUS
<1>2. PICK g : g = wk[w].epoch
  OBVIOUS
<1>3. /\ wk[w].pc = "record" /\ wk[w].pc # "idle" /\ wk' = Put(w, Idle) /\ fresh' \subseteq fresh
      /\ task' = SetEpoch(t, g) /\ ws' = ws /\ granted' = granted /\ secret' = secret /\ lease' = lease
  BY <1>1, <1>2 DEF markACPTaskAttachmentEpoch, At, Stops, Idles, Put, SetEpoch, Task
<1>4. Own(w, t) /\ t \in Tasks /\ g \in Epochs /\ g \in 0 .. MaxEpoch /\ granted[g].task = t
  BY <1>1, <1>2, <1>3, OwnIs, WorkerIs, RecordedIs DEF Bearers, Own, Shape, Numbered, Recorded
<1>5. /\ task'[t].epoch = g
      /\ \A u \in Tasks : /\ task'[u].settled = task[u].settled /\ task'[u].ended = task[u].ended
                          /\ u # t => task'[u] = task[u]
  BY <1>3, <1>4, TaskIs DEF AttachInv
<1>6. \A e \in Epochs : Live(e)' <=> Live(e)
  BY <1>3 DEF Live, Last
<1>7. Aside(t)
  BY <1>3, <1>5, <1>6 DEF Aside
<1>8. PICK r \in WorkerRec : r = Idle
  BY IdleIs
<1>9. Shape(r) /\ r.pc = "idle" /\ Alone(r)' /\ Fenced(r)'
  BY <1>8, IdleIs, SoundIdle, AloneIdle DEF Idle
<1>10. Attends'
  BY <1>3, <1>5, GrantsStay DEF Bearers
<1>11. ASSUME NEW e \in Epochs, Live(e)' PROVE Covers(e)'
  <2>1. Live(e)
    BY <1>6, <1>11
  <2>2. granted[e].task \in Tasks /\ granted[e].task # 0 /\ Covers(e)
    BY <2>1, LiveIs
  <2>3. granted[e].task = t => g = e
    <3>1. granted[e].task = t => e <= g
      BY <1>1, <1>2, <1>3 DEF Bearers, Alone, Counted, Newest
    <3>2. granted[e].task = t => g <= e
      BY <1>4, <2>1 DEF Live, Last
    <3> QED BY SMTT(60), <1>4, <3>1, <3>2 DEF Epochs
  <2>4. task[granted[e].task].epoch = e => task'[granted[e].task].epoch = e
    BY <1>5, <2>2, <2>3
  <2> QED BY <1>3, <1>5, <2>2, <2>4 DEF Covers
<1>12. ~lease'.expired
  BY <1>3 DEF Bearers, Single
<1>13. \A v \in Workers : v # w /\ wk[v].pc = "patch" /\ v \in fresh' =>
               v \in fresh /\ lease'.holder = lease.holder /\ lease'.epoch = lease.epoch
  BY <1>3
<1> QED BY <1>3, <1>4, <1>7, <1>8, <1>9, <1>10, <1>11, <1>12, <1>13, BearersMove

\* The attachment is taken away: its Task has ended and its epoch is recorded.
LEMMA BearersRevoke ==
    ASSUME AttachInv, AttachInv', RecordInv, Bearers, NEW w \in Workers, BeginRevocation(w)
    PROVE  Bearers'
<1> DEFINE high == Highest({ws.epoch, wk[w].epoch, ws.attached})
<1>1. PICK t : t = wk[w].task
  OBVIOUS
<1>2. /\ wk[w].pc = "begin" /\ wk[w].pc # "idle" /\ granted' = granted /\ task' = task /\ lease' = lease /\ secret' = secret
  BY DEF BeginRevocation, At
<1>3. /\ Own(w, t) /\ t \in Tasks /\ wk[w].epoch \in Epochs /\ granted[wk[w].epoch].task = t /\ task[t].ended
      /\ task[t].epoch = wk[w].epoch
  BY <1>1, <1>2, OwnIs, WorkerIs, RecordedIs DEF Bearers, Own, Shape, Numbered, Recorded, Revoking, Settling, Alone
<1>4. high = ws.epoch
  <2>1. wk[w].epoch <= ws.epoch /\ ws.attached <= ws.epoch
    BY <1>2, WorkerIs DEF Behind, Settling, AttachInv, WsInv
  <2> QED BY <2>1, Ints, HighestIs DEF AttachInv
<1>5. CASE Stops(w) /\ UNCHANGED ws
  <2>1. Quiet
    BY <1>2, <1>5, QuietWrite
  <2> QED BY <1>2, <1>5, <2>1, QuietStops DEF Stops
<1>6. CASE /\ Idles(w) /\ WritesLast([ws EXCEPT !.att = NoAtt, !.epoch = high, !.seen = FALSE])
           /\ ws.att.epoch \in {0, wk[w].epoch}
  <2>1. ws' = [ws EXCEPT !.att = NoAtt, !.epoch = ws.epoch, !.seen = FALSE] /\ fresh' = {}
    BY <1>4, <1>6 DEF WritesLast
  <2>2. ws \in WsRec
    BY DEF AttachInv, Types
  <2>3. ws'.epoch = ws.epoch /\ ws'.att = NoAtt /\ ws'.receipt = ws.receipt
    BY <2>1, <2>2 DEF WsRec
  <2>4. ASSUME ws.att # NoAtt PROVE ws.att.task = t /\ ws.att.epoch = wk[w].epoch /\ ws.epoch = wk[w].epoch
    <3>1. ws.att.epoch \in Epochs /\ ws.att.epoch = ws.epoch /\ granted[ws.att.epoch].task = ws.att.task
      BY <2>4 DEF AttachInv, WsInv
    <3>2. ws.att.epoch # 0
      BY SMTT(60), <3>1 DEF Epochs
    <3> QED BY <1>3, <1>6, <3>1, <3>2
  <2>5. \A e \in Epochs : Live(e)' <=> Live(e)
    BY <1>2 DEF Live, Last
  <2>6. ws.att.task \in {0, t}
    BY <2>4, NoAttIs
  <2>7. Aside(t)
    BY <1>2, <2>3, <2>5, <2>6 DEF Aside
  <2>8. PICK r \in WorkerRec : r = Idle
    BY IdleIs
  <2>9. Shape(r) /\ r.pc = "idle" /\ Alone(r)' /\ Fenced(r)' /\ wk' = Put(w, r)
    BY <1>6, <2>8, IdleIs, SoundIdle, AloneIdle DEF Idle, Idles, Put
  <2>10. ASSUME NEW u \in Tasks, ws.att.task = u PROVE task'[u].ended
    <3>1. ws.att # NoAtt
      BY <2>10, TaskAttached
    <3> QED BY <1>2, <1>3, <2>4, <2>10, <3>1
  <2>11. Attends'
    BY <1>2, <2>10, GrantsStay DEF Bearers
  <2>12. ASSUME NEW e \in Epochs, Live(e)' PROVE Covers(e)'
    <3>1. Live(e)
      BY <2>5, <2>12
    <3>2. Covers(e) /\ ws.epoch = e
      BY <3>1, LiveIs
    <3>3. task[granted[e].task].ended /\ task[granted[e].task].epoch = e
      BY <1>3, <2>4, <3>2 DEF Covers
    <3> QED BY <1>2, <2>3, <3>2, <3>3 DEF Covers
  <2>13. ~lease'.expired
    BY <1>2, <2>3, NoAttIs DEF Bearers, Single
  <2>14. w \notin fresh' /\ \A v \in Workers : v # w /\ wk[v].pc = "patch" /\ v \in fresh' =>
               v \in fresh /\ lease'.holder = lease.holder /\ lease'.epoch = lease.epoch
    BY <2>1
  <2> QED BY <1>3, <2>7, <2>8, <2>9, <2>11, <2>12, <2>13, <2>14, BearersMove
<1> QED BY <1>5, <1>6 DEF BeginRevocation

\* The workspace is suspended with a receipt: no bearer is left that the receipt would cover.
LEMMA BearersDetach ==
    ASSUME AttachInv, AttachInv', RecordInv, Bearers, NEW w \in Workers, applyDetachAction(w)
    PROVE  Bearers'
<1>1. PICK p : p = wk[w]
  OBVIOUS
<1>2. /\ p.pc = "suspend" /\ wk[w].pc # "idle" /\ granted' = granted /\ task' = task /\ lease' = lease /\ secret' = secret
      /\ fresh' \subseteq fresh \cup {w}
  BY <1>1 DEF applyDetachAction, At, Stops, Writes
<1>3. CASE Stops(w) /\ UNCHANGED ws
  <2>1. Quiet
    BY <1>2, <1>3, QuietWrite
  <2> QED BY <1>2, <1>3, <2>1, QuietStops DEF Stops
<1>4. CASE Goes(w, "qsecret") /\ UNCHANGED <<ws, fresh>>
  <2>1. Quiet
    BY <1>2, <1>4, QuietWrite
  <2>2. Tame("qsecret", p)
    BY <1>2 DEF Tame, WorkerSteps, Attaching, Counted
  <2> QED BY <1>1, <1>2, <1>4, <2>1, <2>2, QuietGoes
<1>5. CASE Goes(w, "mark") /\ UNCHANGED <<ws, fresh>>
  <2>1. Quiet
    BY <1>2, <1>5, QuietWrite
  <2>2. Tame("mark", p)
    BY <1>2 DEF Tame, WorkerSteps, Attaching, Counted
  <2> QED BY <1>1, <1>2, <1>5, <2>1, <2>2, QuietGoes
<1>6. CASE /\ w \in fresh /\ Goes(w, "mark")
           /\ Writes(w, IF ws.desired = "Suspended" THEN Receipted(Task(w)) ELSE Suspended(Task(w)))
  <2>1. PICK t : t = p.task
    OBVIOUS
  <2>2. Own(w, t) /\ t \in Tasks /\ \A e \in Epochs : granted[e].task = t => ~Live(e)
    BY <1>1, <1>2, <2>1, OwnIs DEF Bearers, Own, Alone
  <2>3. ws.att = NoAtt /\ LetGo
    BY <1>1, <1>2, <1>6, WorkerIs DEF Fits, Detached, Freed
  <2>4. ws' = Receipted(t) \/ ws' = Suspended(t)
    BY <1>1, <1>6, <2>1 DEF Writes, Task
  <2>5. ws'.epoch = ws.epoch /\ ws'.att = ws.att /\ (ws'.receipt = ws.receipt \/ ws'.receipt = <<t, task[t].epoch>>)
    BY <2>2, <2>3, <2>4, DetachWrites
  <2>6. <<t, task[t].epoch>>[1] = t /\ <<t, task[t].epoch>>[2] = task[t].epoch
    OBVIOUS
  <2>7. \/ ws'.receipt = ws.receipt
        \/ ws'.receipt[1] = t /\ ws'.receipt[2] = task[t].epoch
    BY <2>5, <2>6
  <2>8. \A e \in Epochs : Live(e)' <=> Live(e)
    BY <1>2 DEF Live, Last
  <2>9. ws'.receipt[1] \in {ws.receipt[1], t}
    BY <2>7
  <2>10. Aside(t)
    BY <1>2, <2>5, <2>8, <2>9 DEF Aside
  <2>11. "mark" \in WorkerSteps
    BY DEF WorkerSteps
  <2>12. PICK r \in WorkerRec : wk' = Put(w, r) /\ r.pc = "mark" /\ Like(r, wk[w])
    BY <1>6, <2>11, GoesIs DEF AttachInv, Types
  <2>13. r.task = t
    BY <1>1, <2>1, <2>12 DEF Like
  <2>14. Shape(r)
    <3>1. wk'[w] = r
      BY <2>12, PutIs DEF AttachInv, Types
    <3>2. Shape(wk[w])'
      BY DEF AttachInv, Sound
    <3> QED BY <3>1, <3>2 DEF Shape
  <2>15. Alone(r)' /\ Fenced(r)'
    BY <1>2, <2>2, <2>8, <2>12, <2>13 DEF Alone, Attaching, Revoking, Fenced, Counted
  <2>16. Attends'
    BY <1>2, <2>5, GrantsStay DEF Bearers
  <2>17. ASSUME NEW e \in Epochs, Live(e)' PROVE Covers(e)'
    <3>1. Live(e)
      BY <2>8, <2>17
    <3>2. Covers(e) /\ ws.epoch = e /\ granted[e].task # t
      BY <2>2, <3>1, LiveIs
    <3>3. task[t].epoch < e
      <4>1. task[t].epoch \in 0 .. MaxEpoch
        BY <2>2 DEF AttachInv, Types, TaskRec
      <4>2. task[t].epoch # 0 => task[t].epoch # e
        BY <2>2, <3>2, RecordedIs DEF Kept
      <4>3. task[t].epoch \in Epochs => task[t].epoch <= ws.epoch
        <5>1. ASSUME task[t].epoch \in Epochs PROVE task[t].epoch <= ws.epoch
          <6>1. task[t].epoch # 0 /\ t # 0
            BY SMTT(60), <2>2, <5>1 DEF Epochs, Tasks
          <6>2. granted[task[t].epoch].task # 0
            BY <2>2, <6>1, RecordedIs DEF Kept
          <6> QED BY <5>1, <6>2 DEF AttachInv, WsInv
        <5> QED BY <5>1
      <4> QED BY SMTT(60), <3>2, <4>1, <4>2, <4>3 DEF Epochs
    <3>4. ws'.receipt[1] # granted[e].task /\ ws'.receipt[2] < e
      BY <2>7, <3>2, <3>3 DEF Covers
    <3> QED BY <1>2, <2>5, <3>2, <3>4 DEF Covers
  <2>18. ~lease'.expired
    BY <1>2, <2>5 DEF Bearers, Single
  <2>19. \A v \in Workers : v # w /\ wk[v].pc = "patch" /\ v \in fresh' =>
               v \in fresh /\ lease'.holder = lease.holder /\ lease'.epoch = lease.epoch
    BY <1>2
  <2> QED BY <2>2, <2>10, <2>12, <2>13, <2>14, <2>15, <2>16, <2>17, <2>18, <2>19, BearersMove
<1> QED BY <1>3, <1>4, <1>5, <1>6 DEF applyDetachAction

\* The attachment is published under the Lease: the bearer it rotates, if any, is of its Task, and
\* its own is the only one that counts.
LEMMA BearersPublish ==
    ASSUME AttachInv, AttachInv', RecordInv, Bearers, NEW w \in Workers, At(w, "patch"), w \in fresh,
           Writes(w, Attached(w)), secret' = secret, task' = task, bearers' = bearers, lease' = lease, Grants(w),
           Goes(w, IF ws.att = NoAtt THEN "record" ELSE "drop") \/ Goes(w, "clean")
    PROVE  Bearers'
<1>1. PICK t : t = wk[w].task
  OBVIOUS
<1>2. PICK g : g = wk[w].epoch
  OBVIOUS
<1>3. wk[w].pc = "patch" /\ wk[w].pc # "idle" /\ wk[w].pc \in Attaching
  BY DEF At, Attaching
<1>4. /\ g = ws.epoch + 1 /\ g \in Epochs /\ granted'[g].task = t
      /\ \A f \in Epochs : f # g => granted'[f] = granted[f]
  BY <1>1, <1>2, AttachPublish
<1>5. /\ ws'.att.task = t /\ ws'.att.epoch = g /\ ws'.epoch = g /\ ws'.receipt = ws.receipt /\ fresh' = {w}
  BY <1>1, <1>2, AttachedIs DEF Writes
<1>6. /\ Own(w, t) /\ t \in Tasks /\ t # 0 /\ ~task[t].settled /\ ws.receipt[1] # t
      /\ lease.holder = t /\ lease.epoch = g /\ Valid(t)
  BY <1>1, <1>2, <1>3, OwnIs, AttemptIs, PatcherIs DEF Bearers
<1>7. ws.att.task \in {0, t} /\ ws'.att # NoAtt
  BY <1>5, <1>6, NoAttIs DEF Valid, Rotatable
<1>8. \A f \in Epochs : granted[f].task # 0 => f # g
  BY <1>1, <1>2, PublishKeeps, RecordedIs
<1>9. PICK q \in {"record", "drop", "clean"} : Goes(w, q)
  OBVIOUS
<1>10. q \in WorkerSteps
  BY DEF WorkerSteps
<1>11. PICK r \in WorkerRec : wk' = Put(w, r) /\ r.pc = q /\ Like(r, wk[w])
  BY <1>9, <1>10, GoesIs DEF AttachInv, Types
<1>12. r.task = t /\ r.epoch = g
  BY <1>1, <1>2, <1>11 DEF Like
<1>13. Shape(r)
  <2>1. wk'[w] = r
    BY <1>11, PutIs DEF AttachInv, Types
  <2>2. Shape(wk[w])'
    BY DEF AttachInv, Sound
  <2> QED BY <2>1, <2>2 DEF Shape
<1>14. \A f \in Epochs : granted'[f].task = t => f <= g
  <2>1. ASSUME NEW f \in Epochs, granted'[f].task = t, f # g PROVE f <= g
    BY <1>1, <1>2, <1>3, <1>4, <2>1 DEF Bearers, Alone, Counted, Newest
  <2>2. g <= g
    BY SMTT(60), <1>4 DEF Epochs
  <2> QED BY <2>1, <2>2
<1>15. Alone(r)' /\ Fenced(r)'
  BY <1>5, <1>9, <1>11, <1>12, <1>14 DEF Alone, Attaching, Revoking, Fenced, Entitled, Newest
<1>16. ASSUME NEW e \in Epochs, Live(e)' PROVE e = g
  <2>1. CASE e # g
    <3>1. granted[e].task # 0 /\ secret[e] = granted[e].digest /\ granted'[e].task = granted[e].task
      BY <1>4, <1>16, <2>1 DEF Live
    <3>2. ASSUME NEW h \in Epochs, granted[h].task = granted[e].task PROVE h <= e
      <4>1. granted'[h].task = granted'[e].task
        BY <1>4, <1>8, <3>1, <3>2
      <4> QED BY <1>16, <4>1 DEF Live, Last
    <3>3. Live(e)
      BY <3>1, <3>2 DEF Live, Last
    <3>4. granted'[e].task = t
      BY <1>6, <3>1, <3>3, LiveIs
    <3>5. g <= e /\ e <= g
      BY <1>4, <1>14, <1>16, <3>4 DEF Live, Last
    <3> QED BY SMTT(60), <1>4, <3>5 DEF Epochs
  <2> QED BY <2>1
<1>17. \A e \in Epochs : granted'[e].task \in {granted[e].task, t}
  BY <1>4
<1>18. Aside(t)
  BY <1>4, <1>5, <1>7, <1>16, <1>17 DEF Aside
<1>19. ASSUME NEW e \in Epochs, Live(e)' PROVE Covers(e)'
  <2>1. e = g
    BY <1>16, <1>19
  <2>2. ws.receipt[2] < g /\ g <= g
    <3>1. ws.receipt[2] \in 0 .. MaxEpoch /\ ws.epoch \in 0 .. MaxEpoch
      BY WsIs DEF AttachInv
    <3>2. ws.receipt[2] <= ws.epoch
      BY RecordedIs DEF Kept
    <3> QED BY SMTT(60), <1>4, <3>1, <3>2
  <2> QED BY <1>4, <1>5, <1>6, <1>7, <2>1, <2>2 DEF Covers
<1>20. Attends'
  <2>1. ASSUME NEW e \in Epochs, granted'[e].task # 0, granted'[e].task # t PROVE task'[granted'[e].task].ended
    <3>1. granted'[e].task = granted[e].task
      BY <1>17, <2>1
    <3> QED BY <1>7, <2>1, <3>1 DEF Bearers, Single, Attends
  <2> QED BY <1>5, <2>1 DEF Attends
<1>21. ~lease'.expired
  BY DEF Bearers, Single
<1>22. \A v \in Workers : v # w /\ wk[v].pc = "patch" /\ v \in fresh' =>
               v \in fresh /\ lease'.holder = lease.holder /\ lease'.epoch = lease.epoch
  BY <1>5
<1> QED BY <1>6, <1>11, <1>12, <1>13, <1>15, <1>18, <1>19, <1>20, <1>21, <1>22, BearersMove

\* The attachment is published, or the patch is refused or fails.
LEMMA BearersPatch ==
    ASSUME AttachInv, AttachInv', RecordInv, Bearers, NEW w \in Workers, patchAttachment(w)
    PROVE  Bearers'
<1>1. PICK p : p = wk[w]
  OBVIOUS
<1>2. /\ At(w, "patch") /\ p.pc = "patch" /\ secret' = secret /\ task' = task /\ bearers' = bearers /\ lease' = lease
  BY <1>1 DEF patchAttachment, At
<1>3. CASE /\ w \in fresh /\ Writes(w, Attached(w)) /\ Grants(w)
           /\ Goes(w, IF ws.att = NoAtt THEN "record" ELSE "drop") \/ Goes(w, "clean")
  BY <1>2, <1>3, BearersPublish
<1>4. CASE UNCHANGED <<ws, fresh, granted>> /\ (Goes(w, "fence") \/ Goes(w, "clean"))
  <2>1. Quiet /\ fresh' \subseteq fresh \cup {w}
    BY <1>2, <1>4, QuietWrite
  <2>2. PICK q \in {"fence", "clean"} : Goes(w, q)
    BY <1>4
  <2>3. Tame(q, p)
    BY <1>2 DEF Tame, WorkerSteps, Attaching, Counted
  <2> QED BY <1>1, <2>1, <2>2, <2>3, QuietGoes
<1> QED BY <1>3, <1>4 DEF patchAttachment, PatchFits, Grants

\* A Task ends.
LEMMA BearersEnd ==
    ASSUME AttachInv, AttachInv', RecordInv, Bearers, NEW t \in Tasks, endTask(t)
    PROVE  Bearers'
<1>1. /\ task' = SetEnded(t) /\ ws' = ws /\ granted' = granted /\ secret' = secret /\ wk' = wk /\ fresh' = fresh
      /\ lease' = lease
  BY DEF endTask, SetEnded
<1>2. 0 \in 0 .. MaxEpoch
  BY SMTT(60), AttachmentAssumption
<1>3. \A u \in Tasks : /\ task'[u].settled = task[u].settled /\ task'[u].epoch = task[u].epoch
                       /\ task[u].ended => task'[u].ended
  BY <1>1, <1>2, TaskIs DEF AttachInv
<1>4. \A e \in Epochs : Live(e)' <=> Live(e)
  BY <1>1 DEF Live, Last
<1>5. PICK z : z = 0
  OBVIOUS
<1>6. Aside(z)
  BY <1>1, <1>3, <1>4 DEF Aside
<1>7. Attends'
  BY <1>1, <1>3, GrantsStay DEF Bearers
<1>8. Single'
  BY <1>1, <1>7 DEF Single, Bearers
<1>9. ASSUME NEW v \in Workers PROVE Alone(wk[v])' /\ (v \in fresh' => Fenced(wk[v])')
  <2>1. PICK p : p = wk[v]
    OBVIOUS
  <2>2. Shape(p) /\ Alone(p) /\ (v \in fresh => Fenced(p))
    BY <2>1, WorkerIs DEF Bearers
  <2>3. p.pc = "idle" \/ p.task # z
    <3>1. \A u \in Tasks : u # 0
      BY SMTT(60) DEF Tasks
    <3> QED BY <1>5, <2>2, <3>1 DEF Shape
  <2>4. Alone(p)'
    BY <1>6, <2>2, <2>3, AloneAside
  <2>5. v \in fresh' => Fenced(p)'
    BY <1>1, <2>2 DEF Fenced
  <2> QED BY <1>1, <2>1, <2>4, <2>5
<1>10. ASSUME NEW e \in Epochs, Live(e)' PROVE Covers(e)'
  <2>1. granted[e].task \in Tasks /\ Covers(e)
    BY <1>4, <1>10, LiveIs
  <2> QED BY <1>1, <1>3, <2>1 DEF Covers
<1> QED BY <1>8, <1>9, <1>10 DEF Bearers

\* A step of a worker.
LEMMA BearersStep ==
    ASSUME AttachInv, AttachInv', RecordInv, Bearers, NEW w \in Workers, Moves(w)
    PROVE  Bearers'
<1>1. CASE acquireLease(w) \/ readWorkspace(w) \/ createSecret(w) \/ revalidate(w) \/ renewAttachmentLeaseFence(w)
  BY <1>1, BearersAcquire, BearersRead, BearersSecret, BearersRevalidate, BearersRenew
<1>2. CASE patchAttachment(w) \/ cleanupReads(w) \/ cleanupSecret(w) \/ cleanupLease(w)
  BY <1>2, BearersPatch, BearersCleanup, BearersUnlease
<1>3. CASE \/ recordACPWorkspaceDetachAction(w) \/ markACPTaskAttachmentEpoch(w) \/ dropExpiredBearer(w)
           \/ markACPWorkspaceRevocationStarted(w) \/ BeginRevocation(w)
  BY <1>3, BearersStamps, BearersEpoch, BearersRevoke
<1>4. CASE \/ FinalizeRevocation(w) \/ finalizeSecret(w) \/ deleteWorkspaceOwnedAttachmentLeaseForEpoch(w)
           \/ waitForRelease(w) \/ quarantineACPWorkspacePastDetachTimeout(w)
  BY <1>4, BearersFinal, BearersUnhold
<1>5. CASE \/ deleteACPWorkspaceAttachmentCredentials(w) \/ applyDetachAction(w) \/ markACPTaskWorkspaceSettled(w)
  BY <1>5, BearersQuarantine, BearersDetach, BearersMark
<1> QED BY <1>1, <1>2, <1>3, <1>4, <1>5 DEF Moves, Step

\* Every step keeps the bearers covered.  A run that has strayed stays so.
LEMMA BearersNext == AttachInv /\ AttachInv' /\ RecordInv /\ BearerInv /\ [Next]_vars => BearerInv'
<1> SUFFICES ASSUME AttachInv, AttachInv', RecordInv, BearerInv, [Next]_vars, ~strayed' PROVE Bearers'
  BY DEF BearerInv
<1>1. CASE \E w \in Workers : Moves(w) \/ (crash(w) /\ UNCHANGED strayed)
  <2>1. ~strayed
    BY <1>1 DEF Moves
  <2> QED BY <1>1, <2>1, BearersStep, BearersEnv DEF BearerInv
<1>2. ASSUME NEW w \in Workers, NEW t \in Tasks, resumeWorkspace(w, t) \/ beginAttach(w, t) \/ adoptAttachment(w, t)
      PROVE  Bearers'
  <2>1. Takes(w, t)
    BY <1>2 DEF resumeWorkspace, beginAttach, adoptAttachment, Waiting
  <2>2. ~strayed
    BY <2>1, TakesIs DEF AttachInv
  <2> QED BY <1>2, <2>2, BearersEnv, BearersBegin, BearersAdopt DEF BearerInv
<1>3. ASSUME NEW t \in Tasks, Settles(t) PROVE Bearers'
  <2>1. PICK w \in Workers : settleACPClassWorkspace(w, t)
    BY <1>3 DEF Settles
  <2>2. ~strayed
    BY <2>1, TakesIs DEF AttachInv, settleACPClassWorkspace
  <2> QED BY <2>1, <2>2, BearersSettle DEF BearerInv
<1>4. ASSUME NEW t \in Tasks, endTask(t) /\ UNCHANGED strayed PROVE Bearers'
  BY <1>4, BearersEnd DEF BearerInv
<1>5. CASE Syncs
  BY <1>5, BearersEnv DEF Syncs, BearerInv
<1>6. CASE expire
  <2>1. ~strayed
    BY <1>6 DEF expire
  <2> QED BY <1>6, <2>1, BearersEnv DEF BearerInv
<1>7. CASE UNCHANGED vars
  <2>1. /\ ws' = ws /\ lease' = lease /\ secret' = secret /\ task' = task /\ wk' = wk /\ fresh' = fresh
        /\ granted' = granted /\ strayed' = strayed
    BY <1>7 DEF vars
  <2>2. Quiet
    BY <2>1, QuietWrite
  <2> QED BY <2>1, <2>2, QuietStill DEF BearerInv
<1> QED BY <1>1, <1>2, <1>3, <1>4, <1>5, <1>6, <1>7 DEF Next

\* There are no bearers at first.
LEMMA BearersInit == Init => BearerInv
<1> SUFFICES ASSUME Init PROVE Bearers
  BY DEF BearerInv
<1> DEFINE g == [task |-> 0, digest |-> 0]
<1>1. g.task = 0
  OBVIOUS
<1>2. granted = [e \in Epochs |-> g] /\ wk = [w \in Workers |-> Idle] /\ lease = NoLease
  BY DEF Init
<1>4. NoLease.expired = FALSE
  BY DEF NoLease
<1> HIDE DEF g
<1>5. \A e \in Epochs : granted[e].task = 0
  BY <1>1, <1>2
<1>6. ~lease.expired
  BY <1>2, <1>4
<1>7. \A w \in Workers : wk[w] = Idle
  BY <1>2
<1>8. Single
  BY <1>5, <1>6, <1>7, IdleIs DEF Single, Attends
<1>9. \A e \in Epochs : ~Live(e)
  BY <1>5 DEF Live, Last
<1> QED BY <1>7, <1>8, <1>9, AloneIdle DEF Bearers

\* The bearers of a run that has not strayed stay covered.
THEOREM BearersCovered == Spec => [](RecordInv /\ BearerInv)
<1>1. Init => RecordInv /\ BearerInv
  BY RecordInit, BearersInit
<1>2. AttachInv /\ AttachInv' /\ RecordInv /\ BearerInv /\ [Next]_vars => RecordInv' /\ BearerInv'
  BY RecordNext, BearersNext
<1> QED BY <1>1, <1>2, AttachmentInvariant, PTL DEF Spec

\* settleACPClassWorkspace and the quarantine mark a Task settled only after the bearer of its last
\* attachment is deleted, whatever the passes of other Tasks do in between: a bearer that is still in its
\* Secret has a Task that holds the Lease, has not settled and is covered by no receipt.
THEOREM NoBearerOutlivesSettlement == Spec => []SettledWithoutBearer
<1>1. AttachInv /\ BearerInv => SettledWithoutBearer
  <2> SUFFICES ASSUME AttachInv, BearerInv, ~strayed, NEW t \in Tasks, NEW e \in Epochs, task[t].settled,
                      LastEpochOf(t, e), secret[e] = granted[e].digest
               PROVE  FALSE
    BY DEF SettledWithoutBearer
  <2>1. Bearers
    BY DEF BearerInv
  <2>2. granted[e].task = t /\ t # 0
    <3>1. t # 0
      BY SMTT(60) DEF Tasks
    <3> QED BY <3>1 DEF LastEpochOf
  <2>3. Live(e)
    BY <2>2 DEF Live, Last, LastEpochOf
  <2>4. ~task[t].settled
    BY <2>1, <2>2, <2>3, LiveIs DEF Covers
  <2> QED BY <2>4
<1> QED BY <1>1, AttachmentInvariant, BearersCovered, PTL
=============================================================================
