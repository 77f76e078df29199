---------------------- MODULE WorkspaceAttachmentProofs ----------------------
(***************************************************************************)
(* Proofs about WorkspaceAttachment, for any number of Tasks, workers,     *)
(* epochs, bearers and faults.                                             *)
(***************************************************************************)
EXTENDS WorkspaceAttachment, TLAPS

\* Zenon proves every leaf that names no other backend.
USE ZenonT(60)

----------------------------------------------------------------------------
(* The invariant: types, and what a current copy is worth. *)

States == {"Ready", "Suspended", "Quarantined"}
AttRec == [task : 0 .. NumTasks, epoch : 0 .. MaxEpoch, digest : Digests, expired : BOOLEAN]
WsRec == [att : AttRec, epoch : 0 .. MaxEpoch, desired : States, stamp : 0 .. MaxEpoch,
          receipt : (0 .. NumTasks) \X (0 .. MaxEpoch), demand : 0 .. NumTasks,
          attached : 0 .. MaxEpoch, state : States \cup {"Attached", "Pending"}, seen : BOOLEAN]
LeaseRec == [holder : 0 .. NumTasks, epoch : 0 .. MaxEpoch, expired : BOOLEAN]
TaskRec == [ended : BOOLEAN, epoch : 0 .. MaxEpoch, settled : BOOLEAN]
GrantRec == [task : 0 .. NumTasks, digest : Digests]
WorkerRec == [pc : WorkerSteps, task : 0 .. NumTasks, epoch : 0 .. MaxEpoch, digest : Digests,
              claimed : BOOLEAN, keep : BOOLEAN, plan : Plans]

Types ==
    /\ ws \in WsRec /\ lease \in LeaseRec /\ secret \in [Epochs -> 0 .. bearers] /\ bearers \in Digests
    /\ task \in [Tasks -> TaskRec] /\ wk \in [Workers -> WorkerRec] /\ fresh \subseteq Workers
    /\ strayed \in BOOLEAN /\ granted \in [Epochs -> GrantRec] /\ faults \in Nat

Numbered == {"secret", "fence", "renew", "patch", "drop", "adopt", "record", "stamp", "begin", "final", "bearer", "unhold"}
Settling == {"stamp", "begin", "final", "bearer", "unhold", "late", "qsecret", "qlease", "suspend", "mark"}
Detached == {"final", "bearer", "unhold", "late", "suspend"}
Freed == {"bearer", "unhold", "suspend"}
Planned == {"stamp", "final", "bearer", "unhold", "suspend"}

\* The adapter does not enforce the workspace's last epoch.
LetGo == ws.attached # 0 => ws.attached # ws.epoch

\* What the locals of a worker say by themselves.
Shape(p) ==
    /\ p.pc = "idle" => p = Idle
    /\ p.pc # "idle" => p.task \in Tasks
    /\ p.pc \in Numbered => p.epoch \in Epochs
    /\ p.digest # 0 => p.epoch \in Epochs
    /\ p.pc \in {"fence", "renew", "patch"} => p.digest # 0

\* The epoch a settlement works on is no later than the workspace's.
Behind(p) == p.pc \in Settling => p.epoch <= ws.epoch

\* A worker whose copy is current: an attempt may still patch, a settlement past its stamp has
\* a detached workspace of its epoch, and one past FinalizeRevocation's test a released one; the
\* workspace it plans to suspend is not quarantined.
Fits(p) ==
    /\ p.pc \in {"renew", "patch"} => Valid(p.task) /\ p.epoch = ws.epoch + 1
    /\ p.pc \in Detached \cup {"stamp"} => p.epoch = ws.epoch
    /\ p.pc \in Detached \/ (p.pc = "stamp" /\ ~p.claimed) => ws.att = NoAtt
    /\ p.pc \in Freed => LetGo
    /\ p.pc \in Planned /\ p.plan = "patch" => ws.desired # "Quarantined"

Sound(p, current) == Shape(p) /\ Behind(p) /\ (current => Fits(p))

\* The workspace's epoch is the highest one published, the attachment has it, and the adapter
\* enforces an epoch that the Task of the last one published, the attachment's own once it has
\* seen the object.
WsInv ==
    /\ ws.att = NoAtt \/ (ws.att.epoch = ws.epoch /\ ws.att.epoch \in Epochs /\ ws.att.task \in Tasks
                          /\ granted[ws.att.epoch].task = ws.att.task /\ granted[ws.att.epoch].digest = ws.att.digest)
    /\ \A e \in Epochs : granted[e].task # 0 => e <= ws.epoch
    /\ ws.attached <= ws.epoch
    /\ ws.attached # 0 => granted[ws.attached].task = granted[ws.epoch].task
    /\ ws.seen => ws.attached = ws.att.epoch

AttachInv == Types /\ WsInv /\ OneWriter /\ \A w \in Workers : Sound(wk[w], w \in fresh)

----------------------------------------------------------------------------
(* Steps of one worker. *)

Put(w, r) == [wk EXCEPT ![w] = r]
Like(r, p) == r.task = p.task /\ r.epoch = p.epoch /\ r.digest = p.digest /\ r.claimed = p.claimed /\ r.keep = p.keep
              /\ r.plan = p.plan

\* What a step leaves of the variables a worker does not own is well typed.
Rest ==
    /\ lease' \in LeaseRec /\ secret' \in [Epochs -> 0 .. bearers'] /\ bearers' \in Digests
    /\ task' \in [Tasks -> TaskRec] /\ strayed' \in BOOLEAN /\ faults' \in Nat

\* Only the worker that takes a step changes.
LEMMA PutIs ==
    ASSUME wk \in [Workers -> WorkerRec], NEW w \in Workers, NEW r \in WorkerRec, wk' = Put(w, r)
    PROVE  /\ wk' \in [Workers -> WorkerRec] /\ wk'[w] = r
           /\ \A v \in Workers : v # w => wk'[v] = wk[v]
BY DEF Put

\* The idle worker is a worker record.
LEMMA IdleIs == Idle \in WorkerRec /\ Idle.pc = "idle" /\ Idle.task = 0 /\ Idle.epoch = 0 /\ Idle.digest = 0
                /\ Idle.claimed = FALSE /\ Idle.keep = FALSE /\ Idle.plan = "none"
<1>1. 0 \in 0 .. NumTasks /\ 0 \in 0 .. MaxEpoch /\ 0 \in Digests
  BY SMTT(60), AttachmentAssumption DEF Digests
<1>2. "idle" \in WorkerSteps /\ "none" \in Plans
  BY DEF WorkerSteps, Plans
<1> QED BY <1>1, <1>2 DEF Idle, WorkerRec

\* A worker that goes on keeps its locals.
LEMMA GoesIs ==
    ASSUME wk \in [Workers -> WorkerRec], NEW w \in Workers, NEW pc \in WorkerSteps, Goes(w, pc)
    PROVE  \E r \in WorkerRec : wk' = Put(w, r) /\ r.pc = pc /\ Like(r, wk[w])
<1>1. wk[w] \in WorkerRec
  OBVIOUS
<1> DEFINE r == [wk[w] EXCEPT !.pc = pc]
<1>2. wk' = Put(w, r)
  BY DEF Goes, Put
<1>3. r \in WorkerRec /\ r.pc = pc /\ Like(r, wk[w])
  BY <1>1 DEF WorkerRec, Like
<1> QED BY <1>2, <1>3

\* The greatest of three numbers is the one no other exceeds.
LEMMA HighestIs ==
    ASSUME NEW a \in Int, NEW b \in Int, NEW c \in Int, b <= a, c <= a
    PROVE  Highest({a, b, c}) = a
<1> DEFINE S == {a, b, c}
<1>1. a \in S /\ \A y \in S : y <= a
  BY SMTT(60)
<1>2. Highest(S) \in S /\ \A y \in S : y <= Highest(S)
  BY <1>1 DEF Highest
<1>3. Highest(S) \in Int
  BY <1>2
<1> QED BY SMTT(60), <1>1, <1>2, <1>3

\* The numbers of the state are integers.
LEMMA Ints ==
    ASSUME Types
    PROVE  /\ ws.epoch \in Int /\ ws.att.epoch \in Int /\ ws.attached \in Int /\ bearers \in Int
           /\ \A w \in Workers : wk[w].epoch \in Int /\ wk[w].digest \in Int
<1>1. 0 .. MaxEpoch \subseteq Int /\ Digests \subseteq Int
  BY SMTT(60), AttachmentAssumption DEF Digests
<1>2. ws.epoch \in 0 .. MaxEpoch /\ ws.att \in AttRec /\ ws.attached \in 0 .. MaxEpoch
  BY DEF Types, WsRec
<1>3. ws.att.epoch \in 0 .. MaxEpoch
  BY <1>2 DEF AttRec
<1>4. \A w \in Workers : wk[w].epoch \in 0 .. MaxEpoch /\ wk[w].digest \in Digests
  BY DEF Types, WorkerRec
<1> QED BY <1>1, <1>2, <1>3, <1>4 DEF Types

\* A detached workspace names no Task, epoch or bearer.
LEMMA NoAttIs == NoAtt \in AttRec /\ NoAtt.task = 0 /\ NoAtt.epoch = 0 /\ NoAtt.digest = 0 /\ NoAtt.expired = FALSE
<1>1. 0 \in 0 .. NumTasks /\ 0 \in 0 .. MaxEpoch /\ 0 \in Digests
  BY SMTT(60), AttachmentAssumption DEF Digests
<1> QED BY <1>1 DEF NoAtt, AttRec

\* The next epoch is the one after the workspace's, whatever its attachment and its status say.
LEMMA NextEpoch ==
    ASSUME Types, WsInv
    PROVE  nextWorkspaceAttachmentEpoch = ws.epoch + 1
<1>1. ws.epoch \in Int /\ ws.att.epoch \in Int /\ ws.attached \in Int /\ ws.epoch \in 0 .. MaxEpoch
  BY Ints DEF Types, WsRec
<1>2. ws.attached <= ws.epoch
  BY DEF WsInv
<1>3. ws.att.epoch <= ws.epoch
  <2>1. CASE ws.att = NoAtt
    <3>1. ws.att.epoch = 0
      BY <2>1, NoAttIs
    <3> QED BY SMTT(60), <3>1, <1>1, AttachmentAssumption
  <2>2. CASE ws.att # NoAtt
    <3>1. ws.att.epoch = ws.epoch
      BY <2>2 DEF WsInv
    <3> QED BY SMTT(60), <3>1, <1>1
  <2> QED BY <2>1, <2>2
<1>4. Highest({ws.epoch, ws.att.epoch, ws.attached}) = ws.epoch
  BY <1>1, <1>2, <1>3, HighestIs
<1> QED BY <1>4 DEF nextWorkspaceAttachmentEpoch

\* A failed call is counted.
LEMMA FaultIs ==
    ASSUME Types, Fault
    PROVE  faults' \in Nat
BY SMTT(60) DEF Types, Fault

----------------------------------------------------------------------------
(* The first invariant is kept. *)

\* What a worker's locals say holds as long as the workspace stays.
LEMMA SoundSame ==
    ASSUME NEW p, NEW v, Shape(p), Behind(p), v \in fresh' => Fits(p), ws' = ws
    PROVE  Sound(p, v \in fresh)'
<1>1. Shape(p)' /\ Behind(p)'
  BY DEF Shape, Behind
<1>2. ASSUME v \in fresh' PROVE Fits(p)'
  <2>1. Fits(p)
    BY <1>2
  <2>2. Valid(p.task)' <=> Valid(p.task)
    BY DEF Valid, Reusable, Handshake, Stamped, Rotatable
  <2> QED BY <2>1, <2>2 DEF Fits, LetGo
<1> QED BY <1>1, <1>2 DEF Sound

\* A worker that goes on to a later step of the same part keeps its shape.
LEMMA ShapeNext ==
    ASSUME NEW p, NEW r, Shape(p), Behind(p), p.pc # "idle", r.pc # "idle", Like(r, p),
           r.pc \in Numbered => p.pc \in Numbered, r.pc \in Settling => p.pc \in Settling,
           r.pc \in {"fence", "renew", "patch"} => p.pc \in {"fence", "renew", "patch"}
    PROVE  Shape(r) /\ Behind(r)
BY DEF Shape, Behind, Like

\* Away from the renewal, the patch and the settlement a current copy promises nothing.
LEMMA FitsAway ==
    ASSUME NEW r, r.pc \notin {"renew", "patch", "stamp"} \cup Detached
    PROVE  Fits(r)
BY DEF Fits, Detached, Freed, Planned

\* A worker that stops is sound.
LEMMA SoundIdle == Shape(Idle) /\ Behind(Idle) /\ Fits(Idle)
<1>1. Shape(Idle) /\ Behind(Idle)
  BY IdleIs DEF Shape, Behind, Numbered, Settling
<1>2. Idle.pc \notin {"renew", "patch", "stamp"} \cup Detached
  BY IdleIs DEF Detached
<1> QED BY <1>1, <1>2, FitsAway

\* A step of one worker that leaves the workspace and the grants alone keeps the invariant when
\* the worker's new locals are sound.
LEMMA AttachStay ==
    ASSUME AttachInv, NEW w \in Workers, NEW r \in WorkerRec, wk' = Put(w, r), ws' = ws, granted' = granted,
           fresh' \subseteq fresh \cup {w}, Shape(r), Behind(r), w \in fresh' => Fits(r), Rest
    PROVE  AttachInv'
<1>1. /\ wk' \in [Workers -> WorkerRec] /\ wk'[w] = r
      /\ \A v \in Workers : v # w => wk'[v] = wk[v]
  BY PutIs DEF AttachInv, Types
<1>2. Types'
  BY <1>1 DEF AttachInv, Types, Rest
<1>3. WsInv' /\ OneWriter'
  BY DEF AttachInv, WsInv, OneWriter
<1>4. ASSUME NEW v \in Workers PROVE Sound(wk[v], v \in fresh)'
  <2>1. CASE v = w
    <3>1. Sound(r, w \in fresh)'
      BY SoundSame
    <3> QED BY <3>1, <2>1, <1>1
  <2>2. CASE v # w
    <3>1. PICK p : p = wk[v]
      OBVIOUS
    <3>2. Shape(p) /\ Behind(p) /\ (v \in fresh' => Fits(p))
      BY <3>1, <2>2 DEF AttachInv, Sound
    <3>3. Sound(p, v \in fresh)'
      BY <3>2, SoundSame
    <3> QED BY <3>1, <3>3, <2>2, <1>1
  <2> QED BY <2>1, <2>2
<1> QED BY <1>2, <1>3, <1>4 DEF AttachInv

\* A worker at p may go on to step q without a new reading of the workspace.
Follows(q, p) ==
    /\ p.pc # "idle" /\ q \notin {"idle", "stamp"} /\ q \in WorkerSteps
    /\ q \in Numbered => p.pc \in Numbered
    /\ q \in Settling => p.pc \in Settling
    /\ q \in {"fence", "renew", "patch"} => p.pc \in {"fence", "renew", "patch"}
    /\ q \in {"renew", "patch"} => p.pc \in {"renew", "patch"}
    /\ q \in Detached => p.pc \in Detached \/ (p.pc = "stamp" /\ ~p.claimed)
    /\ q \in Freed => p.pc \in Freed
    /\ q \in Planned => p.pc \in Planned

\* Such a step keeps what the locals say.
LEMMA FollowsSound ==
    ASSUME NEW p, NEW r, Shape(p), Behind(p), Follows(r.pc, p), Like(r, p)
    PROVE  Shape(r) /\ Behind(r) /\ (Fits(p) => Fits(r))
<1>1. Shape(r) /\ Behind(r)
  BY ShapeNext DEF Follows
<1>2. Fits(p) => Fits(r)
  BY DEF Follows, Fits, Like
<1> QED BY <1>1, <1>2

\* A worker that goes on.
LEMMA AttachGoes ==
    ASSUME AttachInv, NEW w \in Workers, NEW q, Follows(q, wk[w]), Goes(w, q), ws' = ws, granted' = granted,
           fresh' \subseteq fresh, Rest
    PROVE  AttachInv'
<1>1. PICK r \in WorkerRec : wk' = Put(w, r) /\ r.pc = q /\ Like(r, wk[w])
  BY GoesIs DEF AttachInv, Types, Follows
<1>2. Shape(wk[w]) /\ Behind(wk[w]) /\ (w \in fresh' => Fits(wk[w]))
  BY DEF AttachInv, Sound
<1>3. Shape(r) /\ Behind(r) /\ (w \in fresh' => Fits(r))
  BY <1>1, <1>2, FollowsSound
<1> QED BY <1>1, <1>3, AttachStay

\* A worker that stops.
LEMMA AttachStops ==
    ASSUME AttachInv, NEW w \in Workers, Idles(w), ws' = ws, granted' = granted, fresh' \subseteq fresh, Rest
    PROVE  AttachInv'
<1>1. wk' = Put(w, Idle)
  BY DEF Idles, Put
<1> QED BY <1>1, IdleIs, SoundIdle, AttachStay

\* A write that leaves the epoch alone and only takes the attachment away, if anything.
Retires ==
    /\ ws' \in WsRec /\ ws'.epoch = ws.epoch /\ ws'.attached = ws.attached
    /\ ws'.att = ws.att \/ ws'.att = NoAtt
    /\ ws'.seen => ws.seen /\ ws'.att = ws.att
    /\ ws'.desired = "Suspended" => ws'.att = NoAtt /\ (ws.desired = "Suspended" \/ LetGo)

\* What a worker with a stale copy says survives a write.
LEMMA SoundStale ==
    ASSUME NEW p, NEW v, Shape(p), Behind(p), ws'.epoch = ws.epoch, v \in fresh' => Fits(p)'
    PROVE  Sound(p, v \in fresh)'
BY DEF Sound, Shape, Behind

\* A write of one worker makes the other copies stale and keeps the invariant.
LEMMA AttachWrite ==
    ASSUME AttachInv, NEW w \in Workers, NEW r \in WorkerRec, wk' = Put(w, r), Retires, granted' = granted,
           fresh' \subseteq {w}, Shape(r), Behind(r), w \in fresh' => Fits(r)', Rest
    PROVE  AttachInv'
<1>1. /\ wk' \in [Workers -> WorkerRec] /\ wk'[w] = r
      /\ \A v \in Workers : v # w => wk'[v] = wk[v]
  BY PutIs DEF AttachInv, Types
<1>2. Types'
  BY <1>1 DEF AttachInv, Types, Rest, Retires
<1>3. WsInv'
  BY DEF AttachInv, WsInv, Retires
<1>4. OneWriter'
  BY DEF AttachInv, WsInv, OneWriter, Retires, LetGo
<1>5. ASSUME NEW v \in Workers PROVE Sound(wk[v], v \in fresh)'
  <2>1. CASE v = w
    <3>1. Sound(r, w \in fresh)'
      BY SoundStale DEF Retires
    <3> QED BY <3>1, <2>1, <1>1
  <2>2. CASE v # w
    <3>1. PICK p : p = wk[v]
      OBVIOUS
    <3>2. Shape(p) /\ Behind(p) /\ v \notin fresh'
      BY <3>1, <2>2 DEF AttachInv, Sound
    <3>3. Sound(p, v \in fresh)'
      BY <3>2, SoundStale DEF Retires
    <3> QED BY <3>1, <3>3, <2>2, <1>1
  <2> QED BY <2>1, <2>2
<1> QED BY <1>2, <1>3, <1>4, <1>5 DEF AttachInv

----------------------------------------------------------------------------
(* The stores. *)

\* A Secret that is deleted leaves the others as they were.
LEMMA SecretGone ==
    ASSUME Types, NEW e, secret' = [secret EXCEPT ![e] = 0]
    PROVE  /\ secret' \in [Epochs -> 0 .. bearers]
           /\ \A f \in Epochs : secret'[f] = IF f = e THEN 0 ELSE secret[f]
<1>1. 0 \in 0 .. bearers
  BY SMTT(60), AttachmentAssumption DEF Types, Digests
<1>2. secret \in [Epochs -> 0 .. bearers]
  BY DEF Types
<1> QED BY <1>1, <1>2

\* A Secret that is created holds the newest bearer.
LEMMA SecretMade ==
    ASSUME Types, NEW e \in Epochs, bearers < MaxBearers, bearers' = bearers + 1, secret' = [secret EXCEPT ![e] = bearers']
    PROVE  /\ bearers' \in Digests /\ bearers' # 0 /\ secret' \in [Epochs -> 0 .. bearers']
           /\ \A f \in Epochs : secret'[f] = IF f = e THEN bearers' ELSE secret[f]
<1>1. bearers' \in Digests /\ bearers' # 0 /\ bearers' \in 0 .. bearers' /\ 0 .. bearers \subseteq 0 .. bearers'
  BY SMTT(60), AttachmentAssumption DEF Types, Digests
<1>2. secret \in [Epochs -> 0 .. bearers]
  BY DEF Types
<1>3. secret \in [Epochs -> 0 .. bearers']
  BY <1>1, <1>2
<1> QED BY <1>1, <1>3

SetSettled(t) == [task EXCEPT ![t].settled = TRUE]
SetEnded(t) == [task EXCEPT ![t].ended = TRUE]
SetEpoch(t, e) == [task EXCEPT ![t].epoch = e]

\* The annotations and the phase of a Task change one at a time.
LEMMA TaskIs ==
    ASSUME Types, NEW t \in Tasks, NEW e \in 0 .. MaxEpoch
    PROVE  /\ task' = SetSettled(t) =>
                /\ task' \in [Tasks -> TaskRec]
                /\ \A u \in Tasks : /\ task'[u].ended = task[u].ended /\ task'[u].epoch = task[u].epoch
                                    /\ u # t => task'[u] = task[u]
           /\ task' = SetEnded(t) =>
                /\ task' \in [Tasks -> TaskRec] /\ task'[t].ended
                /\ \A u \in Tasks : /\ task'[u].settled = task[u].settled /\ task'[u].epoch = task[u].epoch
                                    /\ u # t => task'[u] = task[u]
           /\ task' = SetEpoch(t, e) =>
                /\ task' \in [Tasks -> TaskRec] /\ task'[t].epoch = e
                /\ \A u \in Tasks : /\ task'[u].settled = task[u].settled /\ task'[u].ended = task[u].ended
                                    /\ u # t => task'[u] = task[u]
<1>1. task \in [Tasks -> TaskRec] /\ task[t] \in TaskRec
  BY DEF Types
<1>2. /\ SetSettled(t) = [task EXCEPT ![t] = [task[t] EXCEPT !.settled = TRUE]]
      /\ SetEnded(t) = [task EXCEPT ![t] = [task[t] EXCEPT !.ended = TRUE]]
      /\ SetEpoch(t, e) = [task EXCEPT ![t] = [task[t] EXCEPT !.epoch = e]]
  BY DEF SetSettled, SetEnded, SetEpoch
<1>3. PICK a, b, c : /\ a = [task[t] EXCEPT !.settled = TRUE] /\ b = [task[t] EXCEPT !.ended = TRUE]
                     /\ c = [task[t] EXCEPT !.epoch = e]
  OBVIOUS
<1>4. a \in TaskRec /\ a.ended = task[t].ended /\ a.epoch = task[t].epoch
  BY <1>1, <1>3 DEF TaskRec
<1>5. b \in TaskRec /\ b.ended /\ b.settled = task[t].settled /\ b.epoch = task[t].epoch
  BY <1>1, <1>3 DEF TaskRec
<1>6. c \in TaskRec /\ c.epoch = e /\ c.settled = task[t].settled /\ c.ended = task[t].ended
  BY <1>1, <1>3 DEF TaskRec
<1>7. SetSettled(t) = [task EXCEPT ![t] = a] /\ SetEnded(t) = [task EXCEPT ![t] = b] /\ SetEpoch(t, e) = [task EXCEPT ![t] = c]
  BY <1>2, <1>3
<1>8. ASSUME task' = SetSettled(t)
      PROVE  /\ task' \in [Tasks -> TaskRec]
             /\ \A u \in Tasks : /\ task'[u].ended = task[u].ended /\ task'[u].epoch = task[u].epoch
                                 /\ u # t => task'[u] = task[u]
  BY <1>8, <1>1, <1>4, <1>7
<1>9. ASSUME task' = SetEnded(t)
      PROVE  /\ task' \in [Tasks -> TaskRec] /\ task'[t].ended
             /\ \A u \in Tasks : /\ task'[u].settled = task[u].settled /\ task'[u].epoch = task[u].epoch
                                 /\ u # t => task'[u] = task[u]
  BY <1>9, <1>1, <1>5, <1>7
<1>10. ASSUME task' = SetEpoch(t, e)
       PROVE  /\ task' \in [Tasks -> TaskRec] /\ task'[t].epoch = e
              /\ \A u \in Tasks : /\ task'[u].settled = task[u].settled /\ task'[u].ended = task[u].ended
                                  /\ u # t => task'[u] = task[u]
  BY <1>10, <1>1, <1>6, <1>7
<1> QED BY <1>8, <1>9, <1>10

\* The Lease is taken, fenced and deleted.
LEMMA LeaseIs ==
    ASSUME Types, NEW t \in 0 .. NumTasks, NEW e \in 0 .. MaxEpoch
    PROVE  /\ NoLease \in LeaseRec /\ NoLease.holder = 0 /\ NoLease.epoch = 0 /\ NoLease.expired = FALSE
           /\ lease' = [lease EXCEPT !.holder = t, !.expired = FALSE] =>
                lease' \in LeaseRec /\ lease'.holder = t /\ lease'.epoch = lease.epoch /\ ~lease'.expired
           /\ lease' = [lease EXCEPT !.epoch = e] =>
                lease' \in LeaseRec /\ lease'.holder = lease.holder /\ lease'.epoch = e /\ lease'.expired = lease.expired
<1>1. 0 \in 0 .. NumTasks /\ 0 \in 0 .. MaxEpoch
  BY SMTT(60), AttachmentAssumption
<1>2. lease \in LeaseRec
  BY DEF Types
<1>3. NoLease \in LeaseRec /\ NoLease.holder = 0 /\ NoLease.epoch = 0 /\ NoLease.expired = FALSE
  BY <1>1 DEF NoLease, LeaseRec
<1>4. ASSUME lease' = [lease EXCEPT !.holder = t, !.expired = FALSE]
      PROVE  lease' \in LeaseRec /\ lease'.holder = t /\ lease'.epoch = lease.epoch /\ ~lease'.expired
  BY <1>4, <1>2 DEF LeaseRec
<1>5. ASSUME lease' = [lease EXCEPT !.epoch = e]
      PROVE  lease' \in LeaseRec /\ lease'.holder = lease.holder /\ lease'.epoch = e /\ lease'.expired = lease.expired
  BY <1>5, <1>2 DEF LeaseRec
<1> QED BY <1>3, <1>4, <1>5

----------------------------------------------------------------------------
(* The actions of an attempt to attach. *)

\* What the invariant says of one worker.
LEMMA WorkerIs ==
    ASSUME AttachInv, NEW w \in Workers
    PROVE  /\ Types /\ wk[w] \in WorkerRec /\ Shape(wk[w]) /\ Behind(wk[w]) /\ (w \in fresh => Fits(wk[w]))
           /\ wk[w].pc \in WorkerSteps /\ wk[w].task \in 0 .. NumTasks /\ wk[w].epoch \in 0 .. MaxEpoch
           /\ wk[w].digest \in Digests /\ wk[w].claimed \in BOOLEAN /\ wk[w].keep \in BOOLEAN
<1>1. wk[w] \in WorkerRec
  BY DEF AttachInv, Types
<1> QED BY <1>1 DEF AttachInv, Sound, WorkerRec

\* The Lease is taken, or the pass ends.
LEMMA AttachAcquire ==
    ASSUME AttachInv, NEW w \in Workers, acquireLease(w), UNCHANGED strayed
    PROVE  AttachInv'
<1>1. At(w, "lease") /\ ws' = ws /\ granted' = granted
  BY DEF acquireLease
<1>2. CASE LeaseFits(Task(w))
  <2>1. lease' \in LeaseRec
    BY <1>2, WorkerIs, LeaseIs DEF acquireLease, Task
  <2>2. Rest
    BY <2>1, <1>2 DEF acquireLease, Rest, AttachInv, Types
  <2> DEFINE c == lease.holder # Task(w) \/ lease.expired
             r == [wk[w] EXCEPT !.pc = "read", !.claimed = c]
  <2>3. c \in BOOLEAN
    OBVIOUS
  <2>4. wk' = Put(w, r) /\ fresh' = fresh
    BY <1>2 DEF acquireLease, Put
  <2> HIDE DEF c
  <2>5. "read" \in WorkerSteps
    BY DEF WorkerSteps
  <2>6. r \in WorkerRec /\ r.pc = "read" /\ r.task = wk[w].task /\ r.epoch = wk[w].epoch /\ r.digest = wk[w].digest
    BY <2>3, <2>5, WorkerIs DEF WorkerRec
  <2> HIDE DEF r
  <2>7. Shape(r) /\ Behind(r) /\ Fits(r)
    BY <2>6, <1>1, WorkerIs DEF Shape, Behind, Fits, Numbered, Settling, Detached, Freed, Planned, At
  <2> QED BY <1>1, <2>2, <2>4, <2>6, <2>7, AttachStay
<1>3. CASE ~LeaseFits(Task(w))
  <2>1. Idles(w) /\ fresh' \subseteq fresh /\ Rest
    BY <1>3 DEF acquireLease, Stops, Rest, AttachInv, Types
  <2> QED BY <1>1, <2>1, AttachStops
<1> QED BY <1>2, <1>3

\* A worker goes to clean up.
LEMMA AttachCleans ==
    ASSUME AttachInv, NEW w \in Workers, ~At(w, "idle"), Goes(w, "clean"), ws' = ws, granted' = granted,
           fresh' = fresh, Rest
    PROVE  AttachInv'
<1>1. Follows("clean", wk[w])
  BY DEF Follows, At, WorkerSteps, Numbered, Settling, Detached, Freed, Planned
<1> QED BY <1>1, AttachGoes

\* The attempt takes the next epoch's number.
LEMMA AttachRead ==
    ASSUME AttachInv, NEW w \in Workers, readWorkspace(w), UNCHANGED strayed
    PROVE  AttachInv'
<1>1. At(w, "read") /\ ws' = ws /\ granted' = granted /\ fresh' = fresh /\ ~At(w, "idle")
  BY DEF readWorkspace, At
<1>2. Rest
  BY FaultIs DEF readWorkspace, Rest, AttachInv, Types
<1>3. CASE Goes(w, "clean")
  BY <1>1, <1>2, <1>3, AttachCleans
<1>4. CASE /\ Valid(Task(w)) /\ EpochsLeft
           /\ wk' = [wk EXCEPT ![w] = [@ EXCEPT !.pc = "secret", !.epoch = nextWorkspaceAttachmentEpoch]]
  <2> DEFINE e == nextWorkspaceAttachmentEpoch
             r == [wk[w] EXCEPT !.pc = "secret", !.epoch = e]
  <2>1. e = ws.epoch + 1 /\ e <= MaxEpoch /\ ws.epoch \in 0 .. MaxEpoch
    BY <1>4, NextEpoch DEF AttachInv, EpochsLeft, Types, WsRec
  <2>2. e \in Epochs /\ e \in 0 .. MaxEpoch
    BY SMTT(60), <2>1, AttachmentAssumption DEF Epochs
  <2>3. wk' = Put(w, r)
    BY <1>4 DEF Put
  <2> HIDE DEF e
  <2>4. "secret" \in WorkerSteps
    BY DEF WorkerSteps
  <2>5. r \in WorkerRec /\ r.pc = "secret" /\ r.task = wk[w].task /\ r.epoch = e
    BY <2>2, <2>4, WorkerIs DEF WorkerRec
  <2> HIDE DEF r
  <2>6. Shape(r) /\ Behind(r) /\ Fits(r)
    BY <2>2, <2>5, <1>1, WorkerIs DEF Shape, Behind, Fits, Numbered, Settling, Detached, Freed, Planned, At
  <2> QED BY <1>1, <1>2, <2>3, <2>5, <2>6, AttachStay
<1> QED BY <1>3, <1>4 DEF readWorkspace

\* The Secret is created or recovered.
LEMMA AttachSecret ==
    ASSUME AttachInv, NEW w \in Workers, createSecret(w), UNCHANGED strayed
    PROVE  AttachInv'
<1>1. At(w, "secret") /\ ws' = ws /\ granted' = granted /\ fresh' = fresh /\ ~At(w, "idle")
  BY DEF createSecret, At
<1>2. wk[w].epoch \in Epochs
  BY <1>1, WorkerIs DEF Shape, Numbered, At
<1>3. ASSUME NEW d \in Digests, d # 0, wk' = [wk EXCEPT ![w] = [@ EXCEPT !.pc = "fence", !.digest = d]], Rest
      PROVE  AttachInv'
  <2> DEFINE r == [wk[w] EXCEPT !.pc = "fence", !.digest = d]
  <2>1. wk' = Put(w, r)
    BY <1>3 DEF Put
  <2>2. "fence" \in WorkerSteps
    BY DEF WorkerSteps
  <2>3. r \in WorkerRec /\ r.pc = "fence" /\ r.task = wk[w].task /\ r.epoch = wk[w].epoch /\ r.digest = d
    BY <2>2, WorkerIs DEF WorkerRec
  <2> HIDE DEF r
  <2>4. Shape(r) /\ Behind(r) /\ Fits(r)
    BY <2>3, <1>1, <1>2, <1>3, WorkerIs DEF Shape, Behind, Fits, Numbered, Settling, Detached, Freed, Planned, At
  <2> QED BY <1>1, <1>3, <2>1, <2>3, <2>4, AttachStay
<1>4. CASE /\ secret[wk[w].epoch] = 0 /\ bearers < MaxBearers /\ bearers' = bearers + 1
           /\ secret' = [secret EXCEPT ![wk[w].epoch] = bearers'] /\ faults' = faults
           /\ wk' = [wk EXCEPT ![w] = [@ EXCEPT !.pc = "fence", !.digest = bearers']]
  <2>1. bearers' \in Digests /\ bearers' # 0 /\ secret' \in [Epochs -> 0 .. bearers']
    BY <1>2, <1>4, SecretMade DEF AttachInv
  <2>2. Rest
    BY <1>4, <2>1 DEF createSecret, Rest, AttachInv, Types
  <2> QED BY <1>3, <1>4, <2>1, <2>2
<1>5. CASE /\ secret[wk[w].epoch] # 0 /\ UNCHANGED <<secret, bearers, faults>>
           /\ wk' = [wk EXCEPT ![w] = [@ EXCEPT !.pc = "fence", !.digest = secret[wk[w].epoch]]]
  <2>1. Rest
    BY <1>5 DEF createSecret, Rest, AttachInv, Types
  <2>2. secret[wk[w].epoch] \in 0 .. bearers /\ bearers \in Digests
    BY <1>2 DEF AttachInv, Types
  <2>3. secret[wk[w].epoch] \in Digests
    BY SMTT(60), <2>2, AttachmentAssumption DEF Digests
  <2> QED BY <1>3, <1>5, <2>1, <2>3
<1>6. CASE Goes(w, "clean") /\ Fault /\ UNCHANGED <<secret, bearers>>
  <2>1. Rest
    BY <1>6, FaultIs DEF createSecret, Rest, AttachInv, Types
  <2> QED BY <1>1, <1>6, <2>1, AttachCleans
<1> QED BY <1>4, <1>5, <1>6 DEF createSecret

\* The workspace is read again: the copy is current and the attempt still fits it.
LEMMA AttachRevalidate ==
    ASSUME AttachInv, NEW w \in Workers, revalidate(w), UNCHANGED strayed
    PROVE  AttachInv'
<1>1. At(w, "fence") /\ ws' = ws /\ granted' = granted /\ ~At(w, "idle")
  BY DEF revalidate, At
<1>2. Rest
  BY FaultIs DEF revalidate, Rest, AttachInv, Types
<1>3. CASE Goes(w, "clean") /\ UNCHANGED fresh
  BY <1>1, <1>2, <1>3, AttachCleans
<1>4. CASE /\ Valid(Task(w)) /\ nextWorkspaceAttachmentEpoch = wk[w].epoch
           /\ Goes(w, "renew") /\ Reads(w)
  <2>1. "renew" \in WorkerSteps /\ fresh' \subseteq fresh \cup {w}
    BY <1>4 DEF WorkerSteps, Reads
  <2>2. PICK r \in WorkerRec : wk' = Put(w, r) /\ r.pc = "renew" /\ Like(r, wk[w])
    BY <1>4, <2>1, GoesIs DEF AttachInv, Types
  <2>3. r.epoch = ws.epoch + 1
    BY <1>4, <2>2, NextEpoch DEF AttachInv, Like
  <2>4. Shape(r) /\ Behind(r)
    BY <2>2, <1>1, WorkerIs DEF Shape, Behind, Numbered, Settling, Detached, At, Like
  <2>5. Fits(r)
    BY <1>4, <2>2, <2>3 DEF Fits, Detached, Freed, Planned, Like, Task
  <2> QED BY <1>1, <1>2, <2>1, <2>2, <2>4, <2>5, AttachStay
<1> QED BY <1>3, <1>4 DEF revalidate

\* The Lease is renewed as a fence.
LEMMA AttachRenew ==
    ASSUME AttachInv, NEW w \in Workers, renewAttachmentLeaseFence(w), UNCHANGED strayed
    PROVE  AttachInv'
<1>1. At(w, "renew") /\ ws' = ws /\ granted' = granted /\ fresh' = fresh /\ ~At(w, "idle")
  BY DEF renewAttachmentLeaseFence, At
<1>2. lease' \in LeaseRec
  BY WorkerIs, LeaseIs DEF renewAttachmentLeaseFence, Types
<1>3. Rest
  BY <1>2, FaultIs DEF renewAttachmentLeaseFence, Rest, AttachInv, Types
<1>4. CASE Goes(w, "patch")
  <2>1. Follows("patch", wk[w])
    BY <1>1 DEF Follows, At, WorkerSteps, Numbered, Settling, Detached, Freed, Planned
  <2> QED BY <1>1, <1>3, <1>4, <2>1, AttachGoes
<1>5. CASE Unfenced(w)
  <2> DEFINE r == [wk[w] EXCEPT !.pc = "clean", !.keep = TRUE]
  <2>1. wk' = Put(w, r)
    BY <1>5 DEF Unfenced, Put
  <2>2. "clean" \in WorkerSteps
    BY DEF WorkerSteps
  <2>3. r \in WorkerRec /\ r.pc = "clean" /\ r.task = wk[w].task /\ r.epoch = wk[w].epoch /\ r.digest = wk[w].digest
    BY <2>2, WorkerIs DEF WorkerRec
  <2> HIDE DEF r
  <2>4. Shape(r) /\ Behind(r) /\ Fits(r)
    BY <2>3, <1>1, WorkerIs DEF Shape, Behind, Fits, Numbered, Settling, Detached, Freed, Planned, At
  <2> QED BY <1>1, <1>3, <2>1, <2>3, <2>4, AttachStay
<1> QED BY <1>4, <1>5 DEF renewAttachmentLeaseFence

\* The fields of the workspace.
LEMMA WsIs ==
    ASSUME Types
    PROVE  /\ ws.att \in AttRec /\ ws.epoch \in 0 .. MaxEpoch /\ ws.desired \in States /\ ws.stamp \in 0 .. MaxEpoch
           /\ ws.receipt \in (0 .. NumTasks) \X (0 .. MaxEpoch) /\ ws.demand \in 0 .. NumTasks
           /\ ws.attached \in 0 .. MaxEpoch /\ ws.state \in States \cup {"Attached", "Pending"} /\ ws.seen \in BOOLEAN
           /\ ws.att.task \in 0 .. NumTasks /\ ws.att.epoch \in 0 .. MaxEpoch /\ ws.att.digest \in Digests
           /\ ws.att.expired \in BOOLEAN
<1>1. ws \in WsRec
  BY DEF Types
<1>2. ws.att \in AttRec
  BY <1>1 DEF WsRec
<1> QED BY <1>1, <1>2 DEF WsRec, AttRec

\* The attachment that worker w publishes.
LEMMA AttachedIs ==
    ASSUME AttachInv, NEW w \in Workers, ws' = Attached(w)
    PROVE  /\ ws' \in WsRec /\ ws'.att.task = wk[w].task /\ ws'.att.epoch = wk[w].epoch /\ ws'.att.digest = wk[w].digest
           /\ ws'.att.expired = FALSE /\ ws'.epoch = wk[w].epoch /\ ws'.desired = "Ready" /\ ws'.seen = FALSE
           /\ ws'.attached = ws.attached /\ ws'.receipt = ws.receipt
<1> DEFINE a == [task |-> Task(w), epoch |-> wk[w].epoch, digest |-> wk[w].digest, expired |-> FALSE]
<1>1. a \in AttRec /\ a.task = wk[w].task /\ a.epoch = wk[w].epoch /\ a.digest = wk[w].digest /\ a.expired = FALSE
  BY WorkerIs DEF AttRec, Task
<1>2. ws' = [ws EXCEPT !.att = a, !.epoch = wk[w].epoch, !.desired = "Ready", !.seen = FALSE]
  BY DEF Attached
<1> HIDE DEF a
<1>3. ws \in WsRec /\ "Ready" \in States
  BY DEF AttachInv, Types, States
<1>4. /\ ws' \in WsRec /\ ws'.att = a /\ ws'.epoch = wk[w].epoch /\ ws'.desired = "Ready" /\ ws'.seen = FALSE
      /\ ws'.attached = ws.attached /\ ws'.receipt = ws.receipt
  BY <1>1, <1>2, <1>3, WorkerIs DEF WsRec
<1> QED BY <1>1, <1>4

\* The history of a publication.
Grants(w) ==
    granted' = IF granted[wk[w].epoch].task = 0
               THEN [granted EXCEPT ![wk[w].epoch] = [task |-> Task(w), digest |-> wk[w].digest]] ELSE granted

\* Each epoch is published once: the patch takes the number after the workspace's, which is above
\* every number that was published, and its Task is the one whose epoch the adapter enforces.
LEMMA AttachPublish ==
    ASSUME AttachInv, NEW w \in Workers, At(w, "patch"), w \in fresh, Writes(w, Attached(w)),
           Grants(w)
    PROVE  /\ wk[w].epoch = ws.epoch + 1 /\ wk[w].epoch \in Epochs /\ granted' \in [Epochs -> GrantRec]
           /\ granted'[wk[w].epoch].task = wk[w].task /\ granted'[wk[w].epoch].digest = wk[w].digest
           /\ \A f \in Epochs : f # wk[w].epoch => granted'[f] = granted[f]
           /\ WsInv' /\ OneWriter'
<1> DEFINE e == wk[w].epoch
           g == [task |-> Task(w), digest |-> wk[w].digest]
<1>1. e = ws.epoch + 1 /\ Valid(wk[w].task) /\ e \in Epochs /\ wk[w].task \in Tasks
  BY WorkerIs DEF Fits, Shape, Numbered, At
<1>2. g \in GrantRec /\ g.task = wk[w].task /\ g.digest = wk[w].digest
  BY WorkerIs DEF GrantRec, Task
<1>3. granted \in [Epochs -> GrantRec] /\ granted' = [granted EXCEPT ![e] = g]
  <2>1. granted[e].task # 0 => e <= ws.epoch
    BY <1>1 DEF AttachInv, WsInv
  <2>2. granted[e].task = 0
    BY SMTT(60), <1>1, <2>1, WsIs DEF AttachInv
  <2> QED BY <2>2 DEF Grants, AttachInv, Types
<1> HIDE DEF g
<1>4. /\ granted' \in [Epochs -> GrantRec] /\ granted'[e] = g
      /\ \A f \in Epochs : f # e => granted'[f] = granted[f]
  BY <1>1, <1>2, <1>3
<1>5. /\ ws'.att.task = wk[w].task /\ ws'.att.epoch = e /\ ws'.att.digest = wk[w].digest
      /\ ws'.epoch = e /\ ws'.desired = "Ready" /\ ws'.seen = FALSE /\ ws'.attached = ws.attached
  BY AttachedIs DEF Writes
<1>6. ws.epoch \in 0 .. MaxEpoch /\ ws.attached \in 0 .. MaxEpoch /\ ws.attached <= ws.epoch
  BY WsIs DEF AttachInv, WsInv
<1>7. ws.attached <= e /\ ws.attached # e /\ (ws.attached # 0 => ws.attached \in Epochs)
  BY SMTT(60), <1>1, <1>6 DEF Epochs
<1>8. \A f \in Epochs : granted'[f].task # 0 => f <= e
  <2>1. \A f \in Epochs : granted[f].task # 0 => f <= ws.epoch
    BY DEF AttachInv, WsInv
  <2>2. \A f \in Epochs : f <= ws.epoch => f <= e
    BY SMTT(60), <1>1, <1>6 DEF Epochs
  <2>3. e <= e
    BY SMTT(60), <1>1 DEF Epochs
  <2> QED BY <2>1, <2>2, <2>3, <1>4
<1>9. ASSUME ws.attached # 0 PROVE granted'[ws.attached].task = wk[w].task
  <2>1. granted'[ws.attached] = granted[ws.attached]
    BY <1>4, <1>7, <1>9
  <2>2. ws.att # NoAtt
    <3> SUFFICES ASSUME ws.att = NoAtt PROVE FALSE
      OBVIOUS
    <3>1. ws.seen
      BY <1>1 DEF Valid, Reusable, Handshake
    <3>2. ws.attached = NoAtt.epoch
      BY <3>1 DEF AttachInv, WsInv
    <3> QED BY <3>2, <1>9, NoAttIs
  <2>3. ws.att.task = wk[w].task
    BY <1>1, <2>2 DEF Valid, Rotatable
  <2> QED BY <2>1, <2>2, <2>3, <1>9 DEF AttachInv, OneWriter
<1>10. WsInv'
  BY <1>1, <1>2, <1>4, <1>5, <1>7, <1>8, <1>9 DEF WsInv
<1>11. OneWriter'
  BY <1>5, <1>9 DEF OneWriter
<1> QED BY <1>1, <1>2, <1>4, <1>10, <1>11

\* The attachment is published, or the worker goes round again or fails.
LEMMA AttachPatch ==
    ASSUME AttachInv, NEW w \in Workers, patchAttachment(w), UNCHANGED strayed
    PROVE  AttachInv'
<1>1. At(w, "patch") /\ ~At(w, "idle")
  BY DEF patchAttachment, At
<1>2. Rest
  BY FaultIs DEF patchAttachment, Rest, AttachInv, Types
<1>3. CASE /\ w \in fresh /\ Writes(w, Attached(w))
           /\ Grants(w)
           /\ Goes(w, IF ws.att = NoAtt THEN "record" ELSE "drop") \/ Goes(w, "clean")
  <2>1. PICK q \in {"record", "drop", "clean"} : Goes(w, q)
    BY <1>3
  <2>2. Follows(q, wk[w])
    BY <1>1, <2>1 DEF Follows, At, WorkerSteps, Numbered, Settling, Detached, Freed, Planned
  <2>3. PICK r \in WorkerRec : wk' = Put(w, r) /\ r.pc = q /\ Like(r, wk[w])
    BY <2>1, <2>2, GoesIs DEF AttachInv, Types, Follows
  <2>4. Shape(r)
    BY <2>2, <2>3, WorkerIs, FollowsSound
  <2>5. /\ wk' \in [Workers -> WorkerRec] /\ wk'[w] = r
        /\ \A v \in Workers : v # w => wk'[v] = wk[v]
    BY <2>3, PutIs DEF AttachInv, Types
  <2>6. /\ wk[w].epoch = ws.epoch + 1 /\ granted' \in [Epochs -> GrantRec] /\ WsInv' /\ OneWriter'
    BY <1>1, <1>3, AttachPublish
  <2>7. ws' \in WsRec /\ ws'.epoch = wk[w].epoch /\ fresh' = {w}
    BY <1>3, AttachedIs DEF Writes
  <2>8. Types'
    BY <1>2, <2>5, <2>6, <2>7 DEF Types, Rest
  <2>9. ASSUME NEW v \in Workers PROVE Sound(wk[v], v \in fresh)'
    <3>1. CASE v = w
      <4>1. Behind(r)' /\ Fits(r)' /\ Shape(r)'
        BY <2>3, <2>4 DEF Behind, Fits, Shape, Settling, Detached, Freed, Planned
      <4> QED BY <3>1, <4>1, <2>5 DEF Sound
    <3>2. CASE v # w
      <4>1. PICK p : p = wk[v]
        OBVIOUS
      <4>2. Shape(p) /\ Behind(p) /\ v \notin fresh' /\ p.epoch \in Int
        BY <4>1, <3>2, <2>7, WorkerIs, Ints
      <4>3. p.epoch <= ws.epoch => p.epoch <= ws'.epoch
        BY SMTT(60), <4>2, <2>6, <2>7, WsIs DEF AttachInv
      <4>4. Shape(p)' /\ Behind(p)'
        BY <4>2, <4>3 DEF Shape, Behind
      <4> QED BY <4>1, <4>2, <4>4, <3>2, <2>5 DEF Sound
    <3> QED BY <3>1, <3>2
  <2> QED BY <2>6, <2>8, <2>9 DEF AttachInv
<1>4. CASE Goes(w, "fence") /\ UNCHANGED <<ws, fresh, granted>>
  <2>1. Follows("fence", wk[w])
    BY <1>1 DEF Follows, At, WorkerSteps, Numbered, Settling, Detached, Freed, Planned
  <2> QED BY <1>2, <1>4, <2>1, AttachGoes
<1>5. CASE Goes(w, "clean") /\ UNCHANGED <<ws, fresh, granted>>
  BY <1>1, <1>2, <1>5, AttachCleans
<1> QED BY <1>3, <1>4, <1>5 DEF patchAttachment, PatchFits, Grants

\* The cleanup leaves the workspace alone.
LEMMA AttachCleanup ==
    ASSUME AttachInv, NEW w \in Workers, cleanupReads(w) \/ cleanupSecret(w) \/ cleanupLease(w), UNCHANGED strayed
    PROVE  AttachInv'
<1>1. CASE cleanupReads(w)
  <2>1. At(w, "clean") /\ ws' = ws /\ granted' = granted /\ Rest
    BY <1>1 DEF cleanupReads, Rest, AttachInv, Types
  <2>2. CASE Stops(w)
    BY <2>1, <2>2, AttachStops DEF Stops
  <2>3. ASSUME NEW q \in {"unsecret", "unlease"}, NEW c \in BOOLEAN, fresh' = fresh,
               wk' = [wk EXCEPT ![w] = [@ EXCEPT !.pc = q, !.claimed = c]]
        PROVE  AttachInv'
    <3> DEFINE r == [wk[w] EXCEPT !.pc = q, !.claimed = c]
    <3>1. wk' = Put(w, r)
      BY <2>3 DEF Put
    <3>2. q \in WorkerSteps
      BY <2>3 DEF WorkerSteps
    <3>3. r \in WorkerRec /\ r.pc = q /\ r.task = wk[w].task /\ r.epoch = wk[w].epoch /\ r.digest = wk[w].digest
      BY <3>2, WorkerIs DEF WorkerRec
    <3> HIDE DEF r
    <3>4. Shape(r) /\ Behind(r) /\ Fits(r)
      BY <3>3, <2>1, WorkerIs DEF Shape, Behind, Fits, Numbered, Settling, Detached, Freed, Planned, At
    <3> QED BY <2>1, <2>3, <3>1, <3>3, <3>4, AttachStay
  <2>4. CASE ~Stops(w)
    <3> DEFINE q == IF wk[w].digest # 0 /\ ~wk[w].keep THEN "unsecret" ELSE "unlease"
               c == wk[w].claimed /\ ws.att = NoAtt
    <3>1. q \in {"unsecret", "unlease"} /\ c \in BOOLEAN
      BY WorkerIs
    <3>2. fresh' = fresh /\ wk' = [wk EXCEPT ![w] = [@ EXCEPT !.pc = q, !.claimed = c]]
      BY <1>1, <2>4 DEF cleanupReads
    <3> HIDE DEF q, c
    <3> QED BY <3>1, <3>2, <2>3
  <2> QED BY <2>2, <2>4
<1>2. CASE cleanupSecret(w)
  <2>1. At(w, "unsecret") /\ ws' = ws /\ granted' = granted /\ fresh' = fresh /\ Goes(w, "unlease")
    BY <1>2 DEF cleanupSecret
  <2>2. secret' \in [Epochs -> 0 .. bearers]
    BY <1>2, SecretGone DEF cleanupSecret, AttachInv, Types
  <2>3. Rest
    BY <1>2, <2>2 DEF cleanupSecret, Rest, AttachInv, Types
  <2>4. Follows("unlease", wk[w])
    BY <2>1 DEF Follows, At, WorkerSteps, Numbered, Settling, Detached, Freed, Planned
  <2> QED BY <2>1, <2>3, <2>4, AttachGoes
<1>3. CASE cleanupLease(w)
  <2>1. ws' = ws /\ granted' = granted /\ Idles(w) /\ fresh' \subseteq fresh
    BY <1>3 DEF cleanupLease, Stops
  <2>2. lease' \in LeaseRec
    BY <1>3, WorkerIs, LeaseIs DEF cleanupLease, AttachInv, Types
  <2>3. Rest
    BY <1>3, <2>2 DEF cleanupLease, Rest, AttachInv, Types
  <2> QED BY <2>1, <2>3, AttachStops
<1> QED BY <1>1, <1>2, <1>3

----------------------------------------------------------------------------
(* The actions of a Task that has not ended. *)

\* A pass that overlaps another of its Task is counted.
LEMMA TakesIs ==
    ASSUME Types, NEW w \in Workers, NEW t, Takes(w, t)
    PROVE  /\ wk[w].pc = "idle" /\ faults' \in Nat /\ strayed' \in BOOLEAN
           /\ ~strayed' => ~strayed /\ \A v \in Workers : wk[v].task # t
<1>1. CASE \E v \in Workers : wk[v].task = t
  <2>1. wk[w].pc = "idle" /\ Fault /\ strayed' = TRUE
    BY <1>1 DEF Takes, At
  <2> QED BY <2>1, FaultIs
<1>2. CASE ~\E v \in Workers : wk[v].task = t
  BY <1>2 DEF Takes, At, Types
<1> QED BY <1>1, <1>2

\* A worker that keeps its locals.
LEMMA PutSame ==
    ASSUME Types, NEW w \in Workers, wk' = wk
    PROVE  wk' = Put(w, wk[w])
BY SMTT(60) DEF Types, Put

\* A suspended workspace is resumed, or the demand is recorded.
LEMMA AttachResume ==
    ASSUME AttachInv, NEW w \in Workers, NEW t \in Tasks, resumeWorkspace(w, t)
    PROVE  AttachInv'
<1>1. Takes(w, t) /\ ws.desired = "Suspended" /\ granted' = granted /\ fresh' \subseteq {w} /\ wk' = wk /\ w \notin fresh'
  BY DEF resumeWorkspace, Waiting, WritesLast
<1>2. Rest
  BY <1>1, TakesIs DEF resumeWorkspace, Rest, AttachInv, Types
<1>3. ws \in WsRec /\ ws.att = NoAtt /\ t \in 0 .. NumTasks /\ "Ready" \in States
  BY SMTT(60), <1>1 DEF AttachInv, Types, OneWriter, Tasks, States
<1>4. Retires
  <2>1. CASE ws' = [ws EXCEPT !.desired = "Ready", !.demand = t, !.seen = FALSE]
    <3>1. /\ ws' \in WsRec /\ ws'.epoch = ws.epoch /\ ws'.attached = ws.attached /\ ws'.att = ws.att
          /\ ws'.seen = FALSE /\ ws'.desired = "Ready"
      BY <2>1, <1>3 DEF WsRec
    <3> QED BY <3>1 DEF Retires
  <2>2. CASE ws' = [ws EXCEPT !.demand = t]
    <3>1. /\ ws' \in WsRec /\ ws'.epoch = ws.epoch /\ ws'.attached = ws.attached /\ ws'.att = ws.att
          /\ ws'.seen = ws.seen
      BY <2>2, <1>3 DEF WsRec
    <3> QED BY <3>1, <1>1, <1>3 DEF Retires
  <2> QED BY <2>1, <2>2 DEF resumeWorkspace, WritesLast
<1>5. wk[w] \in WorkerRec /\ Shape(wk[w]) /\ Behind(wk[w]) /\ wk' = Put(w, wk[w])
  BY <1>1, WorkerIs, PutSame
<1> QED BY <1>1, <1>2, <1>4, <1>5, AttachWrite

\* A pass begins an attempt.
LEMMA AttachBegins ==
    ASSUME AttachInv, NEW w \in Workers, NEW t \in Tasks, beginAttach(w, t)
    PROVE  AttachInv'
<1>1. Takes(w, t) /\ ws' = ws /\ granted' = granted /\ fresh' = fresh
  BY DEF beginAttach, Waiting
<1>2. Rest
  BY <1>1, TakesIs DEF beginAttach, Rest, AttachInv, Types
<1> DEFINE r == [Idle EXCEPT !.pc = "lease", !.task = t]
<1>3. wk' = Put(w, r)
  BY DEF beginAttach, Begins, Put
<1>4. t \in 0 .. NumTasks
  BY SMTT(60) DEF Tasks
<1>5. "lease" \in WorkerSteps
  BY DEF WorkerSteps
<1>6. r \in WorkerRec /\ r.pc = "lease" /\ r.task = t /\ r.digest = 0
  BY <1>4, <1>5, IdleIs DEF WorkerRec
<1> HIDE DEF r
<1>7. Shape(r) /\ Behind(r) /\ Fits(r)
  BY <1>6 DEF Shape, Behind, Fits, Numbered, Settling, Detached, Freed, Planned
<1> QED BY <1>1, <1>2, <1>3, <1>6, <1>7, AttachStay

\* An attachment of a Task is not the empty one.
LEMMA TaskAttached ==
    ASSUME AttachInv, NEW t \in Tasks, ws.att.task = t
    PROVE  ws.att # NoAtt /\ ws.att.epoch \in Epochs /\ ws.att.epoch = ws.epoch /\ granted[ws.att.epoch].task = t
<1>1. t # 0
  BY SMTT(60) DEF Tasks
<1>2. ws.att # NoAtt
  BY <1>1, NoAttIs
<1> QED BY <1>2 DEF AttachInv, WsInv

\* An enforced attachment is adopted.
LEMMA AttachAdopt ==
    ASSUME AttachInv, NEW w \in Workers, NEW t \in Tasks, adoptAttachment(w, t)
    PROVE  AttachInv'
<1>1. Takes(w, t) /\ ws.att.task = t /\ ws' = ws /\ granted' = granted /\ fresh' \subseteq fresh \cup {w}
  BY DEF adoptAttachment, Waiting, Adoptable, Reads
<1>2. secret' \in [Epochs -> 0 .. bearers]
  BY SecretGone DEF adoptAttachment, AttachInv, Types
<1>3. Rest
  BY <1>1, <1>2, TakesIs DEF adoptAttachment, Rest, AttachInv, Types
<1> DEFINE r == [Idle EXCEPT !.pc = "adopt", !.task = t, !.epoch = ws.att.epoch]
<1>4. wk' = Put(w, r)
  BY DEF adoptAttachment, Put
<1>5. t \in 0 .. NumTasks /\ ws.att.epoch \in 0 .. MaxEpoch /\ ws.att.epoch \in Epochs
  <2>1. t \in 0 .. NumTasks
    BY SMTT(60) DEF Tasks
  <2> QED BY <2>1, <1>1, TaskAttached, WsIs DEF AttachInv
<1>6. "adopt" \in WorkerSteps
  BY DEF WorkerSteps
<1>7. r \in WorkerRec /\ r.pc = "adopt" /\ r.task = t /\ r.epoch = ws.att.epoch /\ r.digest = 0
  BY <1>5, <1>6, IdleIs DEF WorkerRec
<1> HIDE DEF r
<1>8. Shape(r) /\ Behind(r) /\ Fits(r)
  BY <1>5, <1>7 DEF Shape, Behind, Fits, Numbered, Settling, Detached, Freed, Planned
<1> QED BY <1>1, <1>3, <1>4, <1>7, <1>8, AttachStay

\* The stamp and the demand are cleared.
LEMMA AttachRecord ==
    ASSUME AttachInv, NEW w \in Workers, recordACPWorkspaceDetachAction(w), UNCHANGED strayed
    PROVE  AttachInv'
<1>1. At(w, "adopt") /\ granted' = granted /\ Rest
  BY DEF recordACPWorkspaceDetachAction, Rest, AttachInv, Types
<1>2. CASE w \in fresh
  <2>1. ws' = [ws EXCEPT !.stamp = 0, !.demand = 0] /\ fresh' = {w} /\ Goes(w, "record")
    BY <1>2 DEF recordACPWorkspaceDetachAction, Writes
  <2>2. ws \in WsRec /\ 0 \in 0 .. NumTasks /\ 0 \in 0 .. MaxEpoch
    BY SMTT(60), AttachmentAssumption DEF AttachInv, Types
  <2>3. /\ ws' \in WsRec /\ ws'.epoch = ws.epoch /\ ws'.attached = ws.attached /\ ws'.att = ws.att
        /\ ws'.seen = ws.seen /\ ws'.desired = ws.desired
    BY <2>1, <2>2 DEF WsRec
  <2>4. Retires
    BY <2>3 DEF Retires, AttachInv, OneWriter
  <2>5. Follows("record", wk[w])
    BY <1>1 DEF Follows, At, WorkerSteps, Numbered, Settling, Detached, Freed, Planned
  <2>6. PICK r \in WorkerRec : wk' = Put(w, r) /\ r.pc = "record" /\ Like(r, wk[w])
    BY <2>1, <2>5, GoesIs DEF AttachInv, Types, Follows
  <2>7. Shape(r) /\ Behind(r)
    BY <2>5, <2>6, WorkerIs, FollowsSound
  <2>8. Fits(r)'
    BY <2>6 DEF Fits, Detached, Freed, Planned
  <2> QED BY <1>1, <2>1, <2>4, <2>6, <2>7, <2>8, AttachWrite
<1>3. CASE w \notin fresh
  <2>1. Idles(w) /\ fresh' \subseteq fresh /\ ws' = ws
    BY <1>3 DEF recordACPWorkspaceDetachAction, Stops
  <2> QED BY <1>1, <2>1, AttachStops
<1> QED BY <1>2, <1>3

\* The epoch is recorded on the Task, and the expired bearer is deleted.
LEMMA AttachMarks ==
    ASSUME AttachInv, NEW w \in Workers, markACPTaskAttachmentEpoch(w) \/ dropExpiredBearer(w), UNCHANGED strayed
    PROVE  AttachInv'
<1>1. ws' = ws /\ granted' = granted /\ fresh' \subseteq fresh /\ Idles(w)
  BY DEF markACPTaskAttachmentEpoch, dropExpiredBearer, Stops
<1>2. Rest
  <2>1. CASE markACPTaskAttachmentEpoch(w)
    <3>1. wk[w].task \in Tasks /\ task' = SetEpoch(wk[w].task, wk[w].epoch)
      BY <2>1, WorkerIs DEF markACPTaskAttachmentEpoch, Shape, At, Task, SetEpoch
    <3>2. task' \in [Tasks -> TaskRec]
      BY <3>1, WorkerIs, TaskIs
    <3> QED BY <2>1, <3>2 DEF markACPTaskAttachmentEpoch, Rest, AttachInv, Types
  <2>2. CASE dropExpiredBearer(w)
    <3>1. secret' \in [Epochs -> 0 .. bearers]
      BY <2>2, SecretGone DEF dropExpiredBearer, AttachInv
    <3> QED BY <2>2, <3>1 DEF dropExpiredBearer, Rest, AttachInv, Types
  <2> QED BY <2>1, <2>2
<1> QED BY <1>1, <1>2, AttachStops

----------------------------------------------------------------------------
(* The actions of a settlement. *)

\* A worker goes on, with or without its step's deletions.
LEMMA AttachOn ==
    ASSUME AttachInv, NEW w \in Workers, UNCHANGED strayed,
           \/ FinalizeRevocation(w) \/ finalizeSecret(w) \/ deleteWorkspaceOwnedAttachmentLeaseForEpoch(w)
           \/ waitForRelease(w) \/ deleteACPWorkspaceAttachmentCredentials(w) \/ markACPTaskWorkspaceSettled(w)
    PROVE  AttachInv'
<1>1. CASE FinalizeRevocation(w)
  <2>1. At(w, "final") /\ ws' = ws /\ granted' = granted /\ fresh' = fresh /\ Rest
    BY <1>1 DEF FinalizeRevocation, Rest, AttachInv, Types
  <2>2. CASE Goes(w, "late")
    <3>1. Follows("late", wk[w])
      BY <2>1 DEF Follows, At, WorkerSteps, Numbered, Settling, Detached, Freed, Planned
    <3> QED BY <2>1, <2>2, <3>1, AttachGoes
  <2>3. CASE Goes(w, "bearer") /\ Released(wk[w].epoch)
    <3>1. "bearer" \in WorkerSteps
      BY DEF WorkerSteps
    <3>2. PICK r \in WorkerRec : wk' = Put(w, r) /\ r.pc = "bearer" /\ Like(r, wk[w])
      BY <2>3, <3>1, GoesIs DEF AttachInv, Types
    <3>3. Shape(r) /\ Behind(r)
      BY <2>1, <3>2, WorkerIs DEF Shape, Behind, Numbered, Settling, At, Like
    <3>4. w \in fresh => Fits(r)
      <4>1. wk[w].plan = "patch" /\ w \in fresh => ws.desired # "Quarantined"
        BY <2>1, WorkerIs DEF Fits, Planned, At
      <4> QED BY <2>3, <3>2, <4>1 DEF Fits, Detached, Freed, Planned, Released, LetGo, Like
    <3> QED BY <2>1, <3>2, <3>3, <3>4, AttachStay
  <2> QED BY <1>1, <2>2, <2>3 DEF FinalizeRevocation
<1>2. CASE finalizeSecret(w)
  <2>1. At(w, "bearer") /\ ws' = ws /\ granted' = granted /\ fresh' = fresh /\ Goes(w, "unhold")
    BY <1>2 DEF finalizeSecret
  <2>2. secret' \in [Epochs -> 0 .. bearers]
    BY <1>2, SecretGone DEF finalizeSecret, AttachInv
  <2>3. Rest
    BY <1>2, <2>2 DEF finalizeSecret, Rest, AttachInv, Types
  <2>4. Follows("unhold", wk[w])
    BY <2>1 DEF Follows, At, WorkerSteps, Numbered, Settling, Detached, Freed, Planned
  <2> QED BY <2>1, <2>3, <2>4, AttachGoes
<1>3. CASE deleteWorkspaceOwnedAttachmentLeaseForEpoch(w)
  <2>1. At(w, "unhold") /\ ws' = ws /\ granted' = granted /\ fresh' = fresh
    BY <1>3 DEF deleteWorkspaceOwnedAttachmentLeaseForEpoch
  <2>2. lease' \in LeaseRec
    BY <1>3, WorkerIs, LeaseIs DEF deleteWorkspaceOwnedAttachmentLeaseForEpoch, AttachInv, Types
  <2>3. Rest
    BY <1>3, <2>2 DEF deleteWorkspaceOwnedAttachmentLeaseForEpoch, Rest, AttachInv, Types
  <2>4. PICK q \in {"suspend", "late"} : Goes(w, q)
    BY <1>3 DEF deleteWorkspaceOwnedAttachmentLeaseForEpoch
  <2>5. Follows(q, wk[w])
    BY <2>1, <2>4 DEF Follows, At, WorkerSteps, Numbered, Settling, Detached, Freed, Planned
  <2> QED BY <2>1, <2>3, <2>4, <2>5, AttachGoes
<1>4. CASE waitForRelease(w)
  <2>1. ws' = ws /\ granted' = granted /\ fresh' \subseteq fresh /\ Idles(w) /\ Rest
    BY <1>4 DEF waitForRelease, Stops, Rest, AttachInv, Types
  <2> QED BY <2>1, AttachStops
<1>5. CASE deleteACPWorkspaceAttachmentCredentials(w)
  <2>1. CASE At(w, "qsecret")
    <3>1. ws' = ws /\ granted' = granted /\ fresh' = fresh /\ Goes(w, "qlease")
      BY <1>5, <2>1 DEF deleteACPWorkspaceAttachmentCredentials, At
    <3>2. secret' \in [Epochs -> 0 .. bearers]
      BY <1>5, <2>1, SecretGone DEF deleteACPWorkspaceAttachmentCredentials, AttachInv, Types, At
    <3>3. Rest
      BY <1>5, <2>1, <3>2 DEF deleteACPWorkspaceAttachmentCredentials, Rest, AttachInv, Types, At
    <3>4. Follows("qlease", wk[w])
      BY <2>1 DEF Follows, At, WorkerSteps, Numbered, Settling, Detached, Freed, Planned
    <3> QED BY <3>1, <3>3, <3>4, AttachGoes
  <2>2. CASE At(w, "qlease")
    <3>1. ws' = ws /\ granted' = granted /\ fresh' \subseteq fresh /\ Idles(w) /\ lease' = NoLease
      BY <1>5, <2>2 DEF deleteACPWorkspaceAttachmentCredentials, At, Stops
    <3>2. wk[w].task \in Tasks /\ task' = SetSettled(wk[w].task)
      BY <1>5, <2>2, WorkerIs DEF deleteACPWorkspaceAttachmentCredentials, Shape, At, Task, SetSettled
    <3>3. task' \in [Tasks -> TaskRec] /\ lease' \in LeaseRec
      BY <3>1, <3>2, WorkerIs, TaskIs, LeaseIs
    <3>4. Rest
      BY <1>5, <2>2, <3>3 DEF deleteACPWorkspaceAttachmentCredentials, Rest, AttachInv, Types, At
    <3> QED BY <3>1, <3>4, AttachStops
  <2> QED BY <1>5, <2>1, <2>2 DEF deleteACPWorkspaceAttachmentCredentials
<1>6. CASE markACPTaskWorkspaceSettled(w)
  <2>1. ws' = ws /\ granted' = granted /\ fresh' \subseteq fresh /\ Idles(w)
    BY <1>6 DEF markACPTaskWorkspaceSettled, Stops
  <2>2. wk[w].task \in Tasks /\ task' = SetSettled(wk[w].task)
    BY <1>6, WorkerIs DEF markACPTaskWorkspaceSettled, Shape, At, Task, SetSettled
  <2>3. task' \in [Tasks -> TaskRec]
    BY <2>2, WorkerIs, TaskIs
  <2>4. Rest
    BY <1>6, <2>3 DEF markACPTaskWorkspaceSettled, Rest, AttachInv, Types
  <2> QED BY <2>1, <2>4, AttachStops
<1> QED BY <1>1, <1>2, <1>3, <1>4, <1>5, <1>6

\* A worker writes the workspace and goes on.
LEMMA AttachWriteOn ==
    ASSUME AttachInv, NEW w \in Workers, NEW q, Follows(q, wk[w]), Goes(w, q), Retires, granted' = granted,
           fresh' \subseteq {w}, fresh' \subseteq fresh, Rest,
           q \notin {"renew", "patch"}, q \in Planned => ws'.desired = ws.desired, ws'.att = ws.att
    PROVE  AttachInv'
<1>1. PICK r \in WorkerRec : wk' = Put(w, r) /\ r.pc = q /\ Like(r, wk[w])
  BY GoesIs DEF AttachInv, Types, Follows
<1>2. Shape(wk[w]) /\ Behind(wk[w]) /\ (w \in fresh' => Fits(wk[w]))
  BY WorkerIs
<1>3. Shape(r) /\ Behind(r) /\ (w \in fresh' => Fits(r))
  BY <1>1, <1>2, FollowsSound
<1>4. Fits(r) => Fits(r)'
  BY <1>1 DEF Fits, Retires, LetGo
<1> QED BY <1>1, <1>3, <1>4, AttachWrite

\* What is left to do is to delete credentials, to mark the Task or to patch the workspace.
LEMMA PlanIs ==
    ASSUME NEW t
    PROVE  /\ DetachPlan(t) \in Plans /\ DetachPlan(t) # "none"
           /\ DetachPlan(t) = "credentials" <=> ws.desired = "Quarantined"
BY SMTT(60) DEF DetachPlan, Plans

\* A settlement begins, or its Task is marked.
LEMMA AttachSettle ==
    ASSUME AttachInv, NEW w \in Workers, NEW t \in Tasks, settleACPClassWorkspace(w, t)
    PROVE  AttachInv'
<1>1. Takes(w, t) /\ ws' = ws /\ granted' = granted
  BY DEF settleACPClassWorkspace
<1>2. faults' \in Nat /\ strayed' \in BOOLEAN
  BY <1>1, TakesIs DEF AttachInv
<1>3. CASE Covered(t) \/ ByOther(t)
  <2>1. task' = SetSettled(t) /\ wk' = wk /\ fresh' = fresh
    BY <1>3 DEF settleACPClassWorkspace, SetSettled
  <2>2. task' \in [Tasks -> TaskRec]
    BY <2>1, WorkerIs, TaskIs
  <2>3. Rest
    BY <1>2, <2>2 DEF settleACPClassWorkspace, Rest, AttachInv, Types
  <2>4. wk' = Put(w, wk[w])
    BY <2>1, WorkerIs, PutSame
  <2> QED BY <1>1, <2>1, <2>3, <2>4, WorkerIs, AttachStay
<1>4. CASE ~(Covered(t) \/ ByOther(t))
  <2> DEFINE k == Stamped
             c == ws.att # NoAtt
             q == IF ws.epoch > 0 THEN "stamp" ELSE "suspend"
             d == DetachPlan(t)
             r == [Idle EXCEPT !.pc = q, !.task = t, !.epoch = ws.epoch, !.keep = k, !.claimed = c, !.plan = d]
  <2>1. wk' = Put(w, r) /\ fresh' \subseteq fresh \cup {w}
    BY <1>4 DEF settleACPClassWorkspace, Put, Reads
  <2>2. k \in BOOLEAN /\ c \in BOOLEAN /\ d \in Plans /\ (d = "patch" => ws.desired # "Quarantined")
    BY PlanIs DEF Stamped
  <2>3. q \in {"stamp", "suspend"} /\ q \in WorkerSteps
    BY DEF WorkerSteps
  <2>4. t \in 0 .. NumTasks /\ ws.epoch \in 0 .. MaxEpoch
    <3>1. t \in 0 .. NumTasks
      BY SMTT(60) DEF Tasks
    <3> QED BY <3>1, WsIs DEF AttachInv
  <2>5. (q = "stamp" => ws.epoch \in Epochs) /\ (q = "suspend" => ws.epoch \notin Epochs)
    BY SMTT(60), <2>4 DEF Epochs
  <2>5a. q = "suspend" => LetGo
    BY SMTT(60), <2>4, WsIs DEF AttachInv, WsInv, LetGo
  <2>6. c => ws.epoch \in Epochs
    BY DEF AttachInv, WsInv
  <2>7. ws.epoch <= ws.epoch
    BY SMTT(60), <2>4
  <2>8. ~c => ws.att = NoAtt
    OBVIOUS
  <2> HIDE DEF k, c, q, d
  <2>9. /\ r \in WorkerRec /\ r.pc = q /\ r.task = t /\ r.epoch = ws.epoch /\ r.digest = 0
        /\ r.claimed = c /\ r.plan = d
    BY <2>2, <2>3, <2>4, IdleIs DEF WorkerRec
  <2> HIDE DEF r
  <2>10. Shape(r) /\ Behind(r)
    BY <2>3, <2>5, <2>7, <2>9 DEF Shape, Behind, Numbered, Settling
  <2>11. Fits(r)
    BY <2>2, <2>3, <2>5, <2>5a, <2>6, <2>8, <2>9 DEF Fits, Detached, Freed, Planned
  <2>12. task' \in [Tasks -> TaskRec]
    <3>1. CASE ws.att # NoAtt
      <4>1. task' = SetEpoch(t, ws.att.epoch)
        BY <1>4, <3>1 DEF settleACPClassWorkspace, SetEpoch
      <4> QED BY <4>1, WsIs, TaskIs DEF AttachInv
    <3>2. CASE ws.att = NoAtt
      BY <1>4, <3>2 DEF settleACPClassWorkspace, AttachInv, Types
    <3> QED BY <3>1, <3>2
  <2>13. Rest
    BY <1>2, <2>12 DEF settleACPClassWorkspace, Rest, AttachInv, Types
  <2> QED BY <1>1, <2>1, <2>9, <2>10, <2>11, <2>13, AttachStay
<1> QED BY <1>3, <1>4

\* The stamp is written, unless it is there or the copy is stale.
LEMMA AttachStamp ==
    ASSUME AttachInv, NEW w \in Workers, markACPWorkspaceRevocationStarted(w), UNCHANGED strayed
    PROVE  AttachInv'
<1> DEFINE q == IF wk[w].claimed THEN "begin" ELSE "final"
<1>1. At(w, "stamp") /\ granted' = granted /\ Rest
  BY DEF markACPWorkspaceRevocationStarted, Rest, AttachInv, Types
<1>2. Follows(q, wk[w])
  <2>1. CASE wk[w].claimed
    BY <1>1, <2>1 DEF Follows, At, WorkerSteps, Numbered, Settling, Detached, Freed, Planned
  <2>2. CASE ~wk[w].claimed
    BY <1>1, <2>2 DEF Follows, At, WorkerSteps, Numbered, Settling, Detached, Freed, Planned
  <2> QED BY <2>1, <2>2
<1>3. q \notin {"renew", "patch"}
  OBVIOUS
<1>4. CASE Goes(w, q) /\ UNCHANGED <<ws, fresh>>
  BY <1>1, <1>2, <1>4, AttachGoes
<1>5. CASE w \in fresh /\ Writes(w, [ws EXCEPT !.stamp = wk[w].epoch]) /\ Goes(w, q)
  <2>1. ws \in WsRec /\ ws' = [ws EXCEPT !.stamp = wk[w].epoch] /\ fresh' = {w}
    BY <1>5 DEF Writes, AttachInv, Types
  <2>2. /\ ws' \in WsRec /\ ws'.epoch = ws.epoch /\ ws'.attached = ws.attached /\ ws'.att = ws.att
        /\ ws'.seen = ws.seen /\ ws'.desired = ws.desired
    BY <2>1, WorkerIs DEF WsRec
  <2>3. Retires
    BY <2>2 DEF Retires, AttachInv, OneWriter
  <2>4. fresh' \subseteq {w} /\ fresh' \subseteq fresh
    BY <1>5, <2>1
  <2> HIDE DEF q
  <2> QED BY <1>1, <1>2, <1>3, <1>5, <2>2, <2>3, <2>4, AttachWriteOn
<1>6. CASE Stops(w) /\ UNCHANGED ws
  BY <1>1, <1>6, AttachStops DEF Stops
<1> QED BY <1>4, <1>5, <1>6 DEF markACPWorkspaceRevocationStarted

\* The attachment is taken away; the workspace's epoch stays what it was.
LEMMA AttachRevoke ==
    ASSUME AttachInv, NEW w \in Workers, BeginRevocation(w), UNCHANGED strayed
    PROVE  AttachInv'
<1> DEFINE high == Highest({ws.epoch, wk[w].epoch, ws.attached})
<1>1. At(w, "begin") /\ granted' = granted /\ Rest
  BY DEF BeginRevocation, Rest, AttachInv, Types
<1>2. high = ws.epoch
  <2>1. wk[w].epoch <= ws.epoch /\ ws.attached <= ws.epoch
    BY <1>1, WorkerIs DEF Behind, At, Settling, AttachInv, WsInv
  <2> QED BY <2>1, Ints, HighestIs DEF AttachInv
<1>3. CASE Stops(w) /\ UNCHANGED ws
  BY <1>1, <1>3, AttachStops DEF Stops
<1>4. CASE Idles(w) /\ WritesLast([ws EXCEPT !.att = NoAtt, !.epoch = high, !.seen = FALSE])
  <2>1. ws' = [ws EXCEPT !.att = NoAtt, !.epoch = ws.epoch, !.seen = FALSE] /\ fresh' = {}
    BY <1>2, <1>4 DEF WritesLast
  <2>2. ws \in WsRec /\ ws.epoch \in 0 .. MaxEpoch
    BY WsIs DEF AttachInv, Types
  <2>3. /\ ws' \in WsRec /\ ws'.epoch = ws.epoch /\ ws'.attached = ws.attached /\ ws'.att = NoAtt
        /\ ws'.seen = FALSE /\ ws'.desired = ws.desired
    BY <2>1, <2>2, NoAttIs DEF WsRec
  <2>4. Retires
    BY <2>3 DEF Retires
  <2>5. wk' = Put(w, Idle) /\ fresh' \subseteq {w} /\ w \notin fresh'
    BY <1>4, <2>1 DEF Idles, Put
  <2> QED BY <1>1, <2>4, <2>5, IdleIs, SoundIdle, AttachWrite
<1> QED BY <1>3, <1>4 DEF BeginRevocation

\* The workspace is quarantined.
LEMMA AttachQuarantine ==
    ASSUME AttachInv, NEW w \in Workers, quarantineACPWorkspacePastDetachTimeout(w), UNCHANGED strayed
    PROVE  AttachInv'
<1>1. At(w, "late") /\ w \in fresh /\ granted' = granted /\ Rest /\ Goes(w, "qsecret")
  BY DEF quarantineACPWorkspacePastDetachTimeout, Rest, AttachInv, Types
<1>2. ws \in WsRec /\ ws' = [ws EXCEPT !.desired = "Quarantined", !.seen = FALSE] /\ fresh' = {w} /\ "Quarantined" \in States
  BY DEF quarantineACPWorkspacePastDetachTimeout, Writes, AttachInv, Types, States
<1>3. /\ ws' \in WsRec /\ ws'.epoch = ws.epoch /\ ws'.attached = ws.attached /\ ws'.att = ws.att
      /\ ws'.seen = FALSE /\ ws'.desired = "Quarantined"
  BY <1>2 DEF WsRec
<1>4. Retires
  BY <1>3 DEF Retires
<1>5. Follows("qsecret", wk[w])
  BY <1>1 DEF Follows, At, WorkerSteps, Numbered, Settling, Detached, Freed, Planned
<1>6. fresh' \subseteq {w} /\ fresh' \subseteq fresh /\ "qsecret" \notin Planned
  BY <1>1, <1>2 DEF Planned
<1> QED BY <1>1, <1>3, <1>4, <1>5, <1>6, AttachWriteOn

\* What the two patches at the end of a settlement write.
LEMMA DetachWrites ==
    ASSUME AttachInv, NEW t \in Tasks, ws' = Receipted(t) \/ ws' = Suspended(t), ws.att = NoAtt, LetGo
    PROVE  /\ ws' \in WsRec /\ ws'.epoch = ws.epoch /\ ws'.attached = ws.attached /\ ws'.att = ws.att
           /\ ws'.seen => ws.seen
           /\ ws'.receipt = ws.receipt \/ ws'.receipt = <<t, task[t].epoch>>
           /\ Retires
<1>1. ws \in WsRec /\ "Suspended" \in States /\ 0 \in 0 .. NumTasks /\ 0 \in 0 .. MaxEpoch
  BY SMTT(60), AttachmentAssumption DEF AttachInv, Types, States
<1> DEFINE x == <<t, task[t].epoch>>
<1>2. x \in (0 .. NumTasks) \X (0 .. MaxEpoch)
  <2>1. t \in 0 .. NumTasks
    BY SMTT(60) DEF Tasks
  <2>2. task[t].epoch \in 0 .. MaxEpoch
    BY DEF AttachInv, Types, TaskRec
  <2> QED BY <2>1, <2>2
<1>3. \/ ws' = ws \/ ws' = [ws EXCEPT !.receipt = x]
      \/ ws' = [ws EXCEPT !.desired = "Suspended", !.stamp = 0, !.receipt = x, !.demand = 0, !.seen = FALSE]
  BY DEF Receipted, Suspended
<1> HIDE DEF x
<1>4. /\ ws' \in WsRec /\ ws'.epoch = ws.epoch /\ ws'.attached = ws.attached /\ ws'.att = ws.att
      /\ ws'.seen => ws.seen
      /\ ws'.receipt = ws.receipt \/ ws'.receipt = x
  <2>1. CASE ws' = ws
    BY <1>1, <2>1
  <2>2. CASE ws' = [ws EXCEPT !.receipt = x]
    BY <1>1, <1>2, <2>2 DEF WsRec
  <2>3. CASE ws' = [ws EXCEPT !.desired = "Suspended", !.stamp = 0, !.receipt = x, !.demand = 0, !.seen = FALSE]
    BY <1>1, <1>2, <2>3 DEF WsRec
  <2> QED BY <1>3, <2>1, <2>2, <2>3
<1>5. Retires
  BY <1>4 DEF Retires
<1> QED BY <1>4, <1>5 DEF x

\* The detach action is applied.
LEMMA AttachDetach ==
    ASSUME AttachInv, NEW w \in Workers, applyDetachAction(w), UNCHANGED strayed
    PROVE  AttachInv'
<1>1. At(w, "suspend") /\ granted' = granted /\ Rest
  BY DEF applyDetachAction, Rest, AttachInv, Types
<1>2. wk[w].task \in Tasks /\ (w \in fresh => ws.att = NoAtt /\ LetGo)
  BY <1>1, WorkerIs DEF Shape, Fits, At, Detached, Freed, Planned
<1>3. CASE Stops(w) /\ UNCHANGED ws
  BY <1>1, <1>3, AttachStops DEF Stops
<1>4. CASE (Goes(w, "qsecret") \/ Goes(w, "mark")) /\ UNCHANGED <<ws, fresh>>
  <2>1. Follows("qsecret", wk[w]) /\ Follows("mark", wk[w])
    BY <1>1 DEF Follows, At, WorkerSteps, Numbered, Settling, Detached, Freed, Planned
  <2> QED BY <1>1, <1>4, <2>1, AttachGoes
<1>5. CASE w \in fresh /\ Goes(w, "mark") /\ (Writes(w, Receipted(Task(w))) \/ Writes(w, Suspended(Task(w))))
  <2>1. fresh' \subseteq {w} /\ fresh' \subseteq fresh /\ (ws' = Receipted(wk[w].task) \/ ws' = Suspended(wk[w].task))
    BY <1>5 DEF Writes, Task
  <2>2. Retires /\ ws'.att = ws.att
    BY <1>2, <1>5, <2>1, DetachWrites
  <2>3. Follows("mark", wk[w]) /\ "mark" \notin Planned
    BY <1>1 DEF Follows, At, WorkerSteps, Numbered, Settling, Detached, Freed, Planned
  <2> QED BY <1>1, <1>5, <2>1, <2>2, <2>3, AttachWriteOn
<1> QED BY <1>3, <1>4, <1>5 DEF applyDetachAction

----------------------------------------------------------------------------
(* The environment, and the theorems of the first invariant. *)

\* The workers stay where they are.
LEMMA AttachEnd ==
    ASSUME AttachInv, NEW t \in Tasks, endTask(t), UNCHANGED strayed
    PROVE  AttachInv'
<1>1. task' = SetEnded(t) /\ ws' = ws /\ granted' = granted /\ wk' = wk /\ fresh' = fresh
  BY DEF endTask, SetEnded
<1>2. 0 \in 0 .. MaxEpoch
  BY SMTT(60), AttachmentAssumption
<1>3. task' \in [Tasks -> TaskRec]
  BY <1>1, <1>2, TaskIs DEF AttachInv
<1>4. Types'
  BY <1>1, <1>3 DEF endTask, AttachInv, Types
<1>5. WsInv' /\ OneWriter'
  BY <1>1 DEF AttachInv, WsInv, OneWriter
<1>6. ASSUME NEW v \in Workers PROVE Sound(wk[v], v \in fresh)'
  <2>1. PICK p : p = wk[v]
    OBVIOUS
  <2>2. Sound(p, v \in fresh)'
    BY <1>1, <2>1, WorkerIs, SoundSame
  <2> QED BY <1>1, <2>1, <2>2
<1> QED BY <1>4, <1>5, <1>6 DEF AttachInv

\* What the adapter reports.
LEMMA SyncIs ==
    ASSUME AttachInv, adapterSync
    PROVE  /\ ws' \in WsRec /\ ws'.epoch = ws.epoch /\ ws'.att = ws.att /\ ws'.attached = ws.att.epoch
           /\ ws'.desired = ws.desired /\ ws'.receipt = ws.receipt
<1>1. Reported \subseteq States \cup {"Attached", "Pending"}
  BY SMTT(60), WsIs, AttachmentAssumption DEF AttachInv, States, Reported
<1>2. PICK x \in Reported : ws' = [ws EXCEPT !.seen = TRUE, !.attached = ws.att.epoch, !.state = x]
  BY DEF adapterSync
<1>3. ws \in WsRec /\ x \in States \cup {"Attached", "Pending"} /\ ws.att.epoch \in 0 .. MaxEpoch
  BY <1>1, <1>2, WsIs DEF AttachInv, Types
<1> QED BY <1>2, <1>3 DEF WsRec

\* The adapter enforces the attachment that is published.
LEMMA AttachSync ==
    ASSUME AttachInv, adapterSync, UNCHANGED strayed
    PROVE  AttachInv'
<1>1. granted' = granted /\ wk' = wk /\ fresh' = {}
  BY DEF adapterSync
<1>2. Types'
  BY <1>1, SyncIs DEF adapterSync, AttachInv, Types
<1>3. ws.att.epoch <= ws.epoch
  <2>1. CASE ws.att = NoAtt
    <3>1. ws.att.epoch = 0
      BY <2>1, NoAttIs
    <3> QED BY SMTT(60), <3>1, WsIs, AttachmentAssumption DEF AttachInv
  <2>2. CASE ws.att # NoAtt
    <3>1. ws.att.epoch = ws.epoch
      BY <2>2 DEF AttachInv, WsInv
    <3> QED BY SMTT(60), <3>1, WsIs DEF AttachInv
  <2> QED BY <2>1, <2>2
<1>4. WsInv'
  BY <1>1, <1>3, SyncIs, NoAttIs DEF AttachInv, WsInv
<1>5. OneWriter'
  BY <1>1, SyncIs, NoAttIs DEF AttachInv, WsInv, OneWriter
<1>6. ASSUME NEW v \in Workers PROVE Sound(wk[v], v \in fresh)'
  <2>1. PICK p : p = wk[v]
    OBVIOUS
  <2>2. Sound(p, v \in fresh)'
    BY <1>1, <2>1, WorkerIs, SyncIs, SoundStale
  <2> QED BY <1>1, <2>1, <2>2
<1> QED BY <1>2, <1>4, <1>5, <1>6 DEF AttachInv

\* What an expired attachment keeps.
LEMMA ExpiredIs ==
    ASSUME AttachInv, ws.att # NoAtt, ws' = [ws EXCEPT !.att.expired = TRUE]
    PROVE  /\ ws' \in WsRec /\ ws'.epoch = ws.epoch /\ ws'.attached = ws.attached /\ ws'.seen = ws.seen
           /\ ws'.att.task = ws.att.task /\ ws'.att.epoch = ws.att.epoch /\ ws'.att.digest = ws.att.digest
           /\ ws'.att # NoAtt /\ ws'.att.expired /\ ws'.desired = ws.desired /\ ws'.receipt = ws.receipt
<1> DEFINE a == [ws.att EXCEPT !.expired = TRUE]
<1>1. /\ a \in AttRec /\ a.task = ws.att.task /\ a.epoch = ws.att.epoch /\ a.digest = ws.att.digest /\ a.expired
  BY WsIs DEF AttachInv, AttRec
<1>2. ws' = [ws EXCEPT !.att = a] /\ ws \in WsRec
  BY DEF AttachInv, Types
<1>3. a # NoAtt
  BY <1>1, NoAttIs
<1> HIDE DEF a
<1>4. /\ ws' \in WsRec /\ ws'.epoch = ws.epoch /\ ws'.attached = ws.attached /\ ws'.seen = ws.seen
      /\ ws'.att = a /\ ws'.desired = ws.desired /\ ws'.receipt = ws.receipt
  BY <1>1, <1>2 DEF WsRec
<1> QED BY <1>1, <1>3, <1>4

\* A term runs out.  No attempt fits an attachment that had not expired.
LEMMA AttachExpire ==
    ASSUME AttachInv, expire
    PROVE  AttachInv'
<1>1. /\ UNCHANGED <<secret, task, wk, fresh, granted, bearers>> /\ strayed' \in BOOLEAN /\ faults' \in Nat
  BY FaultIs DEF expire, AttachInv, Types
<1>2. CASE lease' = [lease EXCEPT !.expired = TRUE] /\ ws' = ws
  <2>1. lease' \in LeaseRec
    BY <1>2 DEF AttachInv, Types, LeaseRec
  <2>2. Types'
    BY <1>1, <1>2, <2>1 DEF AttachInv, Types
  <2>3. WsInv' /\ OneWriter'
    BY <1>1, <1>2 DEF AttachInv, WsInv, OneWriter
  <2>4. ASSUME NEW v \in Workers PROVE Sound(wk[v], v \in fresh)'
    <3>1. PICK p : p = wk[v]
      OBVIOUS
    <3>2. Sound(p, v \in fresh)'
      BY <1>1, <1>2, <3>1, WorkerIs, SoundSame
    <3> QED BY <1>1, <3>1, <3>2
  <2> QED BY <2>2, <2>3, <2>4 DEF AttachInv
<1>3. CASE ws.att # NoAtt /\ ~ws.att.expired /\ ws' = [ws EXCEPT !.att.expired = TRUE] /\ lease' = lease
  <2>1. Types'
    BY <1>1, <1>3, ExpiredIs DEF AttachInv, Types
  <2>2. WsInv'
    BY <1>1, <1>3, ExpiredIs DEF AttachInv, WsInv
  <2>3. OneWriter'
    BY <1>1, <1>3, ExpiredIs DEF AttachInv, OneWriter
  <2>4. ASSUME NEW v \in Workers PROVE Sound(wk[v], v \in fresh)'
    <3>1. PICK p : p = wk[v]
      OBVIOUS
    <3>2. ASSUME v \in fresh PROVE Fits(p)'
      <4>1. ~Valid(p.task)
        BY <1>3 DEF Valid, Rotatable
      <4>2. Fits(p)
        BY <3>1, <3>2, WorkerIs
      <4> QED BY <4>1, <4>2, <1>3, ExpiredIs DEF Fits, LetGo
    <3>3. Sound(p, v \in fresh)'
      BY <1>1, <1>3, <3>1, <3>2, WorkerIs, ExpiredIs, SoundStale
    <3> QED BY <1>1, <3>1, <3>3
  <2> QED BY <2>1, <2>2, <2>3, <2>4 DEF AttachInv
<1> QED BY <1>2, <1>3 DEF expire

\* A controller stops.
LEMMA AttachCrash ==
    ASSUME AttachInv, NEW w \in Workers, crash(w), UNCHANGED strayed
    PROVE  AttachInv'
<1>1. ws' = ws /\ granted' = granted /\ fresh' \subseteq fresh /\ Idles(w)
  BY DEF crash, Stops
<1>2. Rest
  BY FaultIs DEF crash, Rest, AttachInv, Types
<1> QED BY <1>1, <1>2, AttachStops

\* A new workspace satisfies the invariant.
LEMMA AttachInit == Init => AttachInv
<1> SUFFICES ASSUME Init PROVE AttachInv
  OBVIOUS
<1> DEFINE g == [task |-> 0, digest |-> 0]
           k == [ended |-> FALSE, epoch |-> 0, settled |-> FALSE]
<1>1. 0 \in 0 .. NumTasks /\ 0 \in 0 .. MaxEpoch /\ 0 \in Digests /\ 0 \in 0 .. 0 /\ 0 \in Nat /\ 0 <= 0
  BY SMTT(60), AttachmentAssumption DEF Digests
<1>2. "Ready" \in States /\ Cold \subseteq States \cup {"Attached", "Pending"}
  BY AttachmentAssumption DEF States
<1>3. ws \in WsRec /\ ws.att = NoAtt /\ ws.epoch = 0 /\ ws.attached = 0 /\ ws.desired = "Ready"
  <2>1. <<0, 0>> \in (0 .. NumTasks) \X (0 .. MaxEpoch)
    BY <1>1
  <2>2. PICK x, y : x = <<0, 0>> /\ y = NoAtt
    OBVIOUS
  <2>3. PICK s \in Cold : ws = [att |-> y, epoch |-> 0, desired |-> "Ready", stamp |-> 0, receipt |-> x, demand |-> 0,
                               attached |-> 0, state |-> s, seen |-> TRUE]
    BY <2>2 DEF Init
  <2>4. y \in AttRec /\ x \in (0 .. NumTasks) \X (0 .. MaxEpoch)
    BY <2>1, <2>2, NoAttIs
  <2>5. ws \in WsRec /\ ws.att = y /\ ws.epoch = 0 /\ ws.attached = 0 /\ ws.desired = "Ready"
    BY <1>1, <1>2, <2>3, <2>4 DEF WsRec
  <2> QED BY <2>2, <2>5
<1>4. g \in GrantRec /\ g.task = 0 /\ k \in TaskRec
  BY <1>1 DEF GrantRec, TaskRec
<1>5. NoLease \in LeaseRec
  BY <1>1 DEF NoLease, LeaseRec
<1>6. granted = [e \in Epochs |-> g] /\ task = [t \in Tasks |-> k] /\ secret = [e \in Epochs |-> 0]
      /\ wk = [w \in Workers |-> Idle] /\ lease = NoLease /\ fresh = {} /\ strayed = FALSE /\ bearers = 0 /\ faults = 0
  BY DEF Init
<1> HIDE DEF g, k
<1>7. granted \in [Epochs -> GrantRec] /\ task \in [Tasks -> TaskRec] /\ wk \in [Workers -> WorkerRec]
  BY <1>4, <1>6, IdleIs
<1>8. secret \in [Epochs -> 0 .. 0]
  BY <1>1, <1>6
<1>9. Types
  BY <1>1, <1>3, <1>5, <1>6, <1>7, <1>8 DEF Types
<1>10. WsInv
  BY <1>1, <1>3, <1>4, <1>6, NoAttIs DEF WsInv
<1>11. OneWriter
  BY <1>3 DEF OneWriter
<1>12. \A w \in Workers : Sound(wk[w], w \in fresh)
  BY <1>6, SoundIdle DEF Sound
<1> QED BY <1>9, <1>10, <1>11, <1>12 DEF AttachInv

\* A step of a worker keeps the invariant.
LEMMA AttachStep ==
    ASSUME AttachInv, NEW w \in Workers, Moves(w)
    PROVE  AttachInv'
<1>1. UNCHANGED strayed
  BY DEF Moves
<1>2. CASE acquireLease(w) \/ readWorkspace(w) \/ createSecret(w) \/ revalidate(w) \/ renewAttachmentLeaseFence(w)
  BY <1>1, <1>2, AttachAcquire, AttachRead, AttachSecret, AttachRevalidate, AttachRenew
<1>3. CASE patchAttachment(w) \/ cleanupReads(w) \/ cleanupSecret(w) \/ cleanupLease(w)
  BY <1>1, <1>3, AttachPatch, AttachCleanup
<1>4. CASE recordACPWorkspaceDetachAction(w) \/ markACPTaskAttachmentEpoch(w) \/ dropExpiredBearer(w)
  BY <1>1, <1>4, AttachRecord, AttachMarks
<1>5. CASE \/ FinalizeRevocation(w) \/ finalizeSecret(w) \/ deleteWorkspaceOwnedAttachmentLeaseForEpoch(w)
           \/ waitForRelease(w) \/ deleteACPWorkspaceAttachmentCredentials(w) \/ markACPTaskWorkspaceSettled(w)
  BY <1>1, <1>5, AttachOn
<1>6. CASE \/ markACPWorkspaceRevocationStarted(w) \/ BeginRevocation(w) \/ quarantineACPWorkspacePastDetachTimeout(w)
           \/ applyDetachAction(w)
  BY <1>1, <1>6, AttachStamp, AttachRevoke, AttachQuarantine, AttachDetach
<1> QED BY <1>2, <1>3, <1>4, <1>5, <1>6 DEF Moves, Step

\* Every step keeps the invariant.
LEMMA AttachNext == AttachInv /\ [Next]_vars => AttachInv'
<1> SUFFICES ASSUME AttachInv, [Next]_vars PROVE AttachInv'
  OBVIOUS
<1>1. CASE \E w \in Workers : Moves(w) \/ (crash(w) /\ UNCHANGED strayed)
  BY <1>1, AttachStep, AttachCrash
<1>2. CASE \E w \in Workers, t \in Tasks : resumeWorkspace(w, t) \/ beginAttach(w, t) \/ adoptAttachment(w, t)
  BY <1>2, AttachResume, AttachBegins, AttachAdopt
<1>3. CASE \E t \in Tasks : Settles(t) \/ (endTask(t) /\ UNCHANGED strayed)
  BY <1>3, AttachSettle, AttachEnd DEF Settles
<1>4. CASE Syncs \/ expire
  BY <1>4, AttachSync, AttachExpire DEF Syncs
<1>5. CASE UNCHANGED vars
  <2>1. /\ ws' = ws /\ lease' = lease /\ secret' = secret /\ task' = task /\ wk' = wk /\ fresh' = fresh
        /\ strayed' = strayed /\ granted' = granted /\ bearers' = bearers /\ faults' = faults
    BY <1>5 DEF vars
  <2>2. Types'
    BY <2>1 DEF AttachInv, Types
  <2>3. WsInv' /\ OneWriter'
    BY <2>1 DEF AttachInv, WsInv, OneWriter
  <2>4. ASSUME NEW v \in Workers PROVE Sound(wk[v], v \in fresh)'
    <3>1. PICK p : p = wk[v]
      OBVIOUS
    <3>2. Sound(p, v \in fresh)'
      BY <2>1, <3>1, WorkerIs, SoundSame
    <3> QED BY <2>1, <3>1, <3>2
  <2> QED BY <2>2, <2>3, <2>4 DEF AttachInv
<1> QED BY <1>1, <1>2, <1>3, <1>4, <1>5 DEF Next

\* The types and the meaning of a current copy hold in every reachable state.
THEOREM AttachmentInvariant == Spec => []AttachInv
<1> QED BY AttachInit, AttachNext, PTL DEF Spec

\* What the workspace, the Lease, the Secrets and the workers of WorkspaceAttachmentManager hold is
\* of its type in every reachable state, and no Secret has a number past the last bearer.
THEOREM AttachmentTypes == Spec => []TypeOK
<1>1. AttachInv => TypeOK
  <2> SUFFICES ASSUME AttachInv PROVE TypeOK
    OBVIOUS
  <2>1. Types
    BY DEF AttachInv
  <2>2. lease \in LeaseRec /\ secret \in [Epochs -> 0 .. bearers] /\ bearers \in Digests
        /\ task \in [Tasks -> TaskRec] /\ wk \in [Workers -> WorkerRec]
    BY <2>1 DEF Types
  <2> QED BY <2>1, <2>2, WsIs DEF TypeOK, States, LeaseRec, TaskRec, WorkerRec
<1> QED BY <1>1, AttachmentInvariant, PTL

\* One Task writes at a time: the adapter never enforces one Task's epoch while another Task is
\* attached, and a workspace that is asked to suspend is detached with its last epoch released, for
\* any number of Tasks and of reconciliations that overlap, fail or stop anywhere.
THEOREM OneTaskWrites == Spec => []OneWriter
<1>1. AttachInv => OneWriter
  BY DEF AttachInv
<1> QED BY <1>1, AttachmentInvariant, PTL

\* A step publishes an epoch above every earlier one, or none.
LEMMA PublishesAbove ==
    ASSUME AttachInv, Next, Publishes
    PROVE  \A e \in Epochs : granted[e].task # 0 => e < ws'.att.epoch
<1>1. \A w \in Workers : patchAttachment(w) /\ w \in fresh /\ ws' = Attached(w) =>
         \A e \in Epochs : granted[e].task # 0 => e < ws'.att.epoch
  <2> SUFFICES ASSUME NEW w \in Workers, patchAttachment(w), w \in fresh, ws' = Attached(w),
                      NEW e \in Epochs, granted[e].task # 0
               PROVE  e < ws'.att.epoch
    OBVIOUS
  <2>1. ws'.att.epoch = wk[w].epoch /\ wk[w].epoch = ws.epoch + 1
    BY AttachedIs, WorkerIs DEF patchAttachment, At, Fits
  <2>2. e <= ws.epoch
    BY DEF AttachInv, WsInv
  <2> QED BY SMTT(60), <2>1, <2>2, WsIs DEF AttachInv, Epochs
<1>2. ws'.att # ws.att /\ ws'.att # NoAtt /\ ~ws'.att.expired /\ ws' # ws
  BY DEF Publishes
<1>3. CASE \E w \in Workers : Moves(w) \/ (crash(w) /\ UNCHANGED strayed)
  <2>1. PICK w \in Workers : Moves(w) \/ crash(w)
    BY <1>3
  <2>2. CASE patchAttachment(w)
    BY <1>1, <1>2, <2>2 DEF patchAttachment, Writes, PatchFits
  <2>3. CASE BeginRevocation(w)
    <3>1. ws'.att = ws.att \/ ws'.att = NoAtt
      <4> DEFINE high == Highest({ws.epoch, wk[w].epoch, ws.attached})
      <4>1. ws' = ws \/ ws' = [ws EXCEPT !.att = NoAtt, !.epoch = high, !.seen = FALSE]
        BY <2>3 DEF BeginRevocation, WritesLast
      <4> HIDE DEF high
      <4> QED BY <4>1 DEF AttachInv, Types, WsRec
    <3> QED BY <1>2, <3>1
  <2>4. CASE markACPWorkspaceRevocationStarted(w)
    <3>1. ws' = ws \/ ws' = [ws EXCEPT !.stamp = wk[w].epoch]
      BY <2>4 DEF markACPWorkspaceRevocationStarted, Writes
    <3> QED BY <1>2, <3>1 DEF AttachInv, Types, WsRec
  <2>5. CASE recordACPWorkspaceDetachAction(w)
    <3>1. ws' = ws \/ ws' = [ws EXCEPT !.stamp = 0, !.demand = 0]
      BY <2>5 DEF recordACPWorkspaceDetachAction, Writes
    <3> QED BY <1>2, <3>1 DEF AttachInv, Types, WsRec
  <2>6. CASE quarantineACPWorkspacePastDetachTimeout(w)
    <3>1. ws' = [ws EXCEPT !.desired = "Quarantined", !.seen = FALSE]
      BY <2>6 DEF quarantineACPWorkspacePastDetachTimeout, Writes
    <3> QED BY <1>2, <3>1 DEF AttachInv, Types, WsRec
  <2>7. CASE applyDetachAction(w)
    <3>1. wk[w].task \in Tasks /\ (w \in fresh => ws.att = NoAtt /\ LetGo)
      BY <2>7, WorkerIs DEF applyDetachAction, Shape, Fits, At, Detached, Freed, Planned
    <3>2. \/ ws' = ws
          \/ w \in fresh /\ (ws' = Receipted(wk[w].task) \/ ws' = Suspended(wk[w].task))
      BY <2>7 DEF applyDetachAction, Writes, Task
    <3>3. ws'.att = ws.att
      BY <3>1, <3>2, DetachWrites
    <3> QED BY <1>2, <3>3
  <2>8. CASE crash(w)
    BY <1>2, <2>8 DEF crash
  <2>9. CASE \/ acquireLease(w) \/ readWorkspace(w) \/ createSecret(w) \/ revalidate(w) \/ renewAttachmentLeaseFence(w)
             \/ cleanupReads(w) \/ cleanupSecret(w) \/ cleanupLease(w)
    BY <1>2, <2>9 DEF acquireLease, readWorkspace, createSecret, revalidate, renewAttachmentLeaseFence,
       cleanupReads, cleanupSecret, cleanupLease
  <2>10. CASE \/ markACPTaskAttachmentEpoch(w) \/ dropExpiredBearer(w) \/ FinalizeRevocation(w) \/ finalizeSecret(w)
              \/ deleteWorkspaceOwnedAttachmentLeaseForEpoch(w) \/ waitForRelease(w)
              \/ deleteACPWorkspaceAttachmentCredentials(w) \/ markACPTaskWorkspaceSettled(w)
    BY <1>2, <2>10 DEF markACPTaskAttachmentEpoch, dropExpiredBearer, FinalizeRevocation, finalizeSecret,
       deleteWorkspaceOwnedAttachmentLeaseForEpoch, waitForRelease, deleteACPWorkspaceAttachmentCredentials,
       markACPTaskWorkspaceSettled
  <2> QED BY <2>1, <2>2, <2>3, <2>4, <2>5, <2>6, <2>7, <2>8, <2>9, <2>10 DEF Moves, Step
<1>4. CASE \E w \in Workers, t \in Tasks : resumeWorkspace(w, t) \/ beginAttach(w, t) \/ adoptAttachment(w, t)
  <2>1. PICK t \in Tasks : \/ ws' = ws \/ ws' = [ws EXCEPT !.desired = "Ready", !.demand = t, !.seen = FALSE]
                           \/ ws' = [ws EXCEPT !.demand = t]
    BY <1>4 DEF resumeWorkspace, beginAttach, adoptAttachment, WritesLast
  <2> QED BY <1>2, <2>1 DEF AttachInv, Types, WsRec
<1>5. CASE \E t \in Tasks : Settles(t) \/ (endTask(t) /\ UNCHANGED strayed)
  BY <1>2, <1>5 DEF Settles, settleACPClassWorkspace, endTask
<1>6. CASE Syncs
  BY <1>2, <1>6, SyncIs DEF Syncs
<1>7. CASE expire
  BY <1>2, <1>7, ExpiredIs DEF expire
<1> QED BY <1>3, <1>4, <1>5, <1>6, <1>7 DEF Next

\* An attachment epoch is published once: nextWorkspaceAttachmentEpoch and the optimistic patch put
\* every new attachment above all earlier ones, whichever attempt publishes it.
THEOREM EpochsNeverReused == Spec => EpochsAdvance
<1>1. AttachInv /\ [Next]_vars =>
        [Publishes => \A e \in Epochs : granted[e].task # 0 => e < ws'.att.epoch]_vars
  BY PublishesAbove
<1> QED BY <1>1, AttachmentInvariant, PTL DEF Spec, EpochsAdvance

=============================================================================
