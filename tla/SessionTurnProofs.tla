------------------------- MODULE SessionTurnProofs --------------------------
(***************************************************************************)
(* A Session is extended by one Task at a time, for any number of Tasks,   *)
(* lease generations, operations cut short and restarts.  First the        *)
(* inductive invariant, and that each kind of step the stores take keeps   *)
(* what they promise each other; then that every action takes the stores   *)
(* one of these steps.                                                     *)
(***************************************************************************)
EXTENDS SessionTurn, TLAPS

\* Zenon proves every leaf that names no other backend.
USE ZenonT(60)

\* The Lease is at most one generation ahead of its mirror, and only while a Task holds it
\* that has not mirrored it.  Holders carry the generation they hold; what the mirror
\* shows is held; the last operation belongs to a generation that is over or ending.
LeaseInv ==
    /\ lease.gen \in {control.gen, control.gen + 1}
    /\ lease.gen = control.gen + 1 => control.lease = NoOp /\ lease.holder \in Held
    /\ lease.holder \in Held \cup Reconciliations => lease.holder[3] = lease.gen
    /\ lease.holder \in Reconciliations => control.lease = NoOp
    /\ control.lease # NoOp => lease.holder = control.lease /\ control.lease[3] = control.gen
    /\ control.op[3] <= control.gen
    /\ control.lease # NoOp => control.op[3] < control.gen

\* An open turn has the lease; no turn is ahead of the control, and the turn of a
\* generation that is leased is the lease's.
TurnInv ==
    /\ \A k \in Keys : turn[k] = "open" => control.lease = Key(k[1], k[2])
    /\ \A k \in Keys : turn[k] # "none" => k[2] <= control.gen
    /\ \A k \in Keys : turn[k] # "none" /\ k[2] = control.gen /\ control.lease # NoOp => control.lease = Key(k[1], k[2])

\* A dispatch works on a copy of the control that is the control itself as long as their
\* versions agree.  Before it asks for the lease, a lease that its Task has is the one it will ask
\* for; once its turn is open, that turn is the one its attempt is bound to.
Bound == {"bound", "leased", "opened", "ready", "release"}
WorkerFits(t) ==
    /\ worker[t].pc # "idle" => worker[t].snap.version <= control.version
    /\ worker[t].pc # "idle" /\ worker[t].snap.version = control.version => worker[t].snap = control
    /\ worker[t].pc = "planned" => attempt[t].state \in {"Reserved", "Starting"}
    /\ worker[t].pc \in {"planned", "bound"} => \A g \in Gens : control.lease = Key(t, g) => LeaseGen(t) = g
    /\ worker[t].pc \in Bound \cup {"requeue"} => attempt[t].state = "Starting"
    /\ worker[t].pc \in Bound => LeaseGen(t) \in Gens
    /\ worker[t].pc \in Bound \ {"bound"} => worker[t].snap.lease = Key(t, worker[t].snap.gen)
    /\ worker[t].pc \in {"opened", "ready"} => attempt[t].gen = LeaseGen(t) /\ turn[<<t, attempt[t].gen>>] = "open"
    /\ worker[t].pc = "release" => turn[<<t, LeaseGen(t)>>] = "none"
    /\ worker[t].pc = "running" => attempt[t].state = "Submitted"
WorkerInv == \A t \in Tasks : WorkerFits(t)

\* A submitted prompt has its turn, and an attempt that is being prepared is bound to the open
\* turn of its Task, if there is one.
PromptFits(t) ==
    /\ attempt[t].state = "Submitted" => attempt[t].gen \in Gens /\ turn[<<t, attempt[t].gen>>] = "open"
    /\ attempt[t].state = "Starting" => \A g \in Gens : turn[<<t, g>>] = "open" => attempt[t].gen = g
PromptInv == \A t \in Tasks : PromptFits(t)

\* The claim is at the Session's baseline, or where the finalization of the leased turn, or
\* of the last one, put it.
Agree == control.base = claim.sha /\ claim.avail = "Available"
Closing(t) == claim.sha = FinalBase(t) /\ claim.avail = FinalAvail(t) /\ claim.op = Finalize(t)
BaseInv ==
    /\ \A t \in Tasks, g \in Gens : control.lease = Key(t, g) =>
        /\ control.avail = "Available"
        /\ Agree \/ /\ turn[<<t, g>>] = "finalized" /\ attempt[t].state = "Ended" /\ attempt[t].gen = g
                    /\ attempt[t].pub # "none" /\ Closing(t)
    /\ \A t \in Tasks, g \in Gens : control.lease = NoOp /\ control.op = <<"finalize", t, g>> =>
        /\ attempt[t].state = "Ended" /\ attempt[t].gen = g
        /\ lease.holder \notin Reconciliations /\ attempt[t].pub # "none" => Closing(t)
    /\ \A sha \in 0 .. MaxGen, g \in Gens : control.op = <<"reconcile", sha, g>> => control.base = sha

StoreInv ==
    /\ LeaseInv /\ TurnInv /\ BaseInv
    /\ TranscriptInOrder /\ ProjectedAfterRelease /\ BaselinesAgree /\ CleanupQuiescent

\* The part of the type invariant about the stores.
StoreTypes ==
    /\ lease \in Leases /\ control \in Controls /\ claim \in Claims
    /\ turn \in [Keys -> {"none", "open", "finalized", "projected"}]
    /\ transcript \in Seq(Keys)

SessionInv == TypeOK /\ StoreInv /\ WorkerInv /\ PromptInv

----------------------------------------------------------------------------
(* Identities and records. *)

\* The constants are what the arithmetic below needs them to be.
LEMMA Numbers == /\ MaxGen \in Nat /\ MaxGen > 0 /\ MaxFaults \in Nat /\ MaxCrashes \in Nat /\ None \notin Tasks
                 /\ \A g : g \in Gens <=> g \in Nat /\ g > 0 /\ g <= MaxGen
                 /\ \A g : g \in 0 .. MaxGen <=> g \in Nat /\ g <= MaxGen
BY SMTT(60), SessionAssumption DEF Gens

\* The parts of an identity.
LEMMA KeyIs ==
    ASSUME NEW t, NEW g
    PROVE  Key(t, g)[1] = "turn" /\ Key(t, g)[2] = t /\ Key(t, g)[3] = g
BY DEF Key

\* Identities are injective.
LEMMA KeySame ==
    ASSUME NEW t, NEW g, NEW u, NEW h, Key(t, g) = Key(u, h)
    PROVE  t = u /\ g = h
BY DEF Key

\* The parts of the absent identity.
LEMMA NoOpIs == NoOp[1] = "none" /\ NoOp[2] = None /\ NoOp[3] = 0
BY DEF NoOp

\* A turn's identity is one that may hold the Lease.
LEMMA KeyHeld ==
    ASSUME NEW t \in Tasks, NEW g \in Gens
    PROVE  Key(t, g) \in Held
BY DEF Key, Held

\* A Task and a generation make a key.
LEMMA KeyOf ==
    ASSUME NEW t \in Tasks, NEW g \in Gens
    PROVE  <<t, g>> \in Keys /\ <<t, g>>[1] = t /\ <<t, g>>[2] = g
BY DEF Keys

\* What holds a Lease for a turn is the identity of a turn.
LEMMA HeldIs ==
    ASSUME NEW x \in Held
    PROVE  x = Key(x[2], x[3]) /\ x[2] \in Tasks /\ x[3] \in Gens /\ x # NoOp /\ x \notin Reconciliations
           /\ <<x[2], x[3]>> \in Keys
<1>1. x[1] = "turn" /\ x[2] \in Tasks /\ x[3] \in Gens /\ x = <<x[1], x[2], x[3]>>
  BY SMTT(60) DEF Held
<1>2. \A y \in Reconciliations : y[1] = "reconcile"
  BY DEF Reconciliations
<1> QED BY <1>1, <1>2, NoOpIs DEF Key, Keys

\* The parts of a reconciliation's identity.
LEMMA ReconcileIs ==
    ASSUME NEW x \in Reconciliations
    PROVE  x[1] = "reconcile" /\ x[3] \in Gens /\ x # NoOp /\ x \notin Held
<1>1. x[1] = "reconcile" /\ x[3] \in Gens
  BY DEF Reconciliations
<1>2. \A y \in Held : y[1] = "turn"
  BY DEF Held
<1> QED BY <1>1, <1>2, NoOpIs

\* Nobody, a Task and an operator's reconciliation are told apart.
LEMMA Apart == NoOp \notin Held /\ NoOp \notin Reconciliations /\ \A x \in Held : x \notin Reconciliations
<1>1. \A x \in Held : x[1] = "turn"
  BY DEF Held
<1>2. \A x \in Reconciliations : x[1] = "reconcile"
  BY DEF Reconciliations
<1> QED BY <1>1, <1>2, NoOpIs

\* The identity of a turn is neither absent nor a reconciliation's.
LEMMA KeyApart ==
    ASSUME NEW t \in Tasks, NEW g \in Gens
    PROVE  Key(t, g) # NoOp /\ Key(t, g) \notin Reconciliations
<1>1. Key(t, g) \in Held
  BY KeyHeld
<1> QED BY <1>1, Apart

\* The parts of a key.
LEMMA KeysAre ==
    ASSUME NEW k \in Keys
    PROVE  k = <<k[1], k[2]>> /\ k[1] \in Tasks /\ k[2] \in Gens
BY SMTT(60) DEF Keys

\* Operations belong to a generation.
LEMMA OpGen ==
    ASSUME NEW x \in Ops
    PROVE  x[3] \in 0 .. MaxGen /\ x[1] # "turn"
<1>1. CASE x = NoOp
  BY SMTT(60), <1>1, NoOpIs, Numbers
<1>2. CASE x \in {"release", "finalize"} \X Tasks \X Gens
  <2>1. x[1] \in {"release", "finalize"} /\ x[3] \in Gens
    BY <1>2
  <2> QED BY <2>1, Numbers
<1>3. CASE x \in Reconciliations
  BY <1>3, ReconcileIs, Numbers
<1> QED BY <1>1, <1>2, <1>3 DEF Ops

\* The fields of a control after each kind of update.
Mirror(x, g, l) == [x EXCEPT !.version = @ + 1, !.gen = g, !.lease = l]

\* The control that mirrors a Lease.
LEMMA MirrorIs ==
    ASSUME NEW x \in Controls, NEW g \in 0 .. MaxGen, NEW l \in {NoOp} \cup Held
    PROVE  /\ Mirror(x, g, l) \in Controls /\ Mirror(x, g, l).version = x.version + 1
           /\ Mirror(x, g, l).gen = g /\ Mirror(x, g, l).lease = l /\ Mirror(x, g, l).avail = x.avail
           /\ Mirror(x, g, l).op = x.op /\ Mirror(x, g, l).base = x.base
<1> DEFINE a == [x EXCEPT !.version = @ + 1]
           b == [a EXCEPT !.gen = g]
           c == [b EXCEPT !.lease = l]
<1>1. a \in Controls /\ a.version = x.version + 1 /\ a.avail = x.avail /\ a.op = x.op /\ a.base = x.base
  BY SMTT(60) DEF Controls
<1>2. Mirror(x, g, l) = c
  BY DEF Mirror
<1> HIDE DEF a
<1>3. b \in Controls /\ b.version = x.version + 1 /\ b.gen = g /\ b.avail = x.avail /\ b.op = x.op /\ b.base = x.base
  BY <1>1 DEF Controls
<1> HIDE DEF b
<1>4. c \in Controls /\ c.version = x.version + 1 /\ c.gen = g /\ c.lease = l /\ c.avail = x.avail /\ c.op = x.op /\ c.base = x.base
  BY <1>3 DEF Controls
<1> HIDE DEF c
<1> QED BY <1>2, <1>4

Freed(x, o) == [x EXCEPT !.version = @ + 1, !.lease = NoOp, !.op = o]

\* The control after a pre-prompt release.
LEMMA FreedIs ==
    ASSUME NEW x \in Controls, NEW o \in Ops
    PROVE  /\ Freed(x, o) \in Controls /\ Freed(x, o).version = x.version + 1 /\ Freed(x, o).gen = x.gen
           /\ Freed(x, o).lease = NoOp /\ Freed(x, o).op = o /\ Freed(x, o).avail = x.avail /\ Freed(x, o).base = x.base
<1> DEFINE a == [x EXCEPT !.version = @ + 1]
           b == [a EXCEPT !.lease = NoOp]
           c == [b EXCEPT !.op = o]
<1>1. a \in Controls /\ a.version = x.version + 1 /\ a.gen = x.gen /\ a.avail = x.avail /\ a.base = x.base
  BY SMTT(60) DEF Controls
<1>2. Freed(x, o) = c
  BY DEF Freed
<1> HIDE DEF a
<1>3. b \in Controls /\ b.version = x.version + 1 /\ b.gen = x.gen /\ b.lease = NoOp /\ b.avail = x.avail /\ b.base = x.base
  BY <1>1 DEF Controls
<1> HIDE DEF b
<1>4. c \in Controls /\ c.version = x.version + 1 /\ c.gen = x.gen /\ c.lease = NoOp /\ c.op = o /\ c.avail = x.avail /\ c.base = x.base
  BY <1>3 DEF Controls
<1> HIDE DEF c
<1> QED BY <1>2, <1>4

\* A finalization is a release that also sets the availability and the baseline.
Finished(x, o, v, b) == [x EXCEPT !.version = @ + 1, !.lease = NoOp, !.op = o, !.avail = v, !.base = b]

\* The control after a finalization.
LEMMA FinishedIs ==
    ASSUME NEW x \in Controls, NEW o \in Ops, NEW v \in {"Available", "Blocked"}, NEW b \in 0 .. MaxGen
    PROVE  /\ Finished(x, o, v, b) \in Controls /\ Finished(x, o, v, b).version = x.version + 1
           /\ Finished(x, o, v, b).gen = x.gen /\ Finished(x, o, v, b).lease = NoOp
           /\ Finished(x, o, v, b).op = o /\ Finished(x, o, v, b).avail = v /\ Finished(x, o, v, b).base = b
<1> DEFINE c == Freed(x, o)
           d == [c EXCEPT !.avail = v]
           e == [d EXCEPT !.base = b]
<1>1. c \in Controls /\ c.version = x.version + 1 /\ c.gen = x.gen /\ c.lease = NoOp /\ c.op = o
  BY FreedIs
<1>2. Finished(x, o, v, b) = e
  BY DEF Finished, Freed
<1> HIDE DEF c
<1>3. d \in Controls /\ d.version = x.version + 1 /\ d.gen = x.gen /\ d.lease = NoOp /\ d.op = o /\ d.avail = v
  BY <1>1 DEF Controls
<1> HIDE DEF d
<1>4. e \in Controls /\ e.version = x.version + 1 /\ e.gen = x.gen /\ e.lease = NoOp /\ e.op = o /\ e.avail = v /\ e.base = b
  BY <1>3 DEF Controls
<1> HIDE DEF e
<1> QED BY <1>2, <1>4

Reopened(x, o, b) == [x EXCEPT !.version = @ + 1, !.avail = "Available", !.op = o, !.base = b]

\* The control after a reconciliation.
LEMMA ReopenedIs ==
    ASSUME NEW x \in Controls, NEW o \in Ops, NEW b \in 0 .. MaxGen
    PROVE  /\ Reopened(x, o, b) \in Controls /\ Reopened(x, o, b).version = x.version + 1
           /\ Reopened(x, o, b).gen = x.gen /\ Reopened(x, o, b).lease = x.lease
           /\ Reopened(x, o, b).op = o /\ Reopened(x, o, b).avail = "Available" /\ Reopened(x, o, b).base = b
<1> DEFINE a == [x EXCEPT !.version = @ + 1]
           c == [a EXCEPT !.avail = "Available"]
           d == [c EXCEPT !.op = o]
           e == [d EXCEPT !.base = b]
<1>1. a \in Controls /\ a.version = x.version + 1 /\ a.gen = x.gen /\ a.lease = x.lease
  BY SMTT(60) DEF Controls
<1>2. Reopened(x, o, b) = e
  BY DEF Reopened
<1> HIDE DEF a
<1>3. c \in Controls /\ c.version = x.version + 1 /\ c.gen = x.gen /\ c.lease = x.lease /\ c.avail = "Available"
  BY <1>1 DEF Controls
<1> HIDE DEF c
<1>4. d \in Controls /\ d.version = x.version + 1 /\ d.gen = x.gen /\ d.lease = x.lease /\ d.avail = "Available" /\ d.op = o
  BY <1>3 DEF Controls
<1> HIDE DEF d
<1>5. e \in Controls /\ e.version = x.version + 1 /\ e.gen = x.gen /\ e.lease = x.lease /\ e.avail = "Available" /\ e.op = o /\ e.base = b
  BY <1>4 DEF Controls
<1> HIDE DEF e
<1> QED BY <1>2, <1>5

Bumped(x) == [x EXCEPT !.version = @ + 1]

\* The control after a write that changes only its version.
LEMMA BumpedIs ==
    ASSUME NEW x \in Controls
    PROVE  /\ Bumped(x) \in Controls /\ Bumped(x).version = x.version + 1 /\ Bumped(x).gen = x.gen
           /\ Bumped(x).lease = x.lease /\ Bumped(x).op = x.op /\ Bumped(x).avail = x.avail /\ Bumped(x).base = x.base
BY SMTT(60) DEF Bumped, Controls

\* The Lease, cleared or taken.
LEMMA ClearedIs ==
    ASSUME TypeOK
    PROVE  Cleared \in Leases /\ Cleared.gen = lease.gen /\ Cleared.holder = NoOp
BY DEF TypeOK, Leases, Cleared

Marked(op) == [lease EXCEPT !.holder = op]

\* The Lease a reconciliation marks.
LEMMA MarkedIs ==
    ASSUME TypeOK, NEW op \in Reconciliations
    PROVE  Marked(op) \in Leases /\ Marked(op).gen = lease.gen /\ Marked(op).holder = op
BY DEF TypeOK, Leases, Marked

Restored(sha, op) == [sha |-> sha, avail |-> "Available", op |-> op]

\* The claim a reconciliation restores.
LEMMA RestoredIs ==
    ASSUME NEW sha \in 0 .. MaxGen, NEW op \in Ops
    PROVE  Restored(sha, op) \in Claims /\ Restored(sha, op).sha = sha /\ Restored(sha, op).avail = "Available"
BY DEF Claims, Restored

Taken(t, g) == [gen |-> g, holder |-> Key(t, g)]

\* The Lease a turn takes.
LEMMA TakenIs ==
    ASSUME NEW t \in Tasks, NEW g \in Gens
    PROVE  Taken(t, g) \in Leases /\ Taken(t, g).gen = g /\ Taken(t, g).holder = Key(t, g)
<1>1. g \in 0 .. MaxGen /\ Key(t, g) \in Held
  BY Numbers, KeyHeld
<1> QED BY <1>1 DEF Taken, Leases

\* The ranges that the stores' types give their parts.
LEMMA TypesAre ==
    ASSUME TypeOK
    PROVE  /\ lease.gen \in Nat /\ lease.gen <= MaxGen /\ lease.holder \in {NoOp} \cup Held \cup Reconciliations
           /\ control.version \in Nat /\ control.gen \in Nat /\ control.gen <= MaxGen
           /\ control.lease \in {NoOp} \cup Held /\ control.avail \in {"Available", "Blocked"}
           /\ control.op \in Ops /\ control.op[3] \in Nat /\ control.base \in 0 .. MaxGen
           /\ claim.sha \in 0 .. MaxGen /\ claim.avail \in {"Available", "Blocked"} /\ claim.op \in Ops
<1>1. lease.gen \in 0 .. MaxGen /\ lease.holder \in {NoOp} \cup Held \cup Reconciliations
  BY DEF TypeOK, Leases
<1>2. /\ control.version \in Nat /\ control.gen \in 0 .. MaxGen /\ control.lease \in {NoOp} \cup Held
      /\ control.avail \in {"Available", "Blocked"} /\ control.op \in Ops /\ control.base \in 0 .. MaxGen
  BY DEF TypeOK, Controls
<1>3. control.op[3] \in Nat
  BY <1>2, OpGen, Numbers
<1>4. claim.sha \in 0 .. MaxGen /\ claim.avail \in {"Available", "Blocked"} /\ claim.op \in Ops
  BY DEF TypeOK, Claims
<1> QED BY <1>1, <1>2, <1>3, <1>4, Numbers

\* A mirrored lease, field by field.
LEMMA MirroredIs ==
    ASSUME TypeOK, NEW t, NEW g
    PROVE  Mirrored(t, g) <=> control.lease = Key(t, g) /\ lease.gen = g /\ lease.holder = Key(t, g)
BY SMTT(60) DEF TypeOK, Leases, Mirrored

\* A Lease is known by its parts.
LEMMA LeaseIs ==
    ASSUME TypeOK, NEW g, NEW h
    PROVE  lease = [gen |-> g, holder |-> h] <=> lease.gen = g /\ lease.holder = h
BY SMTT(60) DEF TypeOK, Leases

\* A fault is one of the faults.
LEMMA FaultTypes ==
    ASSUME TypeOK, Whole \/ Cut
    PROVE  faults' \in 0 .. MaxFaults
BY SMTT(60), Numbers DEF TypeOK, Whole, Cut

\* Where a dispatch gets to, with which copy of the control.
LEMMA WorkerIs ==
    ASSUME TypeOK, NEW t \in Tasks
    PROVE  /\ worker[t] \in Workers /\ worker[t].snap \in Controls /\ worker[t].snap.gen \in 0 .. MaxGen
           /\ worker[t].snap.version \in Nat
           /\ attempt[t] \in Attempts /\ attempt[t].gen \in 0 .. MaxGen
<1>1. worker[t] \in Workers /\ attempt[t] \in Attempts
  BY DEF TypeOK
<1>2. worker[t].snap \in Controls /\ attempt[t].gen \in 0 .. MaxGen
  BY <1>1 DEF Workers, Attempts
<1> QED BY <1>1, <1>2 DEF Controls

\* An idle dispatch is well typed.
LEMMA RestingIs == Resting \in Workers /\ Resting.pc = "idle"
<1>1. NewControl \in Controls
  BY SMTT(60), Numbers DEF NewControl, Controls, Ops
<1> QED BY <1>1 DEF Resting, Workers

\* Attempts that have ended stay as they are.
EndedStay == \A t \in Tasks : attempt[t].state = "Ended" => attempt'[t] = attempt[t]

\* Workers stay: only t moves.
OnlyWorker(t) == worker' \in [Tasks -> Workers] /\ \A u \in Tasks : u # t => worker'[u] = worker[u]
OnlyAttempt(t) == attempt' \in [Tasks -> Attempts] /\ \A u \in Tasks : u # t => attempt'[u] = attempt[u]

\* A dispatch that ends changes no other.
LEMMA RestMoves ==
    ASSUME TypeOK, NEW t \in Tasks, Rests(t)
    PROVE  OnlyWorker(t) /\ worker'[t].pc = "idle"
BY RestingIs DEF TypeOK, Rests, OnlyWorker

\* So does one that goes on with its copy of the control.
LEMMA GoMoves ==
    ASSUME TypeOK, NEW t \in Tasks, NEW pc \in {"bound", "opened", "release", "requeue", "running"}, Goes(t, pc)
    PROVE  OnlyWorker(t) /\ worker'[t].pc = pc /\ worker'[t].snap = worker[t].snap
<1> DEFINE y == [worker[t] EXCEPT !.pc = pc]
<1>1. y \in Workers /\ y.pc = pc /\ y.snap = worker[t].snap
  BY WorkerIs DEF Workers
<1> HIDE DEF y
<1>2. worker' = [worker EXCEPT ![t] = y]
  BY DEF Goes, TypeOK, y
<1> QED BY <1>1, <1>2 DEF TypeOK, OnlyWorker

Takes(t, pc, x) == worker' = [worker EXCEPT ![t] = [pc |-> pc, snap |-> x]]

\* So does one that takes a new copy.
LEMMA TakeMoves ==
    ASSUME TypeOK, NEW t \in Tasks, NEW pc \in {"planned", "leased", "ready"}, NEW x \in Controls, Takes(t, pc, x)
    PROVE  OnlyWorker(t) /\ worker'[t].pc = pc /\ worker'[t].snap = x
<1> DEFINE y == [pc |-> pc, snap |-> x]
<1>1. y \in Workers /\ y.pc = pc /\ y.snap = x
  BY DEF Workers
<1> HIDE DEF y
<1>2. worker' = [worker EXCEPT ![t] = y]
  BY DEF Takes, y
<1> QED BY <1>1, <1>2 DEF TypeOK, OnlyWorker

\* What becomes of an attempt.
BoundAs(x, st, g) == [x EXCEPT !.state = st, !.gen = g]
EndedAs(x, pub, sha) == [x EXCEPT !.state = "Ended", !.pub = pub, !.base = sha]
CancelledAs(x, g, sha) == [x EXCEPT !.state = "Ended", !.gen = g, !.base = sha]

\* The attempt a dispatch binds or puts back.
LEMMA BoundIs ==
    ASSUME NEW x \in Attempts, NEW st \in {"Reserved", "Starting"}, NEW g \in 0 .. MaxGen
    PROVE  BoundAs(x, st, g) \in Attempts /\ BoundAs(x, st, g).state = st /\ BoundAs(x, st, g).gen = g
<1> DEFINE a == [x EXCEPT !.state = st]
           b == [a EXCEPT !.gen = g]
<1>1. a \in Attempts /\ a.state = st
  BY DEF Attempts
<1>2. BoundAs(x, st, g) = b
  BY DEF BoundAs
<1> HIDE DEF a
<1>3. b \in Attempts /\ b.state = st /\ b.gen = g
  BY <1>1 DEF Attempts
<1> HIDE DEF b
<1> QED BY <1>2, <1>3

\* The attempt a prompt's settlement ends.
LEMMA EndedIs ==
    ASSUME NEW x \in Attempts, NEW pub \in Deliveries, NEW sha \in 0 .. MaxGen
    PROVE  EndedAs(x, pub, sha) \in Attempts /\ EndedAs(x, pub, sha).state = "Ended" /\ EndedAs(x, pub, sha).gen = x.gen
<1> DEFINE a == [x EXCEPT !.state = "Ended"]
           b == [a EXCEPT !.pub = pub]
           c == [b EXCEPT !.base = sha]
<1>1. a \in Attempts /\ a.state = "Ended" /\ a.gen = x.gen
  BY DEF Attempts
<1>2. EndedAs(x, pub, sha) = c
  BY DEF EndedAs
<1> HIDE DEF a
<1>3. b \in Attempts /\ b.state = "Ended" /\ b.gen = x.gen
  BY <1>1 DEF Attempts
<1> HIDE DEF b
<1>4. c \in Attempts /\ c.state = "Ended" /\ c.gen = x.gen
  BY <1>3 DEF Attempts
<1> HIDE DEF c
<1> QED BY <1>2, <1>4

\* The attempt a cancellation ends.
LEMMA CancelledIs ==
    ASSUME NEW x \in Attempts, NEW g \in 0 .. MaxGen, NEW sha \in 0 .. MaxGen
    PROVE  CancelledAs(x, g, sha) \in Attempts /\ CancelledAs(x, g, sha).state = "Ended" /\ CancelledAs(x, g, sha).gen = g
<1> DEFINE a == [x EXCEPT !.state = "Ended"]
           b == [a EXCEPT !.gen = g]
           c == [b EXCEPT !.base = sha]
<1>1. a \in Attempts /\ a.state = "Ended"
  BY DEF Attempts
<1>2. CancelledAs(x, g, sha) = c
  BY DEF CancelledAs
<1> HIDE DEF a
<1>3. b \in Attempts /\ b.state = "Ended" /\ b.gen = g
  BY <1>1 DEF Attempts
<1> HIDE DEF b
<1>4. c \in Attempts /\ c.state = "Ended" /\ c.gen = g
  BY <1>3 DEF Attempts
<1> HIDE DEF c
<1> QED BY <1>2, <1>4

Becomes(t, y) == attempt' = [attempt EXCEPT ![t] = y]

\* A write of one attempt changes no other.
LEMMA AttemptMoves ==
    ASSUME TypeOK, NEW t \in Tasks, NEW y \in Attempts, Becomes(t, y)
    PROVE  OnlyAttempt(t) /\ attempt'[t] = y
BY DEF TypeOK, OnlyAttempt, Becomes

\* What is unchanged is changed for no other Task.
LEMMA Stays ==
    ASSUME TypeOK, NEW t \in Tasks
    PROVE  (worker' = worker => OnlyWorker(t)) /\ (attempt' = attempt => OnlyAttempt(t) /\ EndedStay)
BY DEF TypeOK, OnlyWorker, OnlyAttempt, EndedStay

\* The control is written in place, with a new version.
VersionGrows == control' = control \/ control'.version = control.version + 1

\* No other Task than t gets the lease.
OnlyLease(t) == \A u \in Tasks, g \in Gens : u # t /\ control'.lease = Key(u, g) => control.lease = Key(u, g)

\* A step of one Task leaves the dispatches of the others as they are.
LEMMA OthersKeep ==
    ASSUME SessionInv, NEW t \in Tasks, VersionGrows, OnlyLease(t), OnlyWorker(t), OnlyAttempt(t),
           \A k \in Keys : k[1] # t => turn'[k] = turn[k],
           WorkerFits(t)', PromptFits(t)'
    PROVE  WorkerInv' /\ PromptInv'
<1> SUFFICES ASSUME NEW u \in Tasks, u # t PROVE WorkerFits(u)' /\ PromptFits(u)'
  BY DEF WorkerInv, PromptInv
<1>1. worker'[u] = worker[u] /\ attempt'[u] = attempt[u] /\ WorkerFits(u) /\ PromptFits(u)
  BY DEF OnlyWorker, OnlyAttempt, SessionInv, WorkerInv, PromptInv
<1>2. LeaseGen(u)' = LeaseGen(u)
  BY <1>1 DEF LeaseGen
<1>3. \A g \in Gens : turn'[<<u, g>>] = turn[<<u, g>>] /\ (control'.lease = Key(u, g) => control.lease = Key(u, g))
  BY KeyOf DEF OnlyLease
<1>4. /\ worker[u].pc # "idle" => worker[u].snap.version <= control'.version
      /\ worker[u].pc # "idle" /\ worker[u].snap.version = control'.version => worker[u].snap = control'
  <2>1. worker[u].snap.version \in Nat /\ control.version \in Nat
    BY WorkerIs, TypesAre DEF SessionInv
  <2> QED BY SMTT(60), <1>1, <2>1 DEF WorkerFits, VersionGrows
<1>5. WorkerFits(u)'
  BY <1>1, <1>2, <1>3, <1>4 DEF WorkerFits, Bound
<1>6. PromptFits(u)'
  BY <1>1, <1>3 DEF PromptFits
<1> QED BY <1>5, <1>6

----------------------------------------------------------------------------
(* What a step does to the stores, and that it keeps what they promise. *)

\* Nothing.
LEMMA QuietKeeps ==
    ASSUME SessionInv, UNCHANGED stores, EndedStay, CleanupQuiescent'
    PROVE  StoreInv' /\ StoreTypes'
<1> USE DEF SessionInv, StoreInv
<1>1. lease' = lease /\ control' = control /\ claim' = claim /\ turn' = turn /\ transcript' = transcript
  BY DEF stores
<1>2. LeaseInv' /\ TurnInv'
  BY <1>1 DEF LeaseInv, TurnInv
<1>3. TranscriptInOrder' /\ ProjectedAfterRelease'
  BY <1>1 DEF TranscriptInOrder, ProjectedAfterRelease
<1>4. BaselinesAgree' /\ StoreTypes'
  BY <1>1 DEF BaselinesAgree, StoreTypes, TypeOK
<1>5. BaseInv'
  BY SMTT(60), <1>1 DEF BaseInv, EndedStay, Agree, Closing, FinalBase, FinalAvail, Finalize
<1> QED BY <1>2, <1>3, <1>4, <1>5

\* The Lease is cleared for, or taken by, <<t, g>>; in the end the control mirrors it.
Unheld == lease.gen = control.gen /\ (lease.holder = NoOp \/ (lease.holder \in Held /\ control.op = <<"release", lease.holder[2], lease.gen>>))
Owned(t, g) == lease.gen = g /\ lease.holder = Key(t, g)
Granting(t, g) ==
    /\ cleanup.state = "none" /\ control.lease = NoOp /\ control.avail = "Available" /\ g = control.gen + 1 /\ g \in Gens
    /\ Unheld \/ Owned(t, g)
    /\ UNCHANGED <<claim, turn, transcript, attempt, cleanup>>
    /\ \/ Unheld /\ lease' = Cleared /\ control' = control
       \/ lease' = Taken(t, g) /\ control' = control
       \/ lease' = Taken(t, g) /\ control' = Mirror(control, g, Key(t, g))

\* Granting the Session, Lease first and mirror second, keeps what the stores promise.
LEMMA GrantKeeps ==
    ASSUME SessionInv, NEW t \in Tasks, NEW g \in Gens, Granting(t, g)
    PROVE  StoreInv' /\ StoreTypes'
<1> USE DEF SessionInv, StoreInv
<1>1. /\ g \in Nat /\ g = control.gen + 1 /\ control.gen \in Nat /\ control.lease = NoOp /\ control.avail = "Available" /\ cleanup.state = "none"
      /\ claim' = claim /\ turn' = turn /\ transcript' = transcript /\ attempt' = attempt /\ cleanup' = cleanup
      /\ control.op[3] <= control.gen /\ control.op[3] \in Nat
  BY Numbers, TypesAre DEF Granting, LeaseInv
<1>2. /\ Key(t, g) \in Held /\ Key(t, g) # NoOp /\ Key(t, g) \notin Reconciliations /\ Key(t, g)[3] = g
      /\ NoOp \notin Held /\ NoOp \notin Reconciliations
  BY KeyHeld, KeyIs, KeyApart, Apart
<1>3. control \in Controls /\ g \in 0 .. MaxGen
  BY <1>1, Numbers DEF TypeOK
<1>4. /\ control'.avail = "Available" /\ control'.op = control.op /\ control'.base = control.base
      /\ \/ control'.gen = control.gen /\ control'.lease = NoOp
         \/ control'.gen = g /\ control'.lease = Key(t, g) /\ lease'.gen = g /\ lease'.holder = Key(t, g)
  <2>1. CASE control' = control
    BY <1>1, <2>1
  <2>2. CASE lease' = Taken(t, g) /\ control' = Mirror(control, g, Key(t, g))
    <3>1. /\ Mirror(control, g, Key(t, g)).gen = g /\ Mirror(control, g, Key(t, g)).lease = Key(t, g)
          /\ Mirror(control, g, Key(t, g)).avail = control.avail
          /\ Mirror(control, g, Key(t, g)).op = control.op /\ Mirror(control, g, Key(t, g)).base = control.base
      BY SMTT(60), <1>2, <1>3, MirrorIs
    <3> QED BY <1>1, <2>2, <3>1, TakenIs
  <2> QED BY <2>1, <2>2 DEF Granting
<1>5. \/ lease'.gen = control.gen /\ lease'.holder = NoOp /\ control'.gen = control.gen
      \/ lease'.gen = g /\ lease'.holder = Key(t, g)
  BY <1>1, TakenIs, ClearedIs DEF Granting, Unheld
<1>6. LeaseInv'
  BY SMTT(60), <1>1, <1>2, <1>4, <1>5 DEF LeaseInv
<1>7. \A k \in Keys : turn[k] # "none" => k[2] \in Nat /\ k[2] < g /\ turn[k] # "open"
  BY SMTT(60), <1>1, KeysAre, KeyIs, Numbers, NoOpIs DEF TurnInv
<1>8. TurnInv'
  BY SMTT(60), <1>1, <1>4, <1>7 DEF TurnInv
<1>9. TranscriptInOrder'
  BY <1>1 DEF TranscriptInOrder
<1>10. \A k \in Keys : Key(k[1], k[2])[3] = k[2] /\ Key(k[1], k[2]) # NoOp
  BY SMTT(60), KeyIs, NoOpIs, KeysAre
<1>11. ProjectedAfterRelease'
  BY SMTT(60), <1>1, <1>2, <1>4, <1>5, <1>7, <1>10 DEF ProjectedAfterRelease
<1>12. BaselinesAgree' /\ CleanupQuiescent'
  BY <1>1, <1>2, <1>4 DEF BaselinesAgree, CleanupQuiescent
<1>13. Agree'
  BY <1>1, <1>4 DEF BaselinesAgree, Agree
<1>14. BaseInv'
  <2>1. \A u \in Tasks, h \in Gens : control'.lease = Key(u, h) => control'.avail = "Available" /\ Agree'
    BY <1>4, <1>13
  <2>2. ASSUME NEW u \in Tasks, NEW h \in Gens, control'.lease = NoOp, control'.op = <<"finalize", u, h>>
        PROVE  /\ attempt'[u].state = "Ended" /\ attempt'[u].gen = h
               /\ lease'.holder \notin Reconciliations /\ attempt'[u].pub # "none" => Closing(u)'
    <3>1. lease.holder \notin Reconciliations
      BY Apart, <1>2 DEF Granting, Unheld, Owned
    <3> QED BY SMTT(60), <1>1, <1>4, <2>2, <3>1 DEF BaseInv, Closing, FinalBase, FinalAvail, Finalize
  <2>3. \A sha \in 0 .. MaxGen, h \in Gens : control'.op = <<"reconcile", sha, h>> => control'.base = sha
    BY SMTT(60), <1>4 DEF BaseInv
  <2> QED BY SMTT(60), <2>1, <2>2, <2>3 DEF BaseInv
<1>15. StoreTypes'
  <2>1. lease' \in Leases
    BY TakenIs, ClearedIs DEF Granting
  <2>2. Mirror(control, g, Key(t, g)) \in Controls
    BY <1>2, <1>3, MirrorIs
  <2>3. control' \in Controls
    BY <1>3, <2>2 DEF Granting
  <2> QED BY <1>1, <2>1, <2>3 DEF StoreTypes, TypeOK
<1> QED BY <1>6, <1>8, <1>9, <1>11, <1>12, <1>14, <1>15

\* The pre-prompt lease <<t, g>> is given back: in the control, then in the Lease.
Releasing(t, g) ==
    /\ cleanup.state = "none" /\ turn[<<t, g>>] = "none"
    /\ UNCHANGED <<claim, turn, transcript, cleanup>>
    /\ \/ /\ control.lease = Key(t, g) /\ control' = Freed(control, <<"release", t, g>>)
          /\ lease' = lease \/ lease' = Cleared
       \/ /\ control.lease = NoOp /\ control.op = <<"release", t, g>> /\ control' = control
          /\ lease.gen = g /\ lease.holder \in {NoOp, Key(t, g)}
          /\ lease' = lease \/ lease' = Cleared

\* So does a release before the prompt, whole or cut short.
LEMMA ReleaseKeeps ==
    ASSUME SessionInv, NEW t \in Tasks, NEW g \in Gens, Releasing(t, g), EndedStay
    PROVE  StoreInv' /\ StoreTypes'
<1> USE DEF SessionInv, StoreInv
<1>1. /\ g \in Nat /\ g > 0 /\ turn[<<t, g>>] = "none" /\ cleanup.state = "none" /\ cleanup' = cleanup
      /\ claim' = claim /\ turn' = turn /\ transcript' = transcript
  BY Numbers DEF Releasing
<1>2. /\ Key(t, g) \in Held /\ Key(t, g) # NoOp /\ Key(t, g)[3] = g /\ Key(t, g) \notin Reconciliations
      /\ NoOp \notin Held /\ NoOp \notin Reconciliations
  BY KeyHeld, KeyIs, KeyApart, Apart
<1>3. /\ lease.gen \in Nat /\ control.gen \in Nat /\ control.op[3] \in Nat /\ control \in Controls
      /\ <<"release", t, g>> \in Ops /\ <<"release", t, g>>[3] = g /\ <<"release", t, g>>[1] = "release"
      /\ Cleared.gen = lease.gen /\ Cleared.holder = NoOp
  <2>1. lease.gen \in Nat /\ control.gen \in Nat /\ control.op[3] \in Nat /\ control \in Controls
    BY TypesAre DEF TypeOK
  <2>2. <<"release", t, g>> \in Ops
    BY DEF Ops
  <2>3. Cleared.gen = lease.gen /\ Cleared.holder = NoOp
    BY ClearedIs
  <2> QED BY <2>1, <2>2, <2>3
<1>4. lease'.gen = lease.gen /\ lease'.holder \in {NoOp, lease.holder}
  BY <1>3 DEF Releasing
<1>5. /\ control'.lease = NoOp /\ control'.op = <<"release", t, g>> /\ control'.gen = control.gen
      /\ control'.avail = control.avail /\ control'.base = control.base /\ control.gen = g /\ lease.gen = g
  <2>1. CASE control.lease = Key(t, g) /\ control' = Freed(control, <<"release", t, g>>)
    <3> DEFINE o == <<"release", t, g>>
    <3>1. o \in Ops
      BY <1>3
    <3> HIDE DEF o
    <3>2. /\ Freed(control, o).gen = control.gen /\ Freed(control, o).lease = NoOp /\ Freed(control, o).op = o
          /\ Freed(control, o).avail = control.avail /\ Freed(control, o).base = control.base
      BY <1>3, <3>1, FreedIs
    <3>3. control.gen = g /\ lease.gen = g
      BY <1>2, <1>3, <2>1 DEF LeaseInv
    <3> QED BY <2>1, <3>2, <3>3 DEF o
  <2>2. CASE control.lease = NoOp /\ control.op = <<"release", t, g>> /\ control' = control /\ lease.gen = g
    <3>1. control.gen = g
      BY SMTT(60), <1>3, <2>2 DEF LeaseInv
    <3> QED BY <2>2, <3>1
  <2> QED BY <2>1, <2>2 DEF Releasing
<1>6. LeaseInv'
  BY SMTT(60), <1>2, <1>3, <1>4, <1>5 DEF LeaseInv
<1>7. \A k \in Keys : turn[k] # "open"
  <2> SUFFICES ASSUME NEW k \in Keys, turn[k] = "open" PROVE FALSE
    OBVIOUS
  <2>1. control.lease = Key(k[1], k[2])
    BY DEF TurnInv
  <2>2. control.lease = Key(t, g)
    BY SMTT(60), <2>1, KeyIs, NoOpIs DEF Releasing
  <2>3. k[1] = t /\ k[2] = g
    <3>1. Key(k[1], k[2]) = Key(t, g)
      BY <2>1, <2>2
    <3> QED BY SMTT(60), <3>1, KeySame
  <2>4. k = <<t, g>>
    BY <2>3, KeysAre
  <2> QED BY <1>1, <2>4
<1>8. TurnInv'
  BY <1>1, <1>5, <1>7 DEF TurnInv
<1>9. TranscriptInOrder'
  BY <1>1 DEF TranscriptInOrder
<1>10. \A k \in Keys : Key(k[1], k[2]) # NoOp
  BY SMTT(60), KeyIs, NoOpIs
<1>11. ProjectedAfterRelease'
  BY <1>1, <1>4, <1>5, <1>10 DEF ProjectedAfterRelease
<1>12. control.avail = "Available" => Agree
  <2>1. CASE control.lease = Key(t, g)
    BY <1>1, <2>1 DEF BaseInv
  <2>2. CASE control.lease = NoOp
    BY <2>2 DEF BaselinesAgree, Agree
  <2> QED BY <2>1, <2>2 DEF Releasing
<1>13. BaselinesAgree' /\ CleanupQuiescent'
  BY <1>1, <1>5, <1>12 DEF BaselinesAgree, Agree, CleanupQuiescent
<1>14. BaseInv'
  <2>1. \A u \in Tasks, h \in Gens : control'.lease # Key(u, h)
    BY SMTT(60), <1>5, KeyIs, NoOpIs
  <2>2. \A u \in Tasks, h \in Gens : control'.op # <<"finalize", u, h>>
    BY SMTT(60), <1>5
  <2>3. \A sha \in 0 .. MaxGen, h \in Gens : control'.op # <<"reconcile", sha, h>>
    BY SMTT(60), <1>5
  <2> QED BY <2>1, <2>2, <2>3 DEF BaseInv
<1>15. StoreTypes'
  <2>1. lease' \in Leases
    BY ClearedIs DEF Releasing, TypeOK
  <2>2. control' \in Controls
    <3> DEFINE o == <<"release", t, g>>
    <3>1. o \in Ops
      BY <1>3
    <3>2. control' = control \/ control' = Freed(control, o)
      BY DEF Releasing
    <3> HIDE DEF o
    <3>3. Freed(control, o) \in Controls
      BY <1>3, <3>1, FreedIs
    <3> QED BY <1>3, <3>2, <3>3
  <2> QED BY <1>1, <2>1, <2>2 DEF StoreTypes, TypeOK
<1> QED BY <1>6, <1>8, <1>9, <1>11, <1>13, <1>14, <1>15

\* The transcript is as good as before when it is unchanged and the same turns are final, but for
\* one of a Task that may skip it.
LEMMA TranscriptStays ==
    ASSUME TypeOK, TranscriptInOrder, transcript' = transcript, NEW k \in Keys,
           \A j \in Keys : j # k => turn'[j] = turn[j],
           \/ turn[k] \notin {"finalized", "projected"} /\ turn'[k] \notin {"finalized", "projected"}
           \/ turn[k] \in {"finalized", "projected"} /\ turn'[k] \in {"finalized", "projected"}
           \/ turn'[k] \in {"finalized", "projected"} /\ k[1] \in MaySkip
    PROVE  TranscriptInOrder'
<1>1. /\ \A i, j \in 1 .. Len(transcript) : i < j => transcript[i][2] < transcript[j][2]
      /\ \A i \in 1 .. Len(transcript) : turn[transcript[i]] \in {"finalized", "projected"}
      /\ \A j \in Keys : turn[j] \in {"finalized", "projected"} /\ j[1] \notin MaySkip =>
            \E i \in 1 .. Len(transcript) : transcript[i] = j
  BY DEF TranscriptInOrder
<1>2. \A i, j \in 1 .. Len(transcript') : i < j => transcript'[i][2] < transcript'[j][2]
  BY <1>1
<1>3. ASSUME NEW i \in 1 .. Len(transcript') PROVE turn'[transcript'[i]] \in {"finalized", "projected"}
  <2> DEFINE x == transcript[i]
  <2>1. i \in 1 .. Len(transcript) /\ transcript'[i] = x
    OBVIOUS
  <2>2. x \in Keys
    BY SMTT(60), <2>1 DEF TypeOK
  <2>3. turn[x] \in {"finalized", "projected"}
    BY <1>1, <2>1
  <2> HIDE DEF x
  <2>4. turn'[x] \in {"finalized", "projected"}
    BY <2>2, <2>3
  <2> QED BY <2>1, <2>4
<1>4. ASSUME NEW j \in Keys, turn'[j] \in {"finalized", "projected"}, j[1] \notin MaySkip
      PROVE  \E i \in 1 .. Len(transcript') : transcript'[i] = j
  <2>1. turn[j] \in {"finalized", "projected"}
    BY <1>4
  <2>2. \E i \in 1 .. Len(transcript) : transcript[i] = j
    BY <1>1, <1>4, <2>1
  <2> QED BY <2>2
<1> QED BY <1>2, <1>3, <1>4 DEF TranscriptInOrder

\* A turn is opened under its lease.
Opening(t, g) ==
    /\ control.lease = Key(t, g) /\ turn[<<t, g>>] \in {"none", "open"}
    /\ turn' = [turn EXCEPT ![<<t, g>>] = "open"]
    /\ UNCHANGED <<lease, control, claim, transcript, cleanup, attempt>>

\* So does opening a turn under its lease.
LEMMA OpenKeeps ==
    ASSUME SessionInv, NEW t \in Tasks, NEW g \in Gens, Opening(t, g)
    PROVE  StoreInv' /\ StoreTypes'
<1> USE DEF SessionInv, StoreInv
<1> DEFINE k == <<t, g>>
<1>1. k \in Keys /\ k[1] = t /\ k[2] = g /\ Key(t, g) # NoOp /\ Key(t, g)[3] = g
  BY KeyOf, KeyIs, KeyApart
<1>2. /\ turn'[k] = "open" /\ \A j \in Keys : j # k => turn'[j] = turn[j]
      /\ turn' \in [Keys -> {"none", "open", "finalized", "projected"}]
  BY <1>1 DEF TypeOK, Opening
<1>3. /\ lease' = lease /\ control' = control /\ claim' = claim /\ transcript' = transcript /\ cleanup' = cleanup /\ attempt' = attempt
      /\ control.lease = Key(t, g) /\ turn[k] \in {"none", "open"}
  BY DEF Opening
<1> HIDE DEF k
<1>4. control.gen = g /\ g \in Nat
  BY <1>1, <1>3, Numbers DEF LeaseInv
<1>5. LeaseInv'
  BY <1>3 DEF LeaseInv
<1>6. TurnInv'
  BY SMTT(60), <1>1, <1>2, <1>3, <1>4 DEF TurnInv
<1>7. TranscriptInOrder'
  <2>1. turn[k] \notin {"finalized", "projected"} /\ turn'[k] \notin {"finalized", "projected"}
    BY <1>2, <1>3
  <2> QED BY <1>1, <1>2, <1>3, <2>1, TranscriptStays
<1>8. ProjectedAfterRelease'
  BY <1>2, <1>3 DEF ProjectedAfterRelease
<1>9. BaselinesAgree' /\ CleanupQuiescent'
  BY <1>1, <1>3 DEF BaselinesAgree, CleanupQuiescent
<1>10. BaseInv'
  <2>1. Agree
    BY <1>3 DEF BaseInv, k
  <2>2. \A u \in Tasks, h \in Gens : control'.lease = Key(u, h) => control'.avail = "Available" /\ Agree'
    BY <1>3, <2>1 DEF BaseInv, Agree
  <2> QED BY <1>1, <1>3, <2>2 DEF BaseInv
<1>11. StoreTypes'
  BY <1>2, <1>3 DEF StoreTypes, TypeOK
<1> QED BY <1>5, <1>6, <1>7, <1>8, <1>9, <1>10, <1>11
\* The generation is recorded under its lease: the control has a new version.
LEMMA BumpKeeps ==
    ASSUME SessionInv, control.lease # NoOp, control' = Bumped(control),
           UNCHANGED <<lease, claim, turn, transcript, cleanup, attempt>>
    PROVE  StoreInv' /\ StoreTypes'
<1> USE DEF SessionInv, StoreInv
<1>1. lease' = lease /\ claim' = claim /\ turn' = turn /\ transcript' = transcript /\ cleanup' = cleanup /\ attempt' = attempt
  OBVIOUS
<1>2. /\ control' \in Controls /\ control'.gen = control.gen /\ control'.lease = control.lease /\ control'.op = control.op
      /\ control'.avail = control.avail /\ control'.base = control.base
  BY BumpedIs DEF TypeOK
<1>3. LeaseInv' /\ TurnInv'
  BY <1>1, <1>2 DEF LeaseInv, TurnInv
<1>4. TranscriptInOrder' /\ ProjectedAfterRelease' /\ StoreTypes'
  BY SMTT(60), <1>1, <1>2 DEF TranscriptInOrder, ProjectedAfterRelease, StoreTypes, TypeOK
<1>5. BaselinesAgree' /\ CleanupQuiescent'
  BY <1>1, <1>2 DEF BaselinesAgree, CleanupQuiescent
<1>6. BaseInv'
  BY SMTT(60), <1>1, <1>2 DEF BaseInv, Agree, Closing, FinalBase, FinalAvail, Finalize
<1> QED BY <1>3, <1>4, <1>5, <1>6

\* An operator reopens the Session at the observed baseline.
Reconciling(sha) ==
    LET op == <<"reconcile", sha, control.gen>> IN
    /\ cleanup.state = "none" /\ control.lease = NoOp /\ control.gen > 0 /\ lease.gen = control.gen
    /\ lease.holder \in {NoOp, op}
    /\ control.avail = "Blocked" \/ control.op = op
    /\ UNCHANGED <<turn, transcript, cleanup, attempt>>
    /\ \/ /\ lease' = Marked(op) /\ control' = control
          /\ claim' = claim \/ claim' = Restored(sha, op)
       \/ /\ lease' \in {Cleared, Marked(op)} /\ claim' = Restored(sha, op)
          /\ control' = IF control.op = op THEN control ELSE Reopened(control, op, sha)

\* So does a reconciliation by the operator, whole or cut short.
LEMMA ReconcileKeeps ==
    ASSUME SessionInv, NEW sha \in 0 .. MaxGen, Reconciling(sha)
    PROVE  StoreInv' /\ StoreTypes'
<1> USE DEF SessionInv, StoreInv
<1> DEFINE op == <<"reconcile", sha, control.gen>>
<1>1. /\ control.gen \in Gens /\ control.gen \in Nat /\ lease.gen = control.gen /\ control.lease = NoOp /\ cleanup.state = "none"
      /\ turn' = turn /\ transcript' = transcript /\ cleanup' = cleanup /\ attempt' = attempt
  BY Numbers, TypesAre DEF Reconciling
<1>2. op \in Ops /\ op \in Reconciliations
  BY <1>1 DEF Ops, Reconciliations
<1>3. /\ op[1] = "reconcile" /\ op[2] = sha /\ op[3] = control.gen
      /\ \A u, h : op # <<"finalize", u, h>>
      /\ \A s, h : op = <<"reconcile", s, h>> => s = sha
  OBVIOUS
<1>4. /\ control.avail = "Blocked" \/ control.op = op
      /\ \/ /\ lease' = Marked(op) /\ control' = control
            /\ claim' = claim \/ claim' = Restored(sha, op)
         \/ /\ lease' \in {Cleared, Marked(op)} /\ claim' = Restored(sha, op)
            /\ control' = IF control.op = op THEN control ELSE Reopened(control, op, sha)
  BY DEF Reconciling
<1> HIDE DEF op
<1>5. /\ Marked(op) \in Leases /\ Marked(op).gen = lease.gen /\ Marked(op).holder = op
      /\ Cleared \in Leases /\ Cleared.gen = lease.gen /\ Cleared.holder = NoOp
      /\ op # NoOp /\ op \notin Held /\ NoOp \notin Held /\ NoOp \notin Reconciliations
  BY <1>2, MarkedIs, ClearedIs, ReconcileIs, Apart
<1>6. /\ Restored(sha, op) \in Claims /\ Restored(sha, op).sha = sha /\ Restored(sha, op).avail = "Available"
      /\ Reopened(control, op, sha) \in Controls /\ Reopened(control, op, sha).gen = control.gen
      /\ Reopened(control, op, sha).lease = control.lease /\ Reopened(control, op, sha).op = op
      /\ Reopened(control, op, sha).avail = "Available" /\ Reopened(control, op, sha).base = sha
  BY SMTT(60), <1>2, ReopenedIs, RestoredIs DEF TypeOK
<1>7. /\ lease'.gen = lease.gen /\ lease'.holder \in {NoOp, op} /\ lease' \in Leases
      /\ control'.gen = control.gen /\ control'.lease = NoOp /\ control' \in Controls /\ claim' \in Claims
      /\ \/ control' = control
         \/ control'.op = op /\ control'.avail = "Available" /\ control'.base = sha /\ claim'.sha = sha /\ claim'.avail = "Available"
  BY <1>1, <1>4, <1>5, <1>6 DEF TypeOK
<1>8. LeaseInv'
  BY SMTT(60), <1>1, <1>2, <1>3, <1>5, <1>7 DEF LeaseInv
<1>9. TurnInv'
  BY <1>1, <1>7 DEF TurnInv
<1>10. TranscriptInOrder' /\ StoreTypes' /\ CleanupQuiescent'
  BY SMTT(60), <1>1, <1>7 DEF TranscriptInOrder, StoreTypes, TypeOK, CleanupQuiescent
<1>11. \A k \in Keys : Key(k[1], k[2]) # NoOp /\ Key(k[1], k[2]) # op
  BY SMTT(60), <1>3, KeyIs, NoOpIs
<1>12. ProjectedAfterRelease'
  BY <1>7, <1>11 DEF ProjectedAfterRelease
<1>13. control.op = op => control.base = sha
  BY <1>1 DEF BaseInv, op
<1>14. BaselinesAgree'
  <2>1. CASE control' = control /\ control.avail = "Available"
    <3>1. control.base = claim.sha /\ claim.avail = "Available"
      BY <1>1, <2>1 DEF BaselinesAgree
    <3>2. control.base = sha
      BY <1>4, <1>13, <2>1
    <3>3. claim'.sha = sha /\ claim'.avail = "Available"
      <4>1. claim' = claim \/ claim' = Restored(sha, op)
        BY <1>4
      <4>2. CASE claim' = claim
        BY <3>1, <3>2, <4>2
      <4>3. CASE claim' = Restored(sha, op)
        BY <1>6, <4>3
      <4> QED BY <4>1, <4>2, <4>3
    <3> QED BY <2>1, <3>2, <3>3 DEF BaselinesAgree
  <2> QED BY <1>7, <2>1 DEF BaselinesAgree
<1>15. BaseInv'
  <2>1. \A u \in Tasks, h \in Gens : control'.lease # Key(u, h)
    BY SMTT(60), <1>7, KeyIs, NoOpIs
  <2>2. ASSUME NEW u \in Tasks, NEW h \in Gens, control'.op = <<"finalize", u, h>>
        PROVE  attempt'[u].state = "Ended" /\ attempt'[u].gen = h /\ lease'.holder \in Reconciliations
    <3>1. control' = control /\ control.op # op
      BY <1>3, <1>7, <2>2
    <3>2. lease' = Marked(op)
      BY <1>3, <1>4, <1>6, <2>2, <3>1
    <3>3. attempt[u].state = "Ended" /\ attempt[u].gen = h
      BY <1>1, <2>2, <3>1 DEF BaseInv
    <3> QED BY <1>1, <1>2, <1>5, <3>2, <3>3
  <2>3. ASSUME NEW s \in 0 .. MaxGen, NEW h \in Gens, control'.op = <<"reconcile", s, h>>
        PROVE  control'.base = s
    BY SMTT(60), <1>3, <1>7, <2>3 DEF BaseInv
  <2> QED BY SMTT(60), <2>1, <2>2, <2>3 DEF BaseInv
<1> QED BY <1>8, <1>9, <1>10, <1>12, <1>14, <1>15
\* What the finalization of the turn <<t, g>> does once the control has given the lease back:
\* it clears the Lease and activates the projection.
Closed(t, g) ==
    /\ control.lease = NoOp /\ control.op = <<"finalize", t, g>>
    /\ turn[<<t, g>>] = "finalized" /\ lease.gen = g /\ lease.holder \in {NoOp, Key(t, g)}
    /\ UNCHANGED <<control, claim, transcript, cleanup, attempt>>
    /\ \/ lease' \in {lease, Cleared} /\ turn' = [turn EXCEPT ![<<t, g>>] = "finalized"]
       \/ lease' = Cleared /\ turn' = [turn EXCEPT ![<<t, g>>] = "projected"]

\* So does the tail of a finalization whose control has been written.
LEMMA ClosedKeeps ==
    ASSUME SessionInv, NEW t \in Tasks, NEW g \in Gens, Closed(t, g)
    PROVE  StoreInv' /\ StoreTypes'
<1> USE DEF SessionInv, StoreInv
<1> DEFINE k == <<t, g>>
<1>1. k \in Keys /\ k[1] = t /\ k[2] = g /\ Key(t, g) # NoOp
  BY KeyOf, KeyApart
<1>2. /\ turn'[k] \in {"finalized", "projected"} /\ \A j \in Keys : j # k => turn'[j] = turn[j]
      /\ turn' \in [Keys -> {"none", "open", "finalized", "projected"}]
      /\ turn[k] = "finalized"
      /\ turn'[k] = "projected" => lease' = Cleared
  BY <1>1 DEF TypeOK, Closed
<1>3. /\ control' = control /\ claim' = claim /\ transcript' = transcript /\ cleanup' = cleanup /\ attempt' = attempt
      /\ control.lease = NoOp /\ lease' \in {lease, Cleared}
  BY DEF Closed
<1> HIDE DEF k
<1>4. lease' \in Leases /\ lease'.gen = lease.gen /\ lease'.holder \in {lease.holder, NoOp} /\ lease.holder \notin Reconciliations
  BY <1>3, ClearedIs, KeyApart, Apart DEF TypeOK, Closed
<1>5. lease.gen = control.gen
  <2>1. control.op[3] = g /\ lease.gen = g
    BY SMTT(60) DEF Closed
  <2> QED BY SMTT(60), <2>1, TypesAre DEF LeaseInv
<1>6. LeaseInv'
  BY SMTT(60), <1>3, <1>4, <1>5, Apart, TypesAre DEF LeaseInv
<1>7. TurnInv'
  BY <1>2, <1>3 DEF TurnInv
<1>8. TranscriptInOrder'
  <2>1. turn[k] \in {"finalized", "projected"} /\ turn'[k] \in {"finalized", "projected"}
    BY <1>2
  <2> QED BY <1>1, <1>2, <1>3, <2>1, TranscriptStays
<1>9. \A j \in Keys : Key(j[1], j[2]) # NoOp
  BY SMTT(60), KeyIs, NoOpIs
<1>10. ProjectedAfterRelease'
  <2> SUFFICES ASSUME NEW j \in Keys, turn'[j] = "projected"
               PROVE  Key(j[1], j[2]) \notin {lease'.holder, control'.lease}
    BY DEF ProjectedAfterRelease
  <2>1. CASE j = k
    BY <1>2, <1>3, <1>9, <2>1, ClearedIs
  <2>2. CASE j # k
    BY <1>2, <1>3, <1>4, <1>9, <2>2 DEF ProjectedAfterRelease
  <2> QED BY <2>1, <2>2
<1>11. BaselinesAgree' /\ CleanupQuiescent'
  BY <1>1, <1>2, <1>3 DEF BaselinesAgree, CleanupQuiescent
<1>12. BaseInv'
  <2>1. \A u \in Tasks, h \in Gens : control'.lease # Key(u, h)
    BY SMTT(60), <1>3, KeyIs, NoOpIs
  <2> QED BY SMTT(60), <1>3, <1>4, <2>1 DEF BaseInv, Closing, FinalBase, FinalAvail, Finalize
<1>13. StoreTypes'
  <2>1. control \in Controls /\ claim \in Claims /\ transcript \in Seq(Keys)
    BY DEF TypeOK
  <2> QED BY <1>2, <1>3, <1>4, <2>1 DEF StoreTypes
<1> QED BY <1>6, <1>7, <1>8, <1>10, <1>11, <1>12, <1>13

\* The projection of a generation that the Session has left behind is activated.
Behind(t, g) ==
    /\ control.gen > g /\ turn[<<t, g>>] = "finalized" /\ turn' = [turn EXCEPT ![<<t, g>>] = "projected"]
    /\ UNCHANGED <<lease, control, claim, transcript, cleanup, attempt>>

\* So does the activation of a projection left behind.
LEMMA BehindKeeps ==
    ASSUME SessionInv, NEW t \in Tasks, NEW g \in Gens, Behind(t, g)
    PROVE  StoreInv' /\ StoreTypes'
<1> USE DEF SessionInv, StoreInv
<1> DEFINE k == <<t, g>>
<1>1. k \in Keys /\ k[1] = t /\ k[2] = g
  BY KeyOf
<1>2. /\ turn'[k] = "projected" /\ turn[k] = "finalized" /\ \A j \in Keys : j # k => turn'[j] = turn[j]
      /\ turn' \in [Keys -> {"none", "open", "finalized", "projected"}]
  BY <1>1 DEF TypeOK, Behind
<1>3. /\ lease' = lease /\ control' = control /\ claim' = claim /\ transcript' = transcript /\ cleanup' = cleanup /\ attempt' = attempt
      /\ control.gen > g /\ control.gen \in Nat /\ g \in Nat
  BY TypesAre, Numbers DEF Behind
<1> HIDE DEF k
<1>4. lease.holder # Key(t, g) /\ control.lease # Key(t, g)
  <2>1. Key(t, g) \in Held /\ Key(t, g)[3] = g /\ Key(t, g) # NoOp
    BY KeyHeld, KeyIs, KeyApart
  <2>2. lease.gen # g
    BY SMTT(60), <1>3 DEF LeaseInv
  <2> QED BY <1>3, <2>1, <2>2 DEF LeaseInv
<1>5. LeaseInv' /\ TurnInv'
  BY <1>2, <1>3 DEF LeaseInv, TurnInv
<1>6. TranscriptInOrder'
  <2>1. turn[k] \in {"finalized", "projected"} /\ turn'[k] \in {"finalized", "projected"}
    BY <1>2
  <2> QED BY <1>1, <1>2, <1>3, <2>1, TranscriptStays
<1>7. ProjectedAfterRelease'
  BY <1>1, <1>2, <1>3, <1>4 DEF ProjectedAfterRelease
<1>8. BaselinesAgree' /\ CleanupQuiescent'
  BY <1>1, <1>2, <1>3 DEF BaselinesAgree, CleanupQuiescent
<1>9. BaseInv'
  <2>1. ASSUME NEW u \in Tasks, NEW h \in Gens, control'.lease = Key(u, h)
        PROVE  turn'[<<u, h>>] = turn[<<u, h>>]
    <3>1. <<u, h>> \in Keys /\ Key(u, h) # Key(t, g)
      BY <1>3, <1>4, <2>1, KeyOf
    <3>2. <<u, h>> # k
      BY <3>1 DEF k
    <3> QED BY <1>2, <3>1, <3>2
  <2> QED BY SMTT(60), <1>3, <2>1 DEF BaseInv, Agree, Closing, FinalBase, FinalAvail, Finalize
<1>10. StoreTypes'
  BY <1>2, <1>3 DEF StoreTypes, TypeOK
<1> QED BY <1>5, <1>6, <1>7, <1>8, <1>9, <1>10

\* What appending an element does to a sequence.
LEMMA AppendIs ==
    ASSUME NEW S, NEW q \in Seq(S), NEW x \in S
    PROVE  /\ Append(q, x) \in Seq(S) /\ Len(q) \in Nat /\ Len(Append(q, x)) = Len(q) + 1
           /\ \A i \in 1 .. Len(q) : Append(q, x)[i] = q[i]
           /\ Append(q, x)[Len(q) + 1] = x
BY SMTT(60)

\* The messages of the leased turn go to the end of the transcript, once, or not at all.
LEMMA TranscriptGrows ==
    ASSUME SessionInv, NEW t \in Tasks, NEW g \in Gens, control.lease = Key(t, g),
           turn[<<t, g>>] \in {"open", "finalized"}, turn'[<<t, g>>] \in {"finalized", "projected"},
           \A j \in Keys : j # <<t, g>> => turn'[j] = turn[j], Appends(<<t, g>>)
    PROVE  /\ TranscriptInOrder' /\ transcript' \in Seq(Keys)
           /\ \/ transcript' = transcript
              \/ /\ transcript' = Append(transcript, <<t, g>>)
                 /\ \A i \in 1 .. Len(transcript) : transcript[i] # <<t, g>>
<1>a. TypeOK /\ LeaseInv /\ TurnInv /\ TranscriptInOrder
  BY DEF SessionInv, StoreInv
<1> DEFINE k == <<t, g>>
<1>1. k \in Keys /\ k[1] = t /\ k[2] = g /\ g \in Nat /\ transcript \in Seq(Keys)
  BY <1>a, KeyOf, Numbers DEF TypeOK
<1>2. /\ turn[k] \in {"open", "finalized"} /\ turn'[k] \in {"finalized", "projected"}
      /\ \A j \in Keys : j # k => turn'[j] = turn[j]
      /\ \/ turn[k] = "open" /\ transcript' = Append(transcript, k)
         \/ (turn[k] # "open" \/ k[1] \in MaySkip) /\ transcript' = transcript
  BY DEF Appends
<1> HIDE DEF k
<1>3. CASE (turn[k] # "open" \/ k[1] \in MaySkip) /\ transcript' = transcript
  <2>1. TranscriptInOrder'
    BY <1>a, <1>1, <1>2, <1>3, TranscriptStays
  <2> QED BY <1>1, <1>3, <2>1
<1>4. CASE turn[k] = "open" /\ transcript' = Append(transcript, k)
  <2>2. control.gen = g
    BY SMTT(60), <1>a, KeyApart, KeyIs DEF LeaseInv
  <2>3. ASSUME NEW i \in 1 .. Len(transcript)
        PROVE  transcript[i] \in Keys /\ transcript[i] # k /\ transcript[i][2] \in Nat /\ transcript[i][2] < g
    <3> DEFINE x == transcript[i]
    <3>1. x \in Keys
      BY SMTT(60), <1>1
    <3>2. turn[x] \in {"finalized", "projected"}
      BY <1>a DEF TranscriptInOrder
    <3> HIDE DEF x
    <3>3. x # k /\ x = <<x[1], x[2]>> /\ x[2] \in Nat
      BY <1>4, <3>1, <3>2, KeysAre, Numbers
    <3>4. x[2] <= g
      BY <1>a, <2>2, <3>1, <3>2 DEF TurnInv
    <3>5. x[2] # g
      <4> SUFFICES ASSUME x[2] = g PROVE FALSE
        OBVIOUS
      <4>1. Key(x[1], x[2]) = Key(t, g)
        BY <1>a, <2>2, <3>1, <3>2, KeyApart DEF TurnInv
      <4>2. x[1] = t
        BY SMTT(60), <4>1, KeySame
      <4> QED BY <3>3, <4>2 DEF k
    <3> QED BY SMTT(60), <1>1, <3>1, <3>3, <3>4, <3>5 DEF x
  <2>a. /\ Append(transcript, k) \in Seq(Keys) /\ Len(transcript) \in Nat /\ Len(Append(transcript, k)) = Len(transcript) + 1
        /\ \A i \in 1 .. Len(transcript) : Append(transcript, k)[i] = transcript[i]
        /\ Append(transcript, k)[Len(transcript) + 1] = k
    <3>1. transcript \in Seq(Keys) /\ k \in Keys
      BY <1>1
    <3> QED BY ONLY <3>1, AppendIs, ZenonT(60)
  <2>4. transcript' \in Seq(Keys) /\ Len(transcript') = Len(transcript) + 1 /\ Len(transcript) \in Nat
    BY <1>4, <2>a
  <2>5. /\ \A i \in 1 .. Len(transcript) : transcript'[i] = transcript[i]
        /\ transcript'[Len(transcript) + 1] = k
    BY <1>4, <2>a
  <2>6. \A i, j \in 1 .. Len(transcript') : i < j => transcript'[i][2] < transcript'[j][2]
    <3> SUFFICES ASSUME NEW i \in 1 .. Len(transcript'), NEW j \in 1 .. Len(transcript'), i < j
                 PROVE  transcript'[i][2] < transcript'[j][2]
      OBVIOUS
    <3>1. i \in 1 .. Len(transcript) /\ transcript'[i] = transcript[i]
      BY SMTT(60), <2>4, <2>5
    <3>2. CASE j \in 1 .. Len(transcript)
      BY <1>a, <2>5, <3>1, <3>2 DEF TranscriptInOrder
    <3>3. CASE j = Len(transcript) + 1
      BY <1>1, <2>3, <2>5, <3>1, <3>3
    <3> QED BY SMTT(60), <2>4, <3>2, <3>3
  <2>7. ASSUME NEW i \in 1 .. Len(transcript') PROVE turn'[transcript'[i]] \in {"finalized", "projected"}
    <3>1. CASE i \in 1 .. Len(transcript)
      <4>1. turn[transcript[i]] \in {"finalized", "projected"}
        BY <1>a, <3>1 DEF TranscriptInOrder
      <4> QED BY <1>2, <2>3, <2>5, <3>1, <4>1
    <3>2. CASE i = Len(transcript) + 1
      BY <1>2, <2>5, <3>2
    <3> QED BY SMTT(60), <2>4, <3>1, <3>2
  <2>8. ASSUME NEW j \in Keys, turn'[j] \in {"finalized", "projected"}, j[1] \notin MaySkip
        PROVE  \E i \in 1 .. Len(transcript') : transcript'[i] = j
    <3>1. CASE j = k
      BY SMTT(60), <2>4, <2>5, <3>1
    <3>2. CASE j # k
      <4>1. turn[j] \in {"finalized", "projected"}
        BY <1>2, <2>8, <3>2
      <4>2. PICK i \in 1 .. Len(transcript) : transcript[i] = j
        BY <1>a, <2>8, <4>1 DEF TranscriptInOrder
      <4>3. i \in 1 .. Len(transcript')
        BY SMTT(60), <2>4
      <4> QED BY <2>5, <4>2, <4>3
    <3> QED BY <3>1, <3>2
  <2>9. TranscriptInOrder'
    BY <2>6, <2>7, <2>8 DEF TranscriptInOrder
  <2> QED BY <1>4, <2>3, <2>4, <2>9 DEF k
<1> QED BY <1>2, <1>3, <1>4

\* The claim after the finalization of the leased turn is at the turn's baseline.
LEMMA ClaimCloses ==
    ASSUME SessionInv, NEW t \in Tasks, NEW g \in Gens, control.lease = Key(t, g), attempt[t].gen = g
    PROVE  /\ FinalClaim(t) \in Claims /\ FinalClaim(t).sha = FinalBase(t)
           /\ FinalClaim(t).avail = FinalAvail(t) /\ FinalClaim(t).op = Finalize(t)
           /\ FinalBase(t) \in 0 .. MaxGen /\ FinalAvail(t) \in {"Available", "Blocked"}
           /\ Finalize(t) \in Ops /\ Finalize(t) = <<"finalize", t, g>>
<1>1. g \in Nat /\ g > 0 /\ g \in 0 .. MaxGen /\ control.base \in 0 .. MaxGen /\ claim.sha \in 0 .. MaxGen
  BY Numbers, TypesAre DEF SessionInv
<1>2. FinalBase(t) \in 0 .. MaxGen /\ FinalAvail(t) \in {"Available", "Blocked"}
  BY <1>1 DEF FinalBase, FinalAvail
<1>3. Finalize(t) = <<"finalize", t, g>>
  BY DEF Finalize
<1>4. Finalize(t) \in Ops
  BY SMTT(60), <1>3 DEF Ops
<1>5. FinalBase(t) = 0 => claim.sha = 0
  <2>1. FinalBase(t) = 0 => control.base = 0
    BY SMTT(60), <1>1 DEF FinalBase
  <2>2. BaseInv
    BY DEF SessionInv, StoreInv
  <2>3. Agree \/ Closing(t)
    BY <2>2 DEF BaseInv
  <2>4. control.base = claim.sha \/ claim.sha = FinalBase(t)
    BY <2>3 DEF Agree, Closing
  <2> QED BY <2>1, <2>4
<1> DEFINE b == FinalBase(t)
           v == FinalAvail(t)
           o == Finalize(t)
<1>6. FinalClaim(t) = [sha |-> IF b = 0 THEN claim.sha ELSE b, avail |-> v, op |-> o]
  BY DEF FinalClaim
<1>7. b \in 0 .. MaxGen /\ v \in {"Available", "Blocked"} /\ o \in Ops /\ (b = 0 => claim.sha = 0)
  BY <1>2, <1>4, <1>5
<1> HIDE DEF b, v, o
<1>8. FinalClaim(t) \in Claims /\ FinalClaim(t).sha = b /\ FinalClaim(t).avail = v /\ FinalClaim(t).op = o
  BY SMTT(60), <1>1, <1>6, <1>7 DEF Claims
<1> QED BY <1>2, <1>3, <1>4, <1>8 DEF b, v, o
\* The finalization of the leased turn: the turn, the claim, the control and the Lease follow
\* each other as far as the operation gets.
TurnClaim(t) == IF attempt[t].pub = "none" THEN claim ELSE FinalClaim(t)
Finishing(t, g) ==
    /\ control.lease = Key(t, g) /\ attempt[t].state = "Ended" /\ attempt[t].gen = g
    /\ turn[<<t, g>>] \in {"open", "finalized"}
    /\ Appends(<<t, g>>)
    /\ UNCHANGED <<cleanup, attempt>>
    /\ \/ /\ turn[<<t, g>>] = "open" /\ turn' = [turn EXCEPT ![<<t, g>>] = "finalized"]
          /\ claim' = claim /\ control' = control /\ lease' = lease
       \/ /\ turn' = [turn EXCEPT ![<<t, g>>] = "finalized"]
          /\ claim' = TurnClaim(t) /\ control' = control /\ lease' = lease
       \/ /\ turn' = [turn EXCEPT ![<<t, g>>] = "finalized"]
          /\ claim' = TurnClaim(t) /\ control' = FinalControl(t) /\ lease' \in {lease, Cleared}
       \/ /\ turn' = [turn EXCEPT ![<<t, g>>] = "projected"]
          /\ claim' = TurnClaim(t) /\ control' = FinalControl(t) /\ lease' = Cleared

\* What finishing a turn does to turn, control and Lease.
LEMMA FinishIs ==
    ASSUME SessionInv, NEW t \in Tasks, NEW g \in Gens, Finishing(t, g)
    PROVE  /\ turn'[<<t, g>>] \in {"finalized", "projected"} /\ \A j \in Keys : j # <<t, g>> => turn'[j] = turn[j]
           /\ turn' \in [Keys -> {"none", "open", "finalized", "projected"}]
           /\ turn'[<<t, g>>] = "projected" => lease' = Cleared /\ control' = FinalControl(t)
           /\ control.gen = g /\ lease.gen = g /\ lease.holder = Key(t, g) /\ cleanup.state = "none"
<1>a. TypeOK /\ LeaseInv /\ CleanupQuiescent
  BY DEF SessionInv, StoreInv
<1>1. <<t, g>> \in Keys
  BY KeyOf
<1>2. /\ turn'[<<t, g>>] \in {"finalized", "projected"} /\ \A j \in Keys : j # <<t, g>> => turn'[j] = turn[j]
      /\ turn' \in [Keys -> {"none", "open", "finalized", "projected"}]
      /\ turn'[<<t, g>>] = "projected" => lease' = Cleared /\ control' = FinalControl(t)
  BY <1>a, <1>1 DEF TypeOK, Finishing
<1>3. control.lease = Key(t, g) /\ Key(t, g) # NoOp /\ Key(t, g)[3] = g /\ Key(t, g) \in Held
  BY SMTT(60), KeyHeld, KeyApart, KeyIs DEF Finishing
<1>4. control.gen = g /\ lease.holder = Key(t, g) /\ cleanup.state = "none"
  BY <1>a, <1>3 DEF LeaseInv, CleanupQuiescent
<1>5. lease.gen = g
  BY <1>a, <1>3, <1>4 DEF LeaseInv
<1> QED BY <1>2, <1>4, <1>5

\* The control a finalization writes.
LEMMA FinalControlIs ==
    ASSUME SessionInv, NEW t \in Tasks, control.lease = Key(t, attempt[t].gen), attempt[t].gen \in Gens
    PROVE  /\ FinalControl(t) \in Controls /\ FinalControl(t) # control /\ FinalControl(t).version = control.version + 1
           /\ FinalControl(t).gen = control.gen /\ FinalControl(t).lease = NoOp /\ FinalControl(t).op = Finalize(t)
           /\ FinalControl(t).avail = FinalAvail(t) /\ FinalControl(t).base = FinalBase(t)
<1> DEFINE o == Finalize(t)
           v == FinalAvail(t)
           b == FinalBase(t)
<1>1. o \in Ops /\ v \in {"Available", "Blocked"} /\ b \in 0 .. MaxGen
  BY ClaimCloses
<1>2. FinalControl(t) = Finished(control, o, v, b)
  BY DEF FinalControl, Finished
<1> HIDE DEF o, v, b
<1>3. control \in Controls /\ control.version \in Nat
  BY TypesAre DEF SessionInv, TypeOK
<1>4. /\ Finished(control, o, v, b) \in Controls /\ Finished(control, o, v, b).version = control.version + 1
      /\ Finished(control, o, v, b).gen = control.gen /\ Finished(control, o, v, b).lease = NoOp
      /\ Finished(control, o, v, b).op = o /\ Finished(control, o, v, b).avail = v /\ Finished(control, o, v, b).base = b
  BY SMTT(60), <1>1, <1>3, FinishedIs
<1>5. Finished(control, o, v, b) # control
  BY SMTT(60), <1>3, <1>4
<1> QED BY <1>2, <1>4, <1>5 DEF o, v, b

\* What becomes of claim and control.
LEMMA FinishBase ==
    ASSUME SessionInv, NEW t \in Tasks, NEW g \in Gens, Finishing(t, g)
    PROVE  BaseInv' /\ BaselinesAgree' /\ claim' \in Claims
<1>a. BaseInv /\ TypeOK
  BY DEF SessionInv, StoreInv
<1>1. /\ control.lease = Key(t, g) /\ attempt[t].state = "Ended" /\ attempt[t].gen = g /\ attempt' = attempt
      /\ Key(t, g) # NoOp
  BY KeyApart DEF Finishing
<1>2. /\ FinalClaim(t) \in Claims /\ FinalClaim(t).sha = FinalBase(t)
      /\ FinalClaim(t).avail = FinalAvail(t) /\ FinalClaim(t).op = Finalize(t) /\ Finalize(t) = <<"finalize", t, g>>
  BY <1>1, ClaimCloses
<1>b. /\ FinalControl(t) # control /\ FinalControl(t).lease = NoOp /\ FinalControl(t).op = Finalize(t)
      /\ FinalControl(t).avail = FinalAvail(t) /\ FinalControl(t).base = FinalBase(t)
  BY <1>1, FinalControlIs
<1>3. claim' \in Claims
  BY <1>a, <1>2 DEF Finishing, TurnClaim, TypeOK
<1>4. /\ control.avail = "Available"
      /\ Agree \/ (turn[<<t, g>>] = "finalized" /\ attempt[t].pub # "none" /\ Closing(t))
  BY <1>a, <1>1 DEF BaseInv
<1>5. attempt[t].pub = "none" => FinalBase(t) = control.base /\ FinalAvail(t) = "Available" /\ Agree
  BY <1>4 DEF FinalBase, FinalAvail
<1>6. \A s, h : <<"finalize", t, g>> # <<"reconcile", s, h>>
  OBVIOUS
<1>7. CASE control' = control
  <2>1. ASSUME NEW u \in Tasks, NEW h \in Gens, control'.lease = Key(u, h)
        PROVE  u = t /\ h = g
    <3>1. Key(u, h) = Key(t, g)
      BY <1>1, <1>7, <2>1
    <3> QED BY SMTT(60), <3>1, KeySame
  <2>2. FinalBase(t)' = FinalBase(t) /\ FinalAvail(t)' = FinalAvail(t) /\ Finalize(t)' = Finalize(t)
    BY <1>1, <1>7 DEF FinalBase, FinalAvail, Finalize
  <2>3. Agree' \/ (turn'[<<t, g>>] = "finalized" /\ attempt'[t].state = "Ended" /\ attempt'[t].gen = g
                    /\ attempt'[t].pub # "none" /\ Closing(t)')
    <3>1. turn'[<<t, g>>] = "finalized"
      BY <1>b, <1>7, FinishIs
    <3>2. CASE claim' = claim
      BY <1>1, <1>4, <1>7, <2>2, <3>1, <3>2 DEF Agree, Closing
    <3>3. CASE attempt[t].pub # "none" /\ claim' = FinalClaim(t)
      BY <1>1, <1>2, <2>2, <3>1, <3>3 DEF Closing
    <3> QED BY <3>2, <3>3 DEF Finishing, TurnClaim
  <2>4. \A u \in Tasks, h \in Gens : control'.lease = Key(u, h) =>
           /\ control'.avail = "Available"
           /\ Agree' \/ /\ turn'[<<u, h>>] = "finalized" /\ attempt'[u].state = "Ended" /\ attempt'[u].gen = h
                         /\ attempt'[u].pub # "none" /\ Closing(u)'
    BY <1>4, <1>7, <2>1, <2>3
  <2>5. \A s \in 0 .. MaxGen, h \in Gens : control'.op = <<"reconcile", s, h>> => control'.base = s
    BY <1>a, <1>7 DEF BaseInv
  <2>6. control'.lease # NoOp
    BY <1>1, <1>7
  <2>7. BaseInv'
    BY <2>4, <2>5, <2>6 DEF BaseInv
  <2> QED BY <1>3, <2>6, <2>7 DEF BaselinesAgree
<1>8. CASE control' = FinalControl(t)
  <2>1. /\ control'.lease = NoOp /\ control'.op = <<"finalize", t, g>>
        /\ control'.avail = FinalAvail(t) /\ control'.base = FinalBase(t)
    BY <1>b, <1>2, <1>8
  <2>2. claim' = TurnClaim(t)
    BY <1>b, <1>8 DEF Finishing
  <2>3. FinalBase(t)' = FinalBase(t) /\ FinalAvail(t)' = FinalAvail(t) /\ Finalize(t)' = Finalize(t)
    BY <1>1, <2>1 DEF FinalBase, FinalAvail, Finalize
  <2>4. attempt'[t].pub # "none" => Closing(t)'
    BY <1>1, <1>2, <2>2, <2>3 DEF Closing, TurnClaim
  <2>5. BaselinesAgree'
    <3>1. CASE attempt[t].pub = "none"
      BY <1>5, <2>1, <2>2, <3>1 DEF BaselinesAgree, TurnClaim, Agree
    <3>2. CASE attempt[t].pub # "none"
      BY <1>2, <2>1, <2>2, <3>2 DEF BaselinesAgree, TurnClaim
    <3> QED BY <3>1, <3>2
  <2>6. \A u \in Tasks, h \in Gens : control'.lease # Key(u, h)
    BY SMTT(60), <2>1, KeyIs, NoOpIs
  <2>7. \A u \in Tasks, h \in Gens : control'.op = <<"finalize", u, h>> => u = t /\ h = g
    BY SMTT(60), <2>1
  <2>8. \A s \in 0 .. MaxGen, h \in Gens : control'.op # <<"reconcile", s, h>>
    BY <1>6, <2>1
  <2>9. BaseInv'
    BY <1>1, <2>4, <2>6, <2>7, <2>8 DEF BaseInv
  <2> QED BY <1>3, <2>5, <2>9
<1> QED BY <1>7, <1>8 DEF Finishing

\* Finishing a turn, whole or cut short, keeps what the stores promise.
LEMMA FinishKeeps ==
    ASSUME SessionInv, NEW t \in Tasks, NEW g \in Gens, Finishing(t, g)
    PROVE  StoreInv' /\ StoreTypes'
<1>a. TypeOK /\ LeaseInv /\ TurnInv /\ ProjectedAfterRelease
  BY DEF SessionInv, StoreInv
<1> DEFINE k == <<t, g>>
<1>1. k \in Keys /\ k[1] = t /\ k[2] = g /\ g \in Nat
  BY KeyOf, Numbers
<1>2. /\ turn'[k] \in {"finalized", "projected"} /\ \A j \in Keys : j # k => turn'[j] = turn[j]
      /\ turn' \in [Keys -> {"none", "open", "finalized", "projected"}]
      /\ turn'[k] = "projected" => lease' = Cleared /\ control' = FinalControl(t)
      /\ control.gen = g /\ lease.gen = g /\ lease.holder = Key(t, g) /\ cleanup.state = "none"
  BY FinishIs
<1>3. /\ FinalControl(t) \in Controls /\ FinalControl(t).gen = g /\ FinalControl(t).lease = NoOp
      /\ FinalControl(t).op[3] = g
  <2>1. control.lease = Key(t, attempt[t].gen) /\ attempt[t].gen = g
    BY DEF Finishing
  <2>2. Finalize(t)[3] = g
    BY <2>1 DEF Finalize
  <2> QED BY <1>2, <2>1, <2>2, FinalControlIs
<1>4. control.lease = Key(t, g) /\ turn[k] \in {"open", "finalized"} /\ Appends(k) /\ cleanup' = cleanup
  BY DEF Finishing
<1>5. Key(t, g) \in Held /\ Key(t, g) # NoOp /\ Key(t, g)[3] = g /\ NoOp \notin Held /\ NoOp \notin Reconciliations
  BY KeyHeld, KeyApart, KeyIs, Apart
<1>6. TranscriptInOrder' /\ transcript' \in Seq(Keys)
  BY <1>2, <1>4, TranscriptGrows
<1>7. lease' \in Leases /\ lease'.gen = g /\ lease'.holder \in {NoOp, Key(t, g)}
  BY <1>a, <1>2, ClearedIs DEF Finishing, TypeOK
<1>8. /\ control' \in Controls /\ control'.gen = g
      /\ \/ control' = control /\ lease' = lease
         \/ control'.lease = NoOp /\ control'.op[3] = g
  BY <1>a, <1>2, <1>3 DEF Finishing, TypeOK
<1> HIDE DEF k
<1>9. LeaseInv'
  <2>1. CASE control' = control /\ lease' = lease
    BY <1>a, <2>1 DEF LeaseInv
  <2>2. CASE control'.lease = NoOp /\ control'.op[3] = g
    BY SMTT(60), <1>1, <1>5, <1>7, <1>8, <2>2 DEF LeaseInv
  <2> QED BY <1>8, <2>1, <2>2
<1>10. \A j \in Keys : turn[j] = "open" => j = k
  <2> SUFFICES ASSUME NEW j \in Keys, turn[j] = "open" PROVE j = k
    OBVIOUS
  <2>1. Key(j[1], j[2]) = Key(t, g)
    BY <1>a, <1>4 DEF TurnInv
  <2>2. j[1] = t /\ j[2] = g
    BY SMTT(60), <2>1, KeySame
  <2> QED BY <2>2, KeysAre DEF k
<1>11. TurnInv'
  <2>1. \A j \in Keys : turn'[j] # "open"
    BY <1>2, <1>10
  <2>2. \A j \in Keys : turn'[j] # "none" => turn[j] # "none"
    BY <1>2, <1>4
  <2>3. control'.lease \in {NoOp, control.lease}
    BY <1>8
  <2> QED BY <1>a, <1>2, <1>8, <2>1, <2>2, <2>3 DEF TurnInv
<1>12. \A j \in Keys : Key(j[1], j[2]) # NoOp
  BY SMTT(60), KeyIs, NoOpIs
<1>13. ProjectedAfterRelease'
  <2> SUFFICES ASSUME NEW j \in Keys, turn'[j] = "projected"
               PROVE  Key(j[1], j[2]) # lease'.holder /\ Key(j[1], j[2]) # control'.lease
    BY DEF ProjectedAfterRelease
  <2>1. CASE j = k
    <3>1. lease'.holder = NoOp /\ control'.lease = NoOp
      BY <1>a, <1>2, <1>3, <2>1, ClearedIs
    <3> QED BY <1>12, <3>1
  <2>2. CASE j # k
    <3>1. Key(j[1], j[2]) # lease.holder /\ Key(j[1], j[2]) # control.lease
      BY <1>a, <1>2, <2>2 DEF ProjectedAfterRelease
    <3> QED BY <1>2, <1>7, <1>8, <1>12, <3>1
  <2> QED BY <2>1, <2>2
<1>14. CleanupQuiescent'
  BY <1>2, <1>4 DEF CleanupQuiescent
<1>15. BaseInv' /\ BaselinesAgree' /\ claim' \in Claims
  BY FinishBase
<1> QED BY <1>2, <1>6, <1>7, <1>8, <1>9, <1>11, <1>13, <1>14, <1>15 DEF StoreInv, StoreTypes

----------------------------------------------------------------------------
(* What a Task's step does to the stores is one of the kinds above. *)

Bumping == control.lease # NoOp /\ control' = Bumped(control) /\ UNCHANGED <<lease, claim, turn, transcript, cleanup, attempt>>
StoreStep(t) ==
    \/ UNCHANGED stores
    \/ Bumping
    \/ \E g \in Gens : Granting(t, g) \/ Releasing(t, g) \/ Opening(t, g) \/ Closed(t, g) \/ Behind(t, g) \/ Finishing(t, g)

\* Every kind of step keeps what the stores promise.
LEMMA StepKeeps ==
    ASSUME SessionInv, NEW t \in Tasks, StoreStep(t), EndedStay, cleanup' = cleanup
    PROVE  StoreInv' /\ StoreTypes'
<1>1. CASE UNCHANGED stores
  <2>1. CleanupQuiescent'
    BY <1>1 DEF SessionInv, StoreInv, CleanupQuiescent, stores
  <2> QED BY <1>1, <2>1, QuietKeeps
<1>2. CASE Bumping
  BY <1>2, BumpKeeps DEF Bumping
<1>3. ASSUME NEW g \in Gens,
             Granting(t, g) \/ Releasing(t, g) \/ Opening(t, g) \/ Closed(t, g) \/ Behind(t, g) \/ Finishing(t, g)
      PROVE  StoreInv' /\ StoreTypes'
  BY <1>3, GrantKeeps, ReleaseKeeps, OpenKeeps, ClosedKeeps, BehindKeeps, FinishKeeps
<1> QED BY <1>1, <1>2, <1>3 DEF StoreStep

\* The control is written with a new version, and of the turns only the Task's own.
LEMMA StepLocal ==
    ASSUME SessionInv, NEW t \in Tasks, StoreStep(t)
    PROVE  VersionGrows /\ \A k \in Keys : k[1] # t => turn'[k] = turn[k]
<1>a. TypeOK /\ control \in Controls
  BY DEF SessionInv, TypeOK
<1>1. CASE UNCHANGED stores
  BY <1>1 DEF stores, VersionGrows
<1>2. CASE Bumping
  BY <1>a, <1>2, BumpedIs DEF Bumping, VersionGrows
<1>3. ASSUME NEW g \in Gens, Granting(t, g)
      PROVE  VersionGrows /\ turn' = turn
  <2>1. Key(t, g) \in Held /\ g \in 0 .. MaxGen
    BY KeyHeld, Numbers
  <2>2. Mirror(control, g, Key(t, g)).version = control.version + 1
    BY SMTT(60), <1>a, <2>1, MirrorIs
  <2> QED BY <1>3, <2>2 DEF Granting, VersionGrows
<1>4. ASSUME NEW g \in Gens, Releasing(t, g)
      PROVE  VersionGrows /\ turn' = turn
  <2> DEFINE o == <<"release", t, g>>
  <2>1. o \in Ops
    BY DEF Ops
  <2>2. turn' = turn /\ (control' = control \/ control' = Freed(control, o))
    BY <1>4 DEF Releasing
  <2> HIDE DEF o
  <2>3. Freed(control, o).version = control.version + 1
    BY <1>a, <2>1, FreedIs
  <2> QED BY <2>2, <2>3 DEF VersionGrows
<1>5. ASSUME NEW g \in Gens, Opening(t, g) \/ Closed(t, g) \/ Behind(t, g)
      PROVE  VersionGrows /\ \A k \in Keys : k[1] # t => turn'[k] = turn[k]
  <2>1. control' = control
    BY <1>5 DEF Opening, Closed, Behind
  <2>2. \A k \in Keys : k # <<t, g>> => turn'[k] = turn[k]
    BY <1>a, <1>5 DEF TypeOK, Opening, Closed, Behind
  <2> QED BY SMTT(60), <2>1, <2>2, KeyOf DEF VersionGrows
<1>6. ASSUME NEW g \in Gens, Finishing(t, g)
      PROVE  VersionGrows /\ \A k \in Keys : k[1] # t => turn'[k] = turn[k]
  <2>1. \A k \in Keys : k # <<t, g>> => turn'[k] = turn[k]
    BY <1>a, <1>6 DEF TypeOK, Finishing
  <2>2. control.lease = Key(t, attempt[t].gen) /\ attempt[t].gen \in Gens
    BY <1>6 DEF Finishing
  <2>3. FinalControl(t).version = control.version + 1
    BY <2>2, FinalControlIs
  <2> QED BY SMTT(60), <1>6, <2>1, <2>3, KeyOf DEF Finishing, VersionGrows
<1> QED BY <1>1, <1>2, <1>3, <1>4, <1>5, <1>6 DEF StoreStep

\* A Task's step gives the lease to no other.
LEMMA StepLease ==
    ASSUME SessionInv, NEW t \in Tasks, StoreStep(t)
    PROVE  OnlyLease(t)
<1>a. control \in Controls
  BY DEF SessionInv, TypeOK
<1>b. \A u \in Tasks, h \in Gens : Key(u, h) # NoOp
  BY KeyApart
<1>1. control'.lease = control.lease \/ control'.lease = NoOp \/ \E g \in Gens : control'.lease = Key(t, g)
  <2>1. CASE UNCHANGED stores
    BY <2>1 DEF stores
  <2>2. CASE Bumping
    BY <1>a, <2>2, BumpedIs DEF Bumping
  <2>3. ASSUME NEW g \in Gens, Granting(t, g)
        PROVE  control'.lease = control.lease \/ control'.lease = Key(t, g)
    <3>1. Key(t, g) \in Held /\ g \in 0 .. MaxGen
      BY KeyHeld, Numbers
    <3>2. Mirror(control, g, Key(t, g)).lease = Key(t, g)
      BY SMTT(60), <1>a, <3>1, MirrorIs
    <3> QED BY <2>3, <3>2 DEF Granting
  <2>4. ASSUME NEW g \in Gens, Releasing(t, g)
        PROVE  control'.lease = control.lease \/ control'.lease = NoOp
    <3> DEFINE o == <<"release", t, g>>
    <3>1. o \in Ops
      BY DEF Ops
    <3>2. control' = control \/ control' = Freed(control, o)
      BY <2>4 DEF Releasing
    <3> HIDE DEF o
    <3>3. Freed(control, o).lease = NoOp
      BY <1>a, <3>1, FreedIs
    <3> QED BY <3>2, <3>3
  <2>5. ASSUME NEW g \in Gens, Opening(t, g) \/ Closed(t, g) \/ Behind(t, g)
        PROVE  control'.lease = control.lease
    BY <2>5 DEF Opening, Closed, Behind
  <2>6. ASSUME NEW g \in Gens, Finishing(t, g)
        PROVE  control'.lease = control.lease \/ control'.lease = NoOp
    <3>1. control.lease = Key(t, attempt[t].gen) /\ attempt[t].gen \in Gens
      BY <2>6 DEF Finishing
    <3>2. FinalControl(t).lease = NoOp
      BY <3>1, FinalControlIs
    <3> QED BY <2>6, <3>2 DEF Finishing
  <2> QED BY <2>1, <2>2, <2>3, <2>4, <2>5, <2>6 DEF StoreStep
<1> SUFFICES ASSUME NEW u \in Tasks, NEW h \in Gens, u # t, control'.lease = Key(u, h)
             PROVE  control.lease = Key(u, h)
  BY DEF OnlyLease
<1>2. \A g \in Gens : Key(u, h) # Key(t, g)
  BY SMTT(60), KeySame
<1> QED BY <1>1, <1>2, <1>b

\* The rest of the type invariant.
RestTypes ==
    /\ stale \in [Tasks -> BOOLEAN] /\ cancelled \in [Tasks -> BOOLEAN]
    /\ faults \in 0 .. MaxFaults /\ crashes \in 0 .. MaxCrashes

\* The type invariant is that of the stores and of the rest.
LEMMA TypesSplit ==
    ASSUME TypeOK
    PROVE  /\ RestTypes /\ StoreTypes /\ attempt \in [Tasks -> Attempts] /\ worker \in [Tasks -> Workers]
           /\ cleanup \in [state : {"none", "prepared", "done"}, version : Nat, gen : 0 .. MaxGen]
BY DEF TypeOK, RestTypes, StoreTypes

\* And back.
LEMMA TypesJoin ==
    ASSUME StoreTypes', RestTypes', attempt' \in [Tasks -> Attempts], worker' \in [Tasks -> Workers],
           cleanup' \in [state : {"none", "prepared", "done"}, version : Nat, gen : 0 .. MaxGen]
    PROVE  TypeOK'
BY DEF TypeOK, RestTypes, StoreTypes

\* A step of a Task that fits keeps everything.
TaskStep(t) == StoreStep(t) /\ EndedStay /\ OnlyWorker(t) /\ OnlyAttempt(t) /\ cleanup' = cleanup /\ RestTypes'

\* A Task's step keeps the invariant if its own dispatch and prompt still fit.
LEMMA TaskKeeps ==
    ASSUME SessionInv, NEW t \in Tasks, TaskStep(t), WorkerFits(t)', PromptFits(t)'
    PROVE  SessionInv'
<1>1. /\ StoreStep(t) /\ EndedStay /\ OnlyWorker(t) /\ OnlyAttempt(t) /\ cleanup' = cleanup /\ RestTypes'
  BY DEF TaskStep
<1>2. StoreInv' /\ StoreTypes'
  BY <1>1, StepKeeps
<1>3. WorkerInv' /\ PromptInv'
  BY <1>1, StepLocal, StepLease, OthersKeep
<1>4. cleanup' \in [state : {"none", "prepared", "done"}, version : Nat, gen : 0 .. MaxGen]
  BY <1>1, TypesSplit DEF SessionInv
<1>5. TypeOK'
  BY <1>1, <1>2, <1>4, TypesJoin DEF OnlyWorker, OnlyAttempt
<1> QED BY <1>2, <1>3, <1>5 DEF SessionInv
----------------------------------------------------------------------------
(* The actions. *)

\* The generation a dispatch works for is one of the Session's.
LEMMA LeaseGenIs ==
    ASSUME SessionInv, NEW t \in Tasks
    PROVE  /\ LeaseGen(t) \in Nat /\ LeaseGen(t) > 0
           /\ worker[t].pc \in Bound => LeaseGen(t) \in Gens
<1>1. worker[t].snap \in Controls
  BY WorkerIs DEF SessionInv
<1>2. worker[t].snap.gen \in Nat /\ worker[t].snap.lease \in {NoOp} \cup Held
  BY <1>1, Numbers DEF Controls
<1>3. worker[t].snap.lease = Key(t, worker[t].snap.gen) => worker[t].snap.gen \in Gens
  <2> DEFINE g == worker[t].snap.gen
             x == worker[t].snap.lease
  <2>1. x \in {NoOp} \cup Held
    BY <1>2
  <2> HIDE DEF g, x
  <2>2. Key(t, g)[1] = "turn" /\ Key(t, g)[3] = g
    BY KeyIs
  <2>3. x = Key(t, g) => x # NoOp
    BY <2>2, NoOpIs
  <2>4. x \in Held => x[3] \in Gens
    BY DEF Held
  <2>5. x = Key(t, g) => g \in Gens
    BY <2>1, <2>2, <2>3, <2>4
  <2> QED BY <2>5 DEF g, x
<1>4. LeaseGen(t) \in Nat /\ LeaseGen(t) > 0
  BY SMTT(60), <1>2, <1>3, Numbers DEF LeaseGen
<1>5. worker[t].pc \in Bound => LeaseGen(t) \in Gens
  <2>1. WorkerFits(t)
    BY DEF SessionInv, WorkerInv
  <2> QED BY <2>1 DEF WorkerFits
<1> QED BY <1>4, <1>5

\* Planning only reads.
LEMMA PlanKeeps ==
    ASSUME SessionInv, NEW t \in Tasks, planTaskSession(t)
    PROVE  SessionInv' /\ StoreStep(t)
<1>a. TypeOK /\ PromptFits(t) /\ LeaseInv /\ control \in Controls /\ control.version \in Nat
  BY TypesAre DEF SessionInv, StoreInv, TypeOK, PromptInv
<1>1. /\ attempt[t].state \in {"Reserved", "Starting"} /\ attempt' = attempt /\ turn' = turn /\ control' = control
      /\ cleanup' = cleanup /\ stale' = stale /\ cancelled' = cancelled /\ faults' = faults /\ crashes' = crashes
  BY DEF planTaskSession, stores
<1>2. StoreStep(t)
  BY DEF planTaskSession, StoreStep
<1>3. Takes(t, "planned", control)
  BY DEF planTaskSession, Takes
<1>4. OnlyWorker(t) /\ worker'[t].pc = "planned" /\ worker'[t].snap = control
  BY <1>a, <1>3, TakeMoves
<1>5. TaskStep(t)
  BY <1>a, <1>1, <1>2, <1>4, Stays, TypesSplit DEF TaskStep, RestTypes
<1>6. WorkerFits(t)'
  <2>1. ASSUME NEW g \in Gens, control'.lease = Key(t, g) PROVE LeaseGen(t)' = g
    <3>1. Key(t, g) # NoOp /\ Key(t, g)[3] = g
      BY SMTT(60), KeyApart, KeyIs
    <3>2. control.gen = g
      BY <1>a, <1>1, <2>1, <3>1 DEF LeaseInv
    <3> QED BY <1>1, <1>4, <2>1, <3>2 DEF LeaseGen
  <2>2. worker'[t].snap.version <= control'.version
    BY SMTT(60), <1>a, <1>1, <1>4
  <2> QED BY <1>1, <1>4, <2>1, <2>2 DEF WorkerFits, Bound
<1>7. PromptFits(t)'
  BY <1>a, <1>1 DEF PromptFits
<1> QED BY <1>2, <1>5, <1>6, <1>7, TaskKeeps

\* A dispatch that rests, or gives up, asks nothing of the stores.
LEMMA IdleFits ==
    ASSUME NEW t \in Tasks, worker'[t].pc = "idle"
    PROVE  WorkerFits(t)'
BY DEF WorkerFits, Bound

\* A dispatch about to requeue relies on nothing.
LEMMA RequeueFits ==
    ASSUME SessionInv, NEW t \in Tasks, StoreStep(t), worker[t].pc \in Bound, worker'[t].pc = "requeue",
           worker'[t].snap = worker[t].snap, attempt'[t] = attempt[t],
           \A g \in Gens : turn'[<<t, g>>] = "open" => turn[<<t, g>>] = "open" \/ attempt[t].gen = g
    PROVE  WorkerFits(t)' /\ PromptFits(t)'
<1>1. WorkerFits(t) /\ PromptFits(t) /\ VersionGrows /\ worker[t].snap.version \in Nat /\ control.version \in Nat
  BY StepLocal, WorkerIs, TypesAre DEF SessionInv, WorkerInv, PromptInv
<1>2. /\ worker[t].snap.version <= control.version /\ (worker[t].snap.version = control.version => worker[t].snap = control)
      /\ attempt[t].state = "Starting"
  BY <1>1 DEF WorkerFits, Bound
<1>3. worker[t].snap.version <= control'.version /\ (worker[t].snap.version = control'.version => worker[t].snap = control')
  BY SMTT(60), <1>1, <1>2 DEF VersionGrows
<1>4. WorkerFits(t)'
  BY <1>2, <1>3 DEF WorkerFits, Bound
<1>5. PromptFits(t)'
  BY <1>1, <1>2 DEF PromptFits
<1> QED BY <1>4, <1>5

\* Binding the attempt to the planned generation keeps the invariant.
LEMMA BindKeeps ==
    ASSUME SessionInv, NEW t \in Tasks, bindAttempt(t)
    PROVE  SessionInv' /\ StoreStep(t)
<1>a. TypeOK /\ PromptFits(t) /\ WorkerFits(t) /\ TurnInv
  BY DEF SessionInv, StoreInv, PromptInv, WorkerInv
<1> DEFINE y == BoundAs(attempt[t], "Starting", LeaseGen(t))
<1>1. /\ worker[t].pc = "planned" /\ attempt[t].state \in {"Reserved", "Starting"} /\ turn' = turn /\ control' = control
      /\ cleanup' = cleanup /\ stale' = stale /\ cancelled' = cancelled /\ crashes' = crashes /\ (Whole \/ Cut)
  BY <1>a DEF bindAttempt, stores, WorkerFits
<1>2. StoreStep(t)
  BY DEF bindAttempt, StoreStep
<1>3. LeaseGen(t) \in Gens /\ LeaseGen(t) \in 0 .. MaxGen
  BY LeaseGenIs, Numbers DEF bindAttempt
<1>4. attempt' = attempt \/ Becomes(t, y)
  BY DEF bindAttempt, Binds, Becomes, BoundAs
<1>5. y \in Attempts /\ y.state = "Starting" /\ y.gen = LeaseGen(t)
  BY <1>a, <1>3, BoundIs, WorkerIs
<1>6. Rests(t) \/ (Goes(t, "bound") /\ (Becomes(t, y) \/ (attempt[t].state = "Starting" /\ attempt' = attempt)))
  BY DEF bindAttempt, Binds, Becomes, BoundAs
<1> HIDE DEF y
<1>7. OnlyAttempt(t) /\ (attempt' = attempt \/ attempt'[t] = y)
  BY <1>a, <1>4, <1>5, AttemptMoves, Stays
<1>8. EndedStay
  BY <1>1, <1>7 DEF OnlyAttempt, EndedStay
<1>9. PromptFits(t)'
  <2>1. CASE attempt' = attempt
    BY <1>a, <1>1, <2>1 DEF PromptFits
  <2>2. CASE attempt'[t] = y
    <3>1. ASSUME NEW g \in Gens, turn[<<t, g>>] = "open" PROVE LeaseGen(t) = g
      <4>1. control.lease = Key(t, g)
        BY <1>a, <3>1, KeyOf DEF TurnInv
      <4> QED BY <1>a, <1>1, <4>1 DEF WorkerFits
    <3> QED BY <1>1, <1>5, <2>2, <3>1 DEF PromptFits
  <2> QED BY <1>7, <2>1, <2>2
<1>10. OnlyWorker(t) /\ WorkerFits(t)'
  <2>1. CASE Rests(t)
    BY <1>a, <2>1, RestMoves, IdleFits
  <2>2. CASE Goes(t, "bound") /\ (Becomes(t, y) \/ (attempt[t].state = "Starting" /\ attempt' = attempt))
    <3>1. OnlyWorker(t) /\ worker'[t].pc = "bound" /\ worker'[t].snap = worker[t].snap
      BY <1>a, <2>2, GoMoves
    <3>2. attempt'[t].state = "Starting"
      BY <1>a, <1>5, <2>2, AttemptMoves
    <3>3. LeaseGen(t)' = LeaseGen(t)
      BY <3>1 DEF LeaseGen
    <3> QED BY <1>a, <1>1, <1>3, <3>1, <3>2, <3>3 DEF WorkerFits, Bound
  <2> QED BY <1>6, <2>1, <2>2
<1>11. TaskStep(t)
  BY <1>a, <1>1, <1>2, <1>7, <1>8, <1>10, FaultTypes, TypesSplit DEF TaskStep, RestTypes
<1> QED BY <1>2, <1>9, <1>10, <1>11, TaskKeeps

\* What AcquireSessionMutationLease finds when it does not refuse: the Task's mirrored lease, or a
\* control that is as the dispatch saw it, over a Lease that is free for the next generation
\* or taken for it by this Task.
LEMMA AcquireFinds ==
    ASSUME SessionInv, NEW t \in Tasks, worker[t].pc = "bound", ~AcquireRefused(t), control.lease # Key(t, LeaseGen(t))
    PROVE  /\ cleanup.state = "none" /\ control.lease = NoOp /\ control.avail = "Available"
           /\ LeaseGen(t) = control.gen + 1 /\ (Unheld \/ Owned(t, LeaseGen(t)))
           /\ PendingRelease => Unheld
<1> DEFINE g == LeaseGen(t)
           snap == worker[t].snap
<1>a. TypeOK /\ WorkerFits(t)
  BY DEF SessionInv, WorkerInv
<1>1. cleanup.state = "none"
  BY DEF AcquireRefused, sessionCleanupPending
<1>2. ~Mirrored(t, g)
  BY DEF Mirrored
<1>3. /\ control.version = snap.version /\ control.gen = snap.gen /\ control.avail = "Available" /\ control.lease = NoOp
      /\ ~PendingRelease \/ ReleasePendingHolder
      /\ ~LeaseTaken(t, g)
      /\ lease.holder = NoOp \/ PendingRelease => lease.gen = snap.gen
  BY <1>2 DEF AcquireRefused
<1>4. snap = control
  BY <1>a, <1>3 DEF WorkerFits
<1>5. g = control.gen + 1
  <2>1. Key(t, control.gen) # NoOp
    BY SMTT(60), KeyIs, NoOpIs
  <2> QED BY <1>3, <1>4, <2>1 DEF LeaseGen
<1>6. lease.holder = NoOp => Unheld
  BY <1>3 DEF Unheld
<1>7. PendingRelease => Unheld
  <2> SUFFICES ASSUME PendingRelease PROVE Unheld
    OBVIOUS
  <2>1. lease.gen = control.gen /\ lease.holder[1] = "turn" /\ control.op = <<"release", lease.holder[2], lease.gen>>
    BY <1>3 DEF ReleasePendingHolder
  <2>2. lease.holder \in {NoOp} \cup Held \cup Reconciliations
    BY <1>a, TypesAre
  <2>3. lease.holder \in Held
    BY <2>1, <2>2, NoOpIs, ReconcileIs
  <2> QED BY <2>1, <2>3 DEF Unheld
<1>8. lease.holder # NoOp /\ ~PendingRelease => Owned(t, g)
  BY SMTT(60), <1>3 DEF LeaseTaken, Owned
<1> QED BY <1>1, <1>3, <1>5, <1>6, <1>7, <1>8

\* An acquisition grants the Session, completes its mirror or an earlier release, or finds what it asks for.
LEMMA AcquireSteps ==
    ASSUME SessionInv, NEW t \in Tasks, AcquireSessionMutationLease(t)
    PROVE  /\ StoreStep(t) /\ (Whole \/ Cut)
           /\ \/ Goes(t, "requeue")
              \/ Takes(t, "leased", control') /\ control'.gen = LeaseGen(t) /\ control'.lease = Key(t, LeaseGen(t))
<1> DEFINE g == LeaseGen(t)
<1>a. TypeOK /\ LeaseInv /\ control \in Controls
  BY DEF SessionInv, StoreInv, TypeOK
<1>1. /\ worker[t].pc = "bound" /\ UNCHANGED <<claim, turn, transcript, attempt, cleanup>>
      /\ g \in Gens /\ Key(t, g) # NoOp /\ Key(t, g)[3] = g /\ Key(t, g) \in Held /\ g \in 0 .. MaxGen
  BY SMTT(60), LeaseGenIs, KeyApart, KeyIs, KeyHeld, Numbers DEF AcquireSessionMutationLease, Bound
<1>2. CASE AcquireRefused(t)
  <2>1. Whole /\ Goes(t, "requeue") /\ UNCHANGED <<lease, control>>
    BY <1>2 DEF AcquireSessionMutationLease
  <2> QED BY <1>1, <2>1 DEF StoreStep, stores
<1>3. CASE ~AcquireRefused(t) /\ control.lease = Key(t, g)
  <2>1. UNCHANGED <<lease, control>>
    BY <1>3 DEF AcquireSessionMutationLease
  <2>2. Whole \/ Cut
    BY <1>3 DEF AcquireSessionMutationLease
  <2>3. Goes(t, "requeue") \/ Takes(t, "leased", control')
    BY <1>3 DEF AcquireSessionMutationLease, Takes
  <2>4. control.gen = g
    BY <1>a, <1>1, <1>3 DEF LeaseInv
  <2> QED BY <1>1, <1>3, <2>1, <2>2, <2>3, <2>4 DEF StoreStep, stores
<1>4. CASE ~AcquireRefused(t) /\ control.lease # Key(t, g)
  <2>1. PICK n \in 0 .. 3 :
            /\ lease' = CASE n = 0 -> lease
                          [] n = 1 -> IF PendingRelease THEN Cleared ELSE lease
                          [] n >= 2 -> Taken(t, g)
            /\ control' = IF n = 3 THEN Mirror(control, g, Key(t, g)) ELSE control
            /\ \/ n = 3 /\ Whole /\ Takes(t, "leased", control')
               \/ Cut /\ Goes(t, "requeue")
    BY SMTT(60), <1>4 DEF AcquireSessionMutationLease, Taken, Takes, Mirror
  <2>2. /\ cleanup.state = "none" /\ control.lease = NoOp /\ control.avail = "Available"
        /\ g = control.gen + 1 /\ (Unheld \/ Owned(t, g)) /\ (PendingRelease => Unheld)
    BY <1>1, <1>4, AcquireFinds
  <2> HIDE DEF g
  <2>3. StoreStep(t)
    <3>1. CASE n = 0 \/ (n = 1 /\ ~PendingRelease)
      BY SMTT(60), <1>1, <2>1, <3>1 DEF StoreStep, stores
    <3>2. CASE n = 1 /\ PendingRelease
      BY SMTT(60), <1>1, <2>1, <2>2, <3>2 DEF StoreStep, Granting
    <3>3. CASE n = 2
      BY SMTT(60), <1>1, <2>1, <2>2, <3>3 DEF StoreStep, Granting
    <3>4. CASE n = 3
      BY SMTT(60), <1>1, <2>1, <2>2, <3>4 DEF StoreStep, Granting
    <3> QED BY SMTT(60), <3>1, <3>2, <3>3, <3>4
  <2>4. Mirror(control, g, Key(t, g)).gen = g /\ Mirror(control, g, Key(t, g)).lease = Key(t, g)
    BY SMTT(60), <1>a, <1>1, MirrorIs
  <2> QED BY <2>1, <2>3, <2>4 DEF g
<1> QED BY <1>2, <1>3, <1>4

\* An acquisition keeps the invariant.
LEMMA AcquireKeeps ==
    ASSUME SessionInv, NEW t \in Tasks, AcquireSessionMutationLease(t)
    PROVE  SessionInv' /\ StoreStep(t)
<1>a. TypeOK /\ PromptFits(t) /\ WorkerFits(t)
  BY DEF SessionInv, PromptInv, WorkerInv
<1>1. /\ worker[t].pc = "bound" /\ attempt' = attempt /\ turn' = turn
      /\ cleanup' = cleanup /\ stale' = stale /\ cancelled' = cancelled /\ crashes' = crashes
  BY DEF AcquireSessionMutationLease
<1>2. /\ StoreStep(t) /\ (Whole \/ Cut)
      /\ \/ Goes(t, "requeue")
         \/ Takes(t, "leased", control') /\ control'.gen = LeaseGen(t) /\ control'.lease = Key(t, LeaseGen(t))
  BY AcquireSteps
<1>3. worker[t].pc \in Bound /\ LeaseGen(t) \in Gens /\ attempt[t].state = "Starting"
  BY <1>a, <1>1, LeaseGenIs DEF Bound, WorkerFits
<1>4. control' \in Controls /\ control'.version \in Nat
  BY <1>1, <1>a, <1>2, StepKeeps, Stays DEF StoreTypes, Controls
<1>5. OnlyWorker(t) /\ WorkerFits(t)' /\ PromptFits(t)'
  <2>1. CASE Goes(t, "requeue")
    BY <1>a, <1>1, <1>2, <1>3, <2>1, GoMoves, RequeueFits
  <2>2. CASE Takes(t, "leased", control') /\ control'.gen = LeaseGen(t) /\ control'.lease = Key(t, LeaseGen(t))
    <3>1. OnlyWorker(t) /\ worker'[t].pc = "leased" /\ worker'[t].snap = control'
      BY <1>a, <1>4, <2>2, TakeMoves
    <3>2. LeaseGen(t)' = LeaseGen(t)
      BY <2>2, <3>1 DEF LeaseGen
    <3>3. WorkerFits(t)'
      BY SMTT(60), <1>1, <1>3, <1>4, <2>2, <3>1, <3>2 DEF WorkerFits, Bound
    <3>4. PromptFits(t)'
      BY <1>a, <1>1 DEF PromptFits
    <3> QED BY <3>1, <3>3, <3>4
  <2> QED BY <1>2, <2>1, <2>2
<1>6. TaskStep(t)
  BY <1>a, <1>1, <1>2, <1>5, FaultTypes, Stays, TypesSplit DEF TaskStep, RestTypes
<1> QED BY <1>2, <1>5, <1>6, TaskKeeps

\* Opening the turn keeps the invariant.
LEMMA CreateKeeps ==
    ASSUME SessionInv, NEW t \in Tasks, CreateSessionTurn(t)
    PROVE  SessionInv' /\ StoreStep(t)
<1> DEFINE g == LeaseGen(t)
<1>a. TypeOK /\ PromptFits(t) /\ WorkerFits(t) /\ TurnInv
  BY DEF SessionInv, StoreInv, PromptInv, WorkerInv
<1>1. /\ worker[t].pc = "leased" /\ attempt' = attempt /\ lease' = lease /\ control' = control /\ claim' = claim /\ transcript' = transcript
      /\ cleanup' = cleanup /\ stale' = stale /\ cancelled' = cancelled /\ crashes' = crashes /\ (Whole \/ Cut)
  BY DEF CreateSessionTurn
<1>2. worker[t].pc \in Bound /\ g \in Gens /\ attempt[t].state = "Starting"
  BY <1>a, <1>1, LeaseGenIs DEF Bound, WorkerFits
<1>3. <<t, g>> \in Keys /\ <<t, g>>[1] = t /\ <<t, g>>[2] = g
  BY <1>2, KeyOf
<1>4. \/ /\ turn[<<t, g>>] = "open" \/ (turn[<<t, g>>] = "none" /\ Mirrored(t, g) /\ attempt[t].gen = g)
         /\ turn' = [turn EXCEPT ![<<t, g>>] = "open"]
         /\ Goes(t, "opened") \/ Goes(t, "requeue")
      \/ turn[<<t, g>>] = "none" /\ Goes(t, "release") /\ turn' = turn
  BY DEF CreateSessionTurn
<1>5. Goes(t, "opened") \/ Goes(t, "requeue") \/ Goes(t, "release")
  BY <1>4
<1> HIDE DEF g
<1>6. turn[<<t, g>>] = "open" => control.lease = Key(t, g)
  BY <1>a, <1>3 DEF TurnInv
<1>7. StoreStep(t)
  BY <1>1, <1>2, <1>4, <1>6 DEF StoreStep, Opening, Mirrored, stores
<1>8. OnlyWorker(t)
  BY <1>a, <1>5, GoMoves
<1>c. \A h \in Gens : turn'[<<t, h>>] = "open" => turn[<<t, h>>] = "open" \/ attempt[t].gen = h
  <2> SUFFICES ASSUME NEW h \in Gens, turn'[<<t, h>>] = "open", turn[<<t, h>>] # "open" PROVE attempt[t].gen = h
    OBVIOUS
  <2>1. <<t, h>> \in Keys /\ <<t, h>>[2] = h
    BY KeyOf
  <2>2. <<t, h>> = <<t, g>>
    BY <1>a, <1>3, <1>4, <2>1 DEF TypeOK
  <2>3. h = g
    BY <1>3, <2>1, <2>2
  <2> QED BY <1>4, <2>3
<1>9. WorkerFits(t)' /\ PromptFits(t)'
  <2>1. CASE Goes(t, "requeue")
    BY <1>a, <1>1, <1>2, <1>7, <1>c, <2>1, GoMoves, RequeueFits
  <2>2. CASE Goes(t, "opened") /\ turn' = [turn EXCEPT ![<<t, g>>] = "open"]
    <3>1. worker'[t].pc = "opened" /\ worker'[t].snap = worker[t].snap
      BY <1>a, <2>2, GoMoves
    <3>2. turn'[<<t, g>>] = "open"
      BY <1>a, <1>3, <2>2 DEF TypeOK
    <3>3. LeaseGen(t)' = LeaseGen(t)
      BY <3>1 DEF LeaseGen
    <3>4. attempt[t].gen = g
      BY <1>a, <1>2, <1>4, <2>2, <3>2 DEF PromptFits
    <3>5. WorkerFits(t)'
      BY <1>a, <1>1, <1>2, <3>1, <3>2, <3>3, <3>4 DEF WorkerFits, Bound, g
    <3>6. PromptFits(t)'
      BY <1>a, <1>1, <1>2, <1>c DEF PromptFits
    <3> QED BY <3>5, <3>6
  <2>3. CASE turn[<<t, g>>] = "none" /\ Goes(t, "release") /\ turn' = turn
    <3>1. worker'[t].pc = "release" /\ worker'[t].snap = worker[t].snap
      BY <1>a, <2>3, GoMoves
    <3>2. LeaseGen(t)' = LeaseGen(t)
      BY <3>1 DEF LeaseGen
    <3>3. WorkerFits(t)'
      BY <1>a, <1>1, <1>2, <2>3, <3>1, <3>2 DEF WorkerFits, Bound, g
    <3>4. PromptFits(t)'
      BY <1>a, <1>1, <2>3 DEF PromptFits
    <3> QED BY <3>3, <3>4
  <2> QED BY <1>4, <2>1, <2>2, <2>3
<1>10. TaskStep(t)
  BY <1>a, <1>1, <1>7, <1>8, FaultTypes, Stays, TypesSplit DEF TaskStep, RestTypes
<1> QED BY <1>7, <1>9, <1>10, TaskKeeps

\* A release that fits takes the lease of its generation back, as far as it gets.
LEMMA ReleaseSteps ==
    ASSUME SessionInv, NEW t \in Tasks, NEW g \in Gens, NEW n \in 0 .. 2, NEW snap, turn[<<t, g>>] = "none",
           ReleaseFits(snap, t, g), ReleaseWrites(t, g, n), UNCHANGED <<claim, turn, transcript, cleanup>>
    PROVE  StoreStep(t)
<1>1. /\ cleanup.state = "none" /\ lease.gen = g /\ lease.holder \in {NoOp, Key(t, g)} /\ Key(t, g) # NoOp
      /\ (control.op = <<"release", t, g>> /\ control.lease = NoOp) \/ control.lease = Key(t, g)
  BY KeyApart DEF ReleaseFits, sessionCleanupPending, Mirrored
<1>2. /\ control' = IF n >= 1 /\ control.lease = Key(t, g) THEN Freed(control, <<"release", t, g>>) ELSE control
      /\ lease' = IF n >= 2 THEN Cleared ELSE lease
  BY DEF ReleaseWrites, Freed
<1>3. CASE n = 0
  BY SMTT(60), <1>2, <1>3 DEF StoreStep, stores
<1>4. CASE n # 0 /\ control.lease = Key(t, g)
  BY SMTT(60), <1>1, <1>2, <1>4 DEF StoreStep, Releasing
<1>5. CASE n # 0 /\ control.op = <<"release", t, g>> /\ control.lease = NoOp
  BY <1>1, <1>2, <1>5 DEF StoreStep, Releasing
<1> QED BY <1>1, <1>3, <1>4, <1>5

\* Releasing the lease after a failed opening keeps the invariant.
LEMMA GiveUpKeeps ==
    ASSUME SessionInv, NEW t \in Tasks, ReleaseMutationLease(t)
    PROVE  SessionInv' /\ StoreStep(t)
<1>a. TypeOK /\ WorkerFits(t)
  BY DEF SessionInv, WorkerInv
<1>1. /\ worker[t].pc = "release" /\ attempt' = attempt /\ claim' = claim /\ transcript' = transcript /\ turn' = turn
      /\ cleanup' = cleanup /\ stale' = stale /\ cancelled' = cancelled /\ crashes' = crashes
      /\ Goes(t, "requeue")
  BY DEF ReleaseMutationLease
<1>2. worker[t].pc \in Bound /\ LeaseGen(t) \in Gens /\ turn[<<t, LeaseGen(t)>>] = "none"
  BY <1>a, <1>1, LeaseGenIs DEF Bound, WorkerFits
<1>3. StoreStep(t) /\ (Whole \/ Cut)
  <2>1. CASE ReleaseFits(worker[t].snap, t, LeaseGen(t)) /\ \E n \in 0 .. 2 : ReleaseWrites(t, LeaseGen(t), n) /\ IF n = 2 THEN Whole ELSE Cut
    BY <1>1, <1>2, <2>1, ReleaseSteps
  <2>2. CASE Whole /\ UNCHANGED <<lease, control>>
    BY <1>1, <2>2 DEF StoreStep, stores
  <2> QED BY <2>1, <2>2 DEF ReleaseMutationLease
<1>4. OnlyWorker(t) /\ WorkerFits(t)' /\ PromptFits(t)'
  BY <1>a, <1>1, <1>2, <1>3, GoMoves, RequeueFits
<1>5. TaskStep(t)
  BY <1>a, <1>1, <1>3, <1>4, FaultTypes, Stays, TypesSplit DEF TaskStep, RestTypes
<1> QED BY <1>3, <1>4, <1>5, TaskKeeps
\* The attempt of a dispatch that rests goes back to Reserved, ends, or stays, while the stores
\* stay as they are.
LEMMA RestKeeps ==
    ASSUME SessionInv, NEW t \in Tasks, UNCHANGED stores, cleanup' = cleanup, RestTypes', OnlyWorker(t), worker'[t].pc = "idle",
           attempt[t].state # "Ended", OnlyAttempt(t), attempt'[t] = attempt[t] \/ attempt'[t].state \in {"Reserved", "Ended"}
    PROVE  SessionInv' /\ StoreStep(t)
<1>1. StoreStep(t)
  BY DEF StoreStep
<1>2. EndedStay
  BY DEF EndedStay, OnlyAttempt
<1>3. TaskStep(t)
  BY <1>1, <1>2 DEF TaskStep
<1>4. PromptFits(t) /\ turn' = turn
  BY DEF SessionInv, PromptInv, stores
<1>5. PromptFits(t)'
  BY <1>4 DEF PromptFits
<1> QED BY <1>1, <1>3, <1>5, IdleFits, TaskKeeps

\* The three ends of an attempt.
LEMMA UnboundIs ==
    ASSUME SessionInv, NEW t \in Tasks, Unbound(t)
    PROVE  OnlyAttempt(t) /\ attempt'[t].state = "Reserved"
<1> DEFINE y == BoundAs(attempt[t], "Reserved", 0)
<1>1. y \in Attempts /\ y.state = "Reserved"
  BY SMTT(60), BoundIs, WorkerIs, Numbers DEF SessionInv
<1>2. Becomes(t, y)
  BY DEF Unbound, Becomes, BoundAs
<1> HIDE DEF y
<1> QED BY <1>1, <1>2, AttemptMoves DEF SessionInv

\* What ending an attempt does to it.
LEMMA EndsIs ==
    ASSUME SessionInv, NEW t \in Tasks, NEW pub \in Deliveries, Ends(t, pub)
    PROVE  OnlyAttempt(t) /\ attempt'[t].state = "Ended"
<1> DEFINE y == EndedAs(attempt[t], pub, claim.sha)
<1>a. attempt[t] \in Attempts /\ claim.sha \in 0 .. MaxGen
  BY WorkerIs, TypesAre DEF SessionInv
<1>1. y \in Attempts /\ y.state = "Ended"
  BY <1>a, EndedIs
<1>2. Becomes(t, y)
  BY DEF Ends, Becomes, EndedAs
<1> HIDE DEF y
<1> QED BY <1>1, <1>2, AttemptMoves DEF SessionInv

\* Requeueing keeps the invariant.
LEMMA RequeueKeeps ==
    ASSUME SessionInv, NEW t \in Tasks, requeuePreSubmissionTask(t)
    PROVE  SessionInv' /\ StoreStep(t)
<1>1. /\ UNCHANGED stores /\ cleanup' = cleanup /\ attempt[t].state = "Starting" /\ Rests(t) /\ (Whole \/ Cut)
      /\ stale' = stale /\ cancelled' = cancelled /\ crashes' = crashes
      /\ Unbound(t) \/ attempt' = attempt
  BY DEF requeuePreSubmissionTask
<1>2. TypeOK
  BY DEF SessionInv
<1>3. OnlyWorker(t) /\ worker'[t].pc = "idle" /\ RestTypes'
  BY <1>1, <1>2, RestMoves, FaultTypes, TypesSplit DEF RestTypes
<1>4. OnlyAttempt(t) /\ (attempt'[t] = attempt[t] \/ attempt'[t].state \in {"Reserved", "Ended"})
  BY <1>1, <1>2, UnboundIs, Stays
<1> QED BY <1>1, <1>3, <1>4, RestKeeps

\* A failed RuntimeSession keeps the invariant.
LEMMA FailKeeps ==
    ASSUME SessionInv, NEW t \in Tasks, runtimeSessionFails(t)
    PROVE  SessionInv' /\ StoreStep(t)
<1>1. /\ UNCHANGED stores /\ cleanup' = cleanup /\ attempt' = attempt /\ Goes(t, "requeue") /\ (Whole \/ Cut)
      /\ stale' = stale /\ cancelled' = cancelled /\ crashes' = crashes /\ worker[t].pc \in Bound /\ turn' = turn
  BY DEF runtimeSessionFails, Bound, stores
<1>2. TypeOK
  BY DEF SessionInv
<1>3. StoreStep(t)
  BY <1>1 DEF StoreStep
<1>4. OnlyWorker(t) /\ WorkerFits(t)' /\ PromptFits(t)'
  BY <1>1, <1>2, <1>3, GoMoves, RequeueFits
<1>5. TaskStep(t)
  BY <1>1, <1>2, <1>3, <1>4, FaultTypes, Stays, TypesSplit DEF TaskStep, RestTypes
<1> QED BY <1>3, <1>4, <1>5, TaskKeeps

\* Committing the runtime generation keeps the invariant.
LEMMA CommitKeeps ==
    ASSUME SessionInv, NEW t \in Tasks, CommitSessionRuntimeGeneration(t)
    PROVE  SessionInv' /\ StoreStep(t)
<1> DEFINE g == LeaseGen(t)
<1>b. PromptFits(t)
  BY DEF SessionInv, PromptInv
<1>a. TypeOK /\ WorkerFits(t) /\ LeaseInv /\ control \in Controls
  BY DEF SessionInv, StoreInv, WorkerInv, TypeOK
<1>1. /\ worker[t].pc = "opened" /\ attempt' = attempt /\ lease' = lease /\ claim' = claim /\ transcript' = transcript /\ turn' = turn
      /\ cleanup' = cleanup /\ stale' = stale /\ cancelled' = cancelled /\ crashes' = crashes /\ (Whole \/ Cut)
  BY DEF CommitSessionRuntimeGeneration
<1>2. /\ worker[t].pc \in Bound /\ g \in Gens /\ attempt[t].gen = g /\ attempt[t].state = "Starting"
      /\ turn[<<t, attempt[t].gen>>] = "open"
  BY <1>a, <1>1, LeaseGenIs DEF Bound, WorkerFits
<1>3. \/ Goes(t, "requeue") /\ control' = control
      \/ /\ control.lease = Key(t, g)
         /\ control' = control \/ control' = Bumped(control)
         /\ Goes(t, "requeue") \/ Takes(t, "ready", control')
  BY DEF CommitSessionRuntimeGeneration, Mirrored, Bumped, Takes
<1> HIDE DEF g
<1>4. Key(t, g) # NoOp /\ Key(t, g)[3] = g
  BY SMTT(60), <1>2, KeyApart, KeyIs
<1>5. StoreStep(t)
  BY <1>1, <1>3, <1>4 DEF StoreStep, Bumping, stores
<1>6. OnlyWorker(t) /\ WorkerFits(t)' /\ PromptFits(t)'
  <2>1. CASE Goes(t, "requeue")
    BY <1>a, <1>1, <1>2, <1>5, <2>1, GoMoves, RequeueFits
  <2>2. CASE control.lease = Key(t, g) /\ (control' = control \/ control' = Bumped(control)) /\ Takes(t, "ready", control')
    <3>1. control' \in Controls /\ control'.lease = Key(t, g) /\ control'.gen = g
      <4>1. control.gen = g
        BY <1>a, <1>4, <2>2 DEF LeaseInv
      <4> QED BY <1>a, <2>2, <4>1, BumpedIs
    <3>2. OnlyWorker(t) /\ worker'[t].pc = "ready" /\ worker'[t].snap = control'
      BY <1>a, <2>2, <3>1, TakeMoves
    <3>3. LeaseGen(t)' = g /\ control'.version \in Nat
      BY <3>1, <3>2 DEF LeaseGen, Controls
    <3>4. worker'[t].snap.version <= control'.version
      BY SMTT(60), <3>2, <3>3
    <3>5. WorkerFits(t)'
      BY <1>1, <1>2, <3>1, <3>2, <3>3, <3>4 DEF WorkerFits, Bound
    <3>6. PromptFits(t)'
      BY <1>b, <1>1 DEF PromptFits
    <3> QED BY <3>2, <3>5, <3>6
  <2> QED BY <1>3, <2>1, <2>2
<1>7. TaskStep(t)
  BY <1>a, <1>1, <1>5, <1>6, FaultTypes, Stays, TypesSplit DEF TaskStep, RestTypes
<1> QED BY <1>5, <1>6, <1>7, TaskKeeps

\* A prompt is submitted by a dispatch whose turn is open.
LEMMA SubmitKeeps ==
    ASSUME SessionInv, NEW t \in Tasks, submitPrompt(t)
    PROVE  SessionInv' /\ StoreStep(t)
<1>a. TypeOK /\ WorkerFits(t)
  BY DEF SessionInv, WorkerInv
<1> DEFINE y == [attempt[t] EXCEPT !.state = "Submitted"]
<1>1. /\ UNCHANGED stores /\ cleanup' = cleanup /\ worker[t].pc = "ready" /\ attempt[t].state = "Starting" /\ (Whole \/ Cut)
      /\ stale' = stale /\ cancelled' = cancelled /\ crashes' = crashes /\ turn' = turn /\ control' = control
  BY DEF submitPrompt, stores
<1>2. /\ worker[t].pc \in Bound /\ attempt[t].gen = LeaseGen(t) /\ attempt[t].gen \in Gens /\ turn[<<t, attempt[t].gen>>] = "open"
      /\ worker[t].snap.version <= control.version /\ (worker[t].snap.version = control.version => worker[t].snap = control)
  BY <1>a, <1>1 DEF WorkerFits, Bound
<1>3. StoreStep(t)
  BY <1>1 DEF StoreStep
<1>4. y \in Attempts /\ y.state = "Submitted" /\ y.gen = attempt[t].gen
  BY <1>a, WorkerIs DEF Attempts
<1>5. (Goes(t, "running") /\ Becomes(t, y)) \/ (Goes(t, "requeue") /\ attempt' = attempt)
  BY <1>a DEF submitPrompt, Becomes, TypeOK
<1> HIDE DEF y
<1>6. CASE Goes(t, "requeue") /\ attempt' = attempt
  <2>1. OnlyWorker(t) /\ WorkerFits(t)' /\ PromptFits(t)'
    BY <1>a, <1>1, <1>2, <1>3, <1>6, GoMoves, RequeueFits
  <2>2. TaskStep(t)
    BY <1>a, <1>1, <1>3, <1>6, <2>1, FaultTypes, Stays, TypesSplit DEF TaskStep, RestTypes
  <2> QED BY <1>3, <2>1, <2>2, TaskKeeps
<1>7. CASE Goes(t, "running") /\ Becomes(t, y)
  <2>1. OnlyWorker(t) /\ worker'[t].pc = "running" /\ worker'[t].snap = worker[t].snap
    BY <1>a, <1>7, GoMoves
  <2>2. OnlyAttempt(t) /\ attempt'[t] = y
    BY <1>a, <1>4, <1>7, AttemptMoves
  <2>3. EndedStay
    BY <1>1, <2>2 DEF EndedStay, OnlyAttempt
  <2>4. WorkerFits(t)' /\ PromptFits(t)'
    BY <1>1, <1>2, <1>4, <2>1, <2>2 DEF WorkerFits, PromptFits, Bound
  <2>5. TaskStep(t)
    BY <1>a, <1>1, <1>3, <2>1, <2>2, <2>3, FaultTypes, TypesSplit DEF TaskStep, RestTypes
  <2> QED BY <1>3, <2>4, <2>5, TaskKeeps
<1> QED BY <1>5, <1>6, <1>7

\* A prompt proven not accepted goes back to Reserved: this keeps the invariant.
LEMMA NotAcceptedKeeps ==
    ASSUME SessionInv, NEW t \in Tasks, requeueProvenNotAccepted(t)
    PROVE  SessionInv' /\ StoreStep(t)
<1>a. TypeOK /\ WorkerFits(t)
  BY DEF SessionInv, WorkerInv
<1>1. /\ UNCHANGED stores /\ cleanup' = cleanup /\ Rests(t) /\ worker[t].pc = "running" /\ (Whole \/ Cut)
      /\ stale' = stale /\ cancelled' = cancelled /\ crashes' = crashes
  BY DEF requeueProvenNotAccepted
<1>2. PICK g \in {0, attempt[t].gen} : Becomes(t, BoundAs(attempt[t], "Reserved", g))
  BY DEF requeueProvenNotAccepted, Becomes, BoundAs
<1>3. g \in 0 .. MaxGen
  BY SMTT(60), <1>a, WorkerIs, Numbers
<1> DEFINE y == BoundAs(attempt[t], "Reserved", g)
<1>4. y \in Attempts /\ y.state = "Reserved" /\ Becomes(t, y)
  BY <1>a, <1>2, <1>3, BoundIs, WorkerIs
<1> HIDE DEF y
<1>5. OnlyAttempt(t) /\ attempt'[t].state = "Reserved"
  BY <1>a, <1>4, AttemptMoves
<1>6. attempt[t].state # "Ended"
  BY <1>a, <1>1 DEF WorkerFits
<1>7. OnlyWorker(t) /\ worker'[t].pc = "idle" /\ RestTypes'
  BY <1>a, <1>1, RestMoves, FaultTypes, TypesSplit DEF RestTypes
<1> QED BY <1>1, <1>5, <1>6, <1>7, RestKeeps

\* Settling a prompt, or its deadline, keeps the invariant.
LEMMA SettleKeeps ==
    ASSUME SessionInv, NEW t \in Tasks, settlePrompt(t) \/ deadlineBeforeSubmission(t)
    PROVE  SessionInv' /\ StoreStep(t)
<1>a. TypeOK /\ WorkerFits(t)
  BY DEF SessionInv, WorkerInv
<1>1. /\ UNCHANGED stores /\ cleanup' = cleanup /\ Rests(t) /\ worker[t].pc \in {"running", "opened", "ready"}
      /\ stale' = stale /\ cancelled' = cancelled /\ faults' = faults /\ crashes' = crashes
      /\ \E pub \in Deliveries : Ends(t, pub)
  BY DEF settlePrompt, deadlineBeforeSubmission, Deliveries
<1>2. attempt[t].state # "Ended"
  BY <1>a, <1>1 DEF WorkerFits, Bound
<1>3. OnlyWorker(t) /\ worker'[t].pc = "idle" /\ RestTypes'
  BY <1>a, <1>1, RestMoves, TypesSplit DEF RestTypes
<1>4. OnlyAttempt(t) /\ attempt'[t].state = "Ended"
  BY <1>1, EndsIs
<1> QED BY <1>1, <1>2, <1>3, <1>4, RestKeeps

\* FinalizeSessionTurn works on the mirrored lease of its turn, on a control that has given this
\* lease back, or for a generation that is over.
LEMMA FinalizeSteps ==
    ASSUME SessionInv, NEW t \in Tasks, FinalizeSessionTurn(t)
    PROVE  StoreStep(t) /\ (Whole \/ Cut)
<1> DEFINE g == attempt[t].gen
           k == <<t, g>>
<1>a. TypeOK /\ LeaseInv /\ TurnInv /\ BaseInv
  BY DEF SessionInv, StoreInv
<1>1. /\ attempt[t].state = "Ended" /\ g > 0 /\ turn[k] \in {"open", "finalized"} /\ UNCHANGED <<cleanup, attempt>>
      /\ Whole \/ Cut
  BY DEF FinalizeSessionTurn
<1>2. g \in Gens
  BY <1>a, <1>1, WorkerIs, Numbers
<1>3. k \in Keys /\ k[1] = t /\ k[2] = g /\ Key(t, g) # NoOp
  BY <1>2, KeyOf, KeyApart
<1>4. CASE turn[k] # "open" /\ control.gen > g /\ turn' = [turn EXCEPT ![k] = "projected"] /\ UNCHANGED <<lease, control, claim, transcript>>
  <2>1. Behind(t, g)
    BY <1>1, <1>4 DEF Behind
  <2> QED BY <1>1, <1>2, <2>1 DEF StoreStep
<1>5. ASSUME NEW n \in 1 .. 5, FinalizationFits(t), n = 1 => turn[k] = "open",
             turn' = [turn EXCEPT ![k] = IF n = 5 THEN "projected" ELSE "finalized"],
             Appends(k),
             claim' = IF n >= 2 /\ attempt[t].pub # "none" THEN FinalClaim(t) ELSE claim,
             control' = IF n >= 3 /\ control.op # Finalize(t) THEN FinalControl(t) ELSE control,
             lease' = IF n >= 4 THEN Cleared ELSE lease
      PROVE  StoreStep(t)
  <2>1. CASE control.op # Finalize(t)
    <3>1. control.lease = Key(t, g)
      BY <1>5, <2>1 DEF FinalizationFits, Mirrored
    <3>2. Finishing(t, g)
      <4>a. Appends(k)
        BY <1>5
      <4>1. CASE n = 1
        BY SMTT(60), <1>1, <1>5, <2>1, <3>1, <4>1 DEF Finishing
      <4>2. CASE n # 1
        <5>1. claim' = TurnClaim(t)
          BY SMTT(60), <1>5, <4>2 DEF TurnClaim
        <5>2. CASE n = 2
          BY SMTT(60), <1>1, <1>5, <3>1, <5>1, <5>2 DEF Finishing
        <5>3. CASE n = 3 \/ n = 4
          <6>a. n # 5
            BY SMTT(60), <5>3
          <6>1. turn' = [turn EXCEPT ![k] = "finalized"]
            BY <1>5, <6>a
          <6>2. control' = FinalControl(t) /\ lease' \in {lease, Cleared}
            BY SMTT(60), <1>5, <2>1, <5>3
          <6> QED BY <1>1, <3>1, <4>a, <5>1, <6>1, <6>2 DEF Finishing
        <5>4. CASE n = 5
          <6>1. turn' = [turn EXCEPT ![k] = "projected"]
            BY <1>5, <5>4
          <6>2. control' = FinalControl(t) /\ lease' = Cleared
            BY SMTT(60), <1>5, <2>1, <5>4
          <6> QED BY <1>1, <3>1, <4>a, <5>1, <6>1, <6>2 DEF Finishing
        <5> QED BY SMTT(60), <4>2, <5>2, <5>3, <5>4
      <4> QED BY <4>1, <4>2
    <3> QED BY <1>2, <3>2 DEF StoreStep
  <2>2. CASE control.op = Finalize(t)
    <3>1. control.lease = NoOp /\ lease.gen = g /\ lease.holder \in {NoOp, Key(t, g)} /\ control.op = <<"finalize", t, g>>
      BY <1>5, <2>2 DEF FinalizationFits, Finalize
    <3>2. turn[k] = "finalized"
      BY <1>a, <1>1, <1>3, <3>1 DEF TurnInv
    <3>3. transcript' = transcript /\ control' = control
      BY <1>5, <2>2, <3>2 DEF Appends
    <3>4. claim' = claim
      <4>1. lease.holder \notin Reconciliations
        BY <1>2, <3>1, KeyApart, Apart
      <4>2. attempt[t].pub # "none" => Closing(t)
        BY <1>a, <1>2, <3>1, <4>1 DEF BaseInv
      <4>3. attempt[t].pub # "none" => FinalClaim(t) = claim
        <5> SUFFICES ASSUME Closing(t) PROVE FinalClaim(t) = claim
          BY <4>2
        <5>1. FinalClaim(t) = [sha |-> claim.sha, avail |-> claim.avail, op |-> claim.op]
          BY DEF FinalClaim, Closing
        <5> QED BY <1>a, <5>1 DEF TypeOK, Claims
      <4> QED BY <1>5, <4>3
    <3>5. \/ lease' \in {lease, Cleared} /\ turn' = [turn EXCEPT ![k] = "finalized"]
          \/ lease' = Cleared /\ turn' = [turn EXCEPT ![k] = "projected"]
      <4>1. CASE n = 5
        BY SMTT(60), <1>5, <4>1
      <4>2. CASE n # 5
        BY <1>5, <4>2
      <4> QED BY <4>1, <4>2
    <3>6. Closed(t, g)
      BY <1>1, <3>1, <3>2, <3>3, <3>4, <3>5 DEF Closed
    <3> QED BY <1>2, <3>6 DEF StoreStep
  <2> QED BY <2>1, <2>2
<1>6. \/ turn[k] # "open" /\ control.gen > g /\ turn' = [turn EXCEPT ![k] = "projected"] /\ UNCHANGED <<lease, control, claim, transcript>>
      \/ /\ FinalizationFits(t)
         /\ \E n \in 1 .. 5 :
               /\ n = 1 => turn[k] = "open"
               /\ turn' = [turn EXCEPT ![k] = IF n = 5 THEN "projected" ELSE "finalized"]
               /\ Appends(k)
               /\ claim' = IF n >= 2 /\ attempt[t].pub # "none" THEN FinalClaim(t) ELSE claim
               /\ control' = IF n >= 3 /\ control.op # Finalize(t) THEN FinalControl(t) ELSE control
               /\ lease' = IF n >= 4 THEN Cleared ELSE lease
  BY DEF FinalizeSessionTurn
<1> QED BY <1>1, <1>4, <1>5, <1>6

\* A finalization keeps the invariant.
LEMMA FinalizeKeeps ==
    ASSUME SessionInv, NEW t \in Tasks, FinalizeSessionTurn(t)
    PROVE  SessionInv' /\ StoreStep(t)
<1>a. TypeOK
  BY DEF SessionInv
<1>1. /\ worker[t].pc = "idle" /\ attempt[t].state = "Ended" /\ attempt' = attempt /\ worker' = worker /\ cleanup' = cleanup
      /\ stale' = stale /\ cancelled' = cancelled /\ crashes' = crashes
  BY DEF FinalizeSessionTurn
<1>2. StoreStep(t) /\ (Whole \/ Cut)
  BY FinalizeSteps
<1>3. TaskStep(t)
  BY <1>a, <1>1, <1>2, FaultTypes, Stays, TypesSplit DEF TaskStep, RestTypes
<1>4. WorkerFits(t)' /\ PromptFits(t)'
  BY <1>1, IdleFits DEF PromptFits
<1> QED BY <1>2, <1>3, <1>4, TaskKeeps

\* Asking for a cancellation keeps the invariant.
LEMMA CancelKeeps ==
    ASSUME SessionInv, NEW t \in Tasks, cancelTask(t)
    PROVE  SessionInv' /\ StoreStep(t)
<1>a. TypeOK /\ WorkerFits(t) /\ PromptFits(t)
  BY DEF SessionInv, WorkerInv, PromptInv
<1>1. /\ attempt' = attempt /\ worker' = worker /\ cleanup' = cleanup /\ control' = control /\ turn' = turn /\ UNCHANGED stores
      /\ stale' = stale /\ faults' = faults /\ crashes' = crashes /\ cancelled' = [cancelled EXCEPT ![t] = TRUE]
  BY DEF cancelTask, stores
<1>2. StoreStep(t)
  BY <1>1 DEF StoreStep
<1>3. cancelled' \in [Tasks -> BOOLEAN]
  BY <1>a, <1>1 DEF TypeOK
<1>4. TaskStep(t)
  BY <1>a, <1>1, <1>2, <1>3, Stays, TypesSplit DEF TaskStep, RestTypes
<1>5. LeaseGen(t)' = LeaseGen(t)
  BY <1>1 DEF LeaseGen
<1>6. WorkerFits(t)'
  BY <1>a, <1>1, <1>5 DEF WorkerFits
<1>7. PromptFits(t)'
  BY <1>a, <1>1 DEF PromptFits
<1> QED BY <1>2, <1>4, <1>6, <1>7, TaskKeeps
\* A Task cancelled before its prompt ends unbound, ends with its open turn, or first gives its
\* lease back.
LEMMA CancelledKeeps ==
    ASSUME SessionInv, NEW t \in Tasks, settleTaskBeforeRuntimeAdmission(t)
    PROVE  SessionInv' /\ StoreStep(t)
<1> DEFINE g == attempt[t].gen
           Ended(gen) == CancelledAs(attempt[t], gen, claim.sha)
<1>a. TypeOK /\ attempt[t] \in Attempts /\ claim.sha \in 0 .. MaxGen /\ g \in 0 .. MaxGen /\ 0 \in 0 .. MaxGen
  BY SMTT(60), WorkerIs, TypesAre, Numbers DEF SessionInv
<1>1. /\ worker[t].pc = "idle" /\ worker' = worker /\ cleanup' = cleanup /\ claim' = claim /\ turn' = turn /\ transcript' = transcript
      /\ stale' = stale /\ cancelled' = cancelled /\ crashes' = crashes /\ (Whole \/ Cut)
      /\ attempt[t].state \in {"Reserved", "Starting"}
  BY DEF settleTaskBeforeRuntimeAdmission
<1>2. \/ UNCHANGED <<lease, control>>
      \/ /\ g > 0 /\ turn[<<t, g>>] = "none" /\ ReleaseFits(control, t, g)
         /\ \E n \in 0 .. 2 : ReleaseWrites(t, g, n)
  BY SMTT(60) DEF settleTaskBeforeRuntimeAdmission
<1>3. Becomes(t, Ended(0)) \/ Becomes(t, Ended(g)) \/ Unbound(t) \/ attempt' = attempt
  BY DEF settleTaskBeforeRuntimeAdmission, Becomes, CancelledAs
<1>4. \A h \in 0 .. MaxGen : Ended(h) \in Attempts /\ Ended(h).state = "Ended"
  BY <1>a, CancelledIs
<1> HIDE DEF Ended
<1>5. OnlyAttempt(t) /\ (attempt' = attempt \/ attempt'[t].state \in {"Reserved", "Ended"})
  BY <1>a, <1>3, <1>4, AttemptMoves, UnboundIs, Stays
<1>6. EndedStay
  BY <1>1, <1>5 DEF EndedStay, OnlyAttempt
<1>7. StoreStep(t)
  <2>1. CASE UNCHANGED <<lease, control>>
    BY <1>1, <2>1 DEF StoreStep, stores
  <2>2. CASE /\ g > 0 /\ turn[<<t, g>>] = "none" /\ ReleaseFits(control, t, g)
             /\ \E n \in 0 .. 2 : ReleaseWrites(t, g, n)
    <3>1. g \in Gens
      BY <1>a, <2>2, Numbers
    <3> QED BY <1>1, <2>2, <3>1, ReleaseSteps
  <2> QED BY <1>2, <2>1, <2>2
<1>8. TaskStep(t)
  BY <1>a, <1>1, <1>5, <1>6, <1>7, FaultTypes, Stays, TypesSplit DEF TaskStep, RestTypes
<1>9. WorkerFits(t)' /\ PromptFits(t)'
  <2>1. PromptFits(t)
    BY DEF SessionInv, PromptInv
  <2> QED BY <1>1, <1>5, <2>1, IdleFits DEF PromptFits
<1> QED BY <1>7, <1>8, <1>9, TaskKeeps

\* Recovery after a restart keeps the invariant.
LEMMA RecoverKeeps ==
    ASSUME SessionInv, NEW t \in Tasks, recoverStaleTask(t)
    PROVE  SessionInv' /\ StoreStep(t)
<1>a. TypeOK /\ PromptFits(t)
  BY DEF SessionInv, PromptInv
<1>1. /\ UNCHANGED stores /\ worker[t].pc = "idle" /\ worker' = worker /\ cleanup' = cleanup /\ turn' = turn
      /\ cancelled' = cancelled /\ faults' = faults /\ crashes' = crashes /\ stale' = [stale EXCEPT ![t] = FALSE]
  BY DEF recoverStaleTask, stores
<1>2. \/ attempt[t].state = "Starting" /\ Unbound(t)
      \/ attempt[t].state = "Submitted" /\ \E pub \in Deliveries : Ends(t, pub)
      \/ attempt' = attempt
  BY DEF recoverStaleTask
<1>3. stale' \in [Tasks -> BOOLEAN]
  BY <1>a, <1>1 DEF TypeOK
<1>4. OnlyAttempt(t) /\ (attempt' = attempt \/ (attempt[t].state # "Ended" /\ attempt'[t].state \in {"Reserved", "Ended"}))
  BY <1>a, <1>2, UnboundIs, EndsIs, Stays
<1>5. EndedStay
  BY <1>4 DEF EndedStay, OnlyAttempt
<1>6. StoreStep(t)
  BY <1>1 DEF StoreStep
<1>7. TaskStep(t)
  BY <1>a, <1>1, <1>3, <1>4, <1>5, <1>6, Stays, TypesSplit DEF TaskStep, RestTypes
<1>8. WorkerFits(t)' /\ PromptFits(t)'
  BY <1>a, <1>1, <1>4, IdleFits DEF PromptFits
<1> QED BY <1>6, <1>7, <1>8, TaskKeeps

\* When no dispatch and no attempt moves, they fit as before.
LEMMA WorkersKeep ==
    ASSUME SessionInv, VersionGrows, control'.lease = control.lease, worker' = worker, attempt' = attempt, turn' = turn
    PROVE  WorkerInv' /\ PromptInv'
<1> SUFFICES ASSUME NEW u \in Tasks PROVE WorkerFits(u)' /\ PromptFits(u)'
  BY DEF WorkerInv, PromptInv
<1>1. WorkerFits(u) /\ PromptFits(u) /\ worker[u].snap.version \in Nat /\ control.version \in Nat
  BY WorkerIs, TypesAre DEF SessionInv, WorkerInv, PromptInv
<1>2. LeaseGen(u)' = LeaseGen(u)
  BY DEF LeaseGen
<1>3. /\ worker[u].pc # "idle" => worker[u].snap.version <= control'.version
      /\ worker[u].pc # "idle" /\ worker[u].snap.version = control'.version => worker[u].snap = control'
  BY SMTT(60), <1>1 DEF WorkerFits, VersionGrows
<1> QED BY <1>1, <1>2, <1>3 DEF WorkerFits, PromptFits, Bound

\* A reconciliation keeps the invariant.
LEMMA OperatorKeeps ==
    ASSUME SessionInv, NEW sha \in 0 .. MaxGen, ReconcileSessionControl(sha)
    PROVE  SessionInv' /\ Reconciling(sha)
<1> DEFINE op == <<"reconcile", sha, control.gen>>
<1>a. TypeOK /\ control \in Controls
  BY DEF SessionInv, TypeOK
<1>1. /\ cleanup.state = "none" /\ control.lease = NoOp /\ control.gen > 0 /\ lease.gen = control.gen
      /\ lease.holder \in {NoOp, op} /\ (control.avail = "Blocked" \/ control.op = op)
      /\ turn' = turn /\ transcript' = transcript /\ attempt' = attempt /\ worker' = worker /\ cleanup' = cleanup
      /\ stale' = stale /\ cancelled' = cancelled /\ crashes' = crashes
  BY DEF ReconcileSessionControl, sessionCleanupPending
<1>2. PICK n \in 1 .. 4 :
          /\ lease' = IF n = 4 THEN Cleared ELSE Marked(op)
          /\ claim' = IF n >= 2 THEN Restored(sha, op) ELSE claim
          /\ control' = IF n >= 3 /\ control.op # op THEN Reopened(control, op, sha) ELSE control
          /\ IF n = 4 THEN Whole ELSE Cut
  BY DEF ReconcileSessionControl, Marked, Restored, Reopened
<1>3. op \in Ops
  <2>1. control.gen \in Gens
    BY <1>a, <1>1, TypesAre, Numbers
  <2> QED BY <2>1 DEF Ops, Reconciliations
<1>4. Reconciling(sha)
  <2>1. CASE n = 1 \/ n = 2
    BY SMTT(60), <1>1, <1>2, <2>1 DEF Reconciling
  <2>2. CASE n = 3
    BY SMTT(60), <1>1, <1>2, <2>2 DEF Reconciling
  <2>3. CASE n = 4
    BY SMTT(60), <1>1, <1>2, <2>3 DEF Reconciling
  <2> QED BY SMTT(60), <2>1, <2>2, <2>3
<1> HIDE DEF op
<1>5. StoreInv' /\ StoreTypes'
  BY <1>4, ReconcileKeeps
<1>6. VersionGrows /\ control'.lease = control.lease
  BY SMTT(60), <1>a, <1>1, <1>2, <1>3, ReopenedIs DEF VersionGrows
<1>7. WorkerInv' /\ PromptInv'
  BY <1>1, <1>6, WorkersKeep
<1>8. RestTypes'
  BY <1>a, <1>1, <1>2, FaultTypes, TypesSplit DEF RestTypes
<1>9. TypeOK'
  BY <1>a, <1>1, <1>5, <1>8, TypesSplit, TypesJoin
<1> QED BY <1>4, <1>5, <1>7, <1>9 DEF SessionInv

\* A cleanup keeps the invariant.
LEMMA CleanupKeeps ==
    ASSUME SessionInv, prepareSessionCleanupIntent \/ reclaimSession
    PROVE  SessionInv' /\ UNCHANGED stores
<1>a. TypeOK /\ CleanupQuiescent
  BY DEF SessionInv, StoreInv
<1>1. /\ UNCHANGED stores /\ control' = control /\ lease' = lease /\ turn' = turn /\ attempt' = attempt /\ worker' = worker
      /\ stale' = stale /\ cancelled' = cancelled /\ faults' = faults /\ crashes' = crashes
  BY DEF prepareSessionCleanupIntent, reclaimSession, stores
<1>2. CleanupQuiescent' /\ cleanup' \in [state : {"none", "prepared", "done"}, version : Nat, gen : 0 .. MaxGen]
  <2>1. CASE prepareSessionCleanupIntent
    <3>1. /\ control.lease = NoOp /\ lease.holder = NoOp /\ \A k \in Keys : turn[k] \in {"none", "projected"}
          /\ cleanup' = [state |-> "prepared", version |-> control.version, gen |-> control.gen]
      BY <2>1 DEF prepareSessionCleanupIntent
    <3>2. control.version \in Nat /\ control.gen \in 0 .. MaxGen
      BY <1>a DEF TypeOK, Controls
    <3> QED BY <1>1, <3>1, <3>2 DEF CleanupQuiescent
  <2>2. CASE reclaimSession
    <3>1. cleanup.state = "prepared" /\ cleanup' = [cleanup EXCEPT !.state = "done"]
      BY <2>2 DEF reclaimSession
    <3>2. /\ cleanup'.version = cleanup.version
          /\ cleanup' \in [state : {"none", "prepared", "done"}, version : Nat, gen : 0 .. MaxGen]
      BY <1>a, <3>1 DEF TypeOK
    <3> QED BY <1>a, <1>1, <3>1, <3>2 DEF CleanupQuiescent
  <2> QED BY <2>1, <2>2
<1>3. StoreInv' /\ StoreTypes'
  BY <1>1, <1>2, QuietKeeps DEF EndedStay
<1>4. WorkerInv' /\ PromptInv'
  BY <1>1, WorkersKeep DEF VersionGrows
<1>5. TypeOK'
  BY <1>a, <1>1, <1>2, <1>3, TypesSplit, TypesJoin DEF RestTypes
<1> QED BY <1>1, <1>3, <1>4, <1>5 DEF SessionInv

\* A restart keeps the invariant.
LEMMA CrashKeeps ==
    ASSUME SessionInv, Crash
    PROVE  SessionInv' /\ UNCHANGED stores
<1>a. TypeOK /\ CleanupQuiescent /\ PromptInv
  BY DEF SessionInv, StoreInv
<1>1. /\ UNCHANGED stores /\ control' = control /\ lease' = lease /\ turn' = turn /\ attempt' = attempt /\ cleanup' = cleanup
      /\ cancelled' = cancelled /\ faults' = faults /\ crashes' = crashes + 1 /\ crashes < MaxCrashes
      /\ worker' = [t \in Tasks |-> Resting] /\ stale' = [t \in Tasks |-> TRUE]
  BY DEF Crash, stores
<1>2. CleanupQuiescent'
  BY <1>a, <1>1 DEF CleanupQuiescent
<1>3. StoreInv' /\ StoreTypes'
  BY <1>1, <1>2, QuietKeeps DEF EndedStay
<1>4. worker' \in [Tasks -> Workers] /\ \A t \in Tasks : worker'[t].pc = "idle"
  BY <1>1, RestingIs
<1>5. WorkerInv'
  BY <1>4, IdleFits DEF WorkerInv
<1>6. PromptInv'
  BY <1>a, <1>1 DEF PromptInv, PromptFits
<1>7. stale' \in [Tasks -> BOOLEAN]
  BY <1>1
<1>8. crashes' \in 0 .. MaxCrashes
  BY SMTT(60), <1>a, <1>1, Numbers DEF TypeOK
<1>9. TypeOK'
  BY <1>a, <1>1, <1>3, <1>4, <1>7, <1>8, TypesSplit, TypesJoin DEF RestTypes
<1> QED BY <1>1, <1>3, <1>5, <1>6, <1>9 DEF SessionInv

\* The invariant holds at the start.
LEMMA InitKeeps ==
    ASSUME Init
    PROVE  SessionInv
<1>a. /\ lease = [gen |-> 0, holder |-> NoOp] /\ control = NewControl /\ claim = [sha |-> 0, avail |-> "Available", op |-> NoOp]
      /\ attempt = [t \in Tasks |-> [state |-> "Reserved", gen |-> 0, pub |-> "none", base |-> 0]]
      /\ turn = [k \in Keys |-> "none"] /\ transcript = <<>> /\ worker = [t \in Tasks |-> Resting]
      /\ stale = [t \in Tasks |-> FALSE] /\ cancelled = [t \in Tasks |-> FALSE]
      /\ cleanup = [state |-> "none", version |-> 0, gen |-> 0] /\ faults = 0 /\ crashes = 0
  BY DEF Init
<1>b. 0 \in 0 .. MaxGen /\ 0 \in 0 .. MaxFaults /\ 0 \in 0 .. MaxCrashes
  BY SMTT(60), Numbers
<1>1. /\ control \in Controls /\ control.gen = 0 /\ control.lease = NoOp /\ control.op = NoOp /\ control.base = 0
      /\ control.avail = "Available"
  BY <1>a, <1>b DEF NewControl, Controls, Ops
<1>2. lease \in Leases /\ claim \in Claims
  BY <1>a, <1>b DEF Leases, Claims, Ops
<1>3. attempt \in [Tasks -> Attempts] /\ worker \in [Tasks -> Workers]
  BY <1>a, <1>b, RestingIs DEF Attempts, Deliveries
<1>4. turn \in [Keys -> {"none", "open", "finalized", "projected"}] /\ transcript \in Seq(Keys)
  BY SMTT(60), <1>a
<1>5. stale \in [Tasks -> BOOLEAN] /\ cancelled \in [Tasks -> BOOLEAN]
  BY <1>a
<1>6. cleanup \in [state : {"none", "prepared", "done"}, version : Nat, gen : 0 .. MaxGen]
  BY <1>a, <1>b
<1>7. TypeOK
  BY <1>a, <1>b, <1>1, <1>2, <1>3, <1>4, <1>5, <1>6 DEF TypeOK
<1>8. LeaseInv
  BY SMTT(60), <1>a, <1>1, Apart, NoOpIs DEF LeaseInv
<1>9. TurnInv /\ ProjectedAfterRelease
  BY <1>a DEF TurnInv, ProjectedAfterRelease
<1>10. TranscriptInOrder
  <2>1. Len(transcript) = 0
    BY <1>a
  <2> QED BY SMTT(60), <1>a, <2>1 DEF TranscriptInOrder
<1>11. BaselinesAgree /\ CleanupQuiescent
  BY <1>a, <1>1 DEF BaselinesAgree, CleanupQuiescent
<1>12. BaseInv
  <2>1. \A u \in Tasks, h \in Gens : control.lease # Key(u, h)
    BY SMTT(60), <1>1, KeyIs, NoOpIs
  <2>2. \A x, y : NoOp # <<"finalize", x, y>> /\ NoOp # <<"reconcile", x, y>>
    BY DEF NoOp
  <2> QED BY <1>1, <2>1, <2>2 DEF BaseInv
<1>13. \A t \in Tasks : worker[t].pc = "idle" /\ attempt[t].state = "Reserved"
  <2> SUFFICES ASSUME NEW t \in Tasks PROVE worker[t].pc = "idle" /\ attempt[t].state = "Reserved"
    OBVIOUS
  <2>1. worker = [u \in Tasks |-> Resting]
    BY DEF Init
  <2>2. worker[t].pc = "idle"
    BY <2>1, RestingIs
  <2>3. attempt = [u \in Tasks |-> [state |-> "Reserved", gen |-> 0, pub |-> "none", base |-> 0]]
    BY DEF Init
  <2>4. attempt[t].state = "Reserved"
    BY <2>3
  <2> QED BY <2>2, <2>4
<1>14. WorkerInv /\ PromptInv
  BY <1>13 DEF WorkerInv, WorkerFits, PromptInv, PromptFits, Bound
<1> QED BY <1>7, <1>8, <1>9, <1>10, <1>11, <1>12, <1>14 DEF SessionInv, StoreInv

\* Every step keeps the invariant, and is one of the above for the stores.
LEMMA NextKeeps ==
    ASSUME SessionInv, [Next]_vars
    PROVE  /\ SessionInv'
           /\ (\E t \in Tasks : StoreStep(t)) \/ (\E sha \in 0 .. MaxGen : Reconciling(sha)) \/ UNCHANGED stores
<1>1. ASSUME NEW t \in Tasks, Prepare(t)
      PROVE  SessionInv' /\ StoreStep(t)
  BY <1>1, PlanKeeps, BindKeeps, AcquireKeeps, CreateKeeps, GiveUpKeeps, RequeueKeeps DEF Prepare
<1>2. ASSUME NEW t \in Tasks, Run(t)
      PROVE  SessionInv' /\ StoreStep(t)
  BY <1>2, FailKeeps, CommitKeeps, SubmitKeeps, NotAcceptedKeeps, SettleKeeps DEF Run
<1>3. ASSUME NEW t \in Tasks, Settle(t)
      PROVE  SessionInv' /\ StoreStep(t)
  BY <1>3, FinalizeKeeps, CancelKeeps, CancelledKeeps, RecoverKeeps DEF Settle
<1>4. ASSUME NEW sha \in 0 .. MaxGen, ReconcileSessionControl(sha)
      PROVE  SessionInv' /\ Reconciling(sha)
  BY <1>4, OperatorKeeps
<1>5. CASE prepareSessionCleanupIntent \/ reclaimSession
  BY <1>5, CleanupKeeps
<1>6. CASE Crash
  BY <1>6, CrashKeeps
<1>7. CASE UNCHANGED vars
  <2>1. /\ UNCHANGED stores /\ control' = control /\ lease' = lease /\ turn' = turn /\ attempt' = attempt /\ worker' = worker
        /\ stale' = stale /\ cancelled' = cancelled /\ faults' = faults /\ crashes' = crashes /\ cleanup' = cleanup
    BY <1>7 DEF vars, stores
  <2>2. CleanupQuiescent'
    BY <2>1 DEF SessionInv, StoreInv, CleanupQuiescent
  <2>3. StoreInv' /\ StoreTypes'
    BY <2>1, <2>2, QuietKeeps DEF EndedStay
  <2>4. WorkerInv' /\ PromptInv'
    BY <2>1, WorkersKeep DEF VersionGrows
  <2>5. TypeOK'
    BY <2>1, <2>3, TypesSplit, TypesJoin DEF RestTypes, SessionInv
  <2> QED BY <2>1, <2>3, <2>4, <2>5 DEF SessionInv
<1> QED BY <1>1, <1>2, <1>3, <1>4, <1>5, <1>6, <1>7 DEF Next

----------------------------------------------------------------------------
(* The theorems. *)

\* The invariant holds in every reachable state.
THEOREM SessionInvariant == Spec => []SessionInv
<1>1. Init => SessionInv
  BY InitKeeps
<1>2. SessionInv /\ [Next]_vars => SessionInv'
  BY NextKeeps
<1> QED BY <1>1, <1>2, PTL DEF Spec

\* The variables keep their types.
THEOREM SessionTypes == Spec => []TypeOK
<1>1. SessionInv => TypeOK
  BY DEF SessionInv
<1> QED BY <1>1, SessionInvariant, PTL

\* A prompt past its request-write boundary has an open turn and the Session's lease, in the Lease
\* and in its mirror.  The turn comes from the invariant of the dispatches; an open turn has
\* the mirrored lease, and what is mirrored is held.
THEOREM SessionPrompts == Spec => []PromptHoldsLease
<1>1. ASSUME SessionInv PROVE PromptHoldsLease
  <2> SUFFICES ASSUME NEW t \in Tasks, attempt[t].state = "Submitted"
               PROVE  attempt[t].gen > 0 /\ turn[<<t, attempt[t].gen>>] = "open" /\ Mirrored(t, attempt[t].gen)
    BY DEF PromptHoldsLease
  <2> DEFINE g == attempt[t].gen
  <2>a. TypeOK /\ LeaseInv /\ TurnInv /\ PromptFits(t)
    BY <1>1 DEF SessionInv, StoreInv, PromptInv
  <2>1. g \in Gens /\ turn[<<t, g>>] = "open"
    BY <2>a DEF PromptFits
  <2> HIDE DEF g
  <2>2. /\ <<t, g>> \in Keys /\ <<t, g>>[1] = t /\ <<t, g>>[2] = g /\ Key(t, g) # NoOp /\ Key(t, g)[3] = g /\ Key(t, g) \in Held
        /\ g > 0
    BY SMTT(60), <2>1, KeyOf, KeyApart, KeyIs, KeyHeld, Numbers
  <2>3. control.lease = Key(t, g)
    BY <2>a, <2>1, <2>2 DEF TurnInv
  <2>4. lease.holder = Key(t, g)
    BY <2>a, <2>2, <2>3 DEF LeaseInv
  <2>5. lease.gen = g
    BY <2>a, <2>2, <2>4 DEF LeaseInv
  <2>6. Mirrored(t, g)
    BY <2>a, <2>3, <2>4, <2>5, MirroredIs
  <2> QED BY <2>1, <2>2, <2>6 DEF g
<1> QED BY <1>1, SessionInvariant, PTL

\* The transcript holds finalized turns only, every one that is to be appended, and each once, in
\* the order of the lease generations.
THEOREM SessionTranscript == Spec => []TranscriptInOrder
<1>1. SessionInv => TranscriptInOrder
  BY DEF SessionInv, StoreInv
<1> QED BY <1>1, SessionInvariant, PTL

\* An active projection means that the lease of its turn is gone from the Lease and the mirror.
THEOREM SessionProjection == Spec => []ProjectedAfterRelease
<1>1. SessionInv => ProjectedAfterRelease
  BY DEF SessionInv, StoreInv
<1> QED BY <1>1, SessionInvariant, PTL

\* A Session that may start a turn has the baseline of its claim.
THEOREM SessionBaselines == Spec => []BaselinesAgree
<1>1. SessionInv => BaselinesAgree
  BY DEF SessionInv, StoreInv
<1> QED BY <1>1, SessionInvariant, PTL

\* Nothing starts in a Session once its cleanup intent is durable.
THEOREM SessionCleanup == Spec => []CleanupQuiescent
<1>1. SessionInv => CleanupQuiescent
  BY DEF SessionInv, StoreInv
<1> QED BY <1>1, SessionInvariant, PTL

----------------------------------------------------------------------------
(* A Session implements the serial Session: whatever a step does to the stores grants,
   completes or ends one turn of SerialSession, or nothing. *)

\* Who is granted the Session, for a Lease and a control.
GrantedBy(l, c) ==
    IF l.holder \in Held /\ ~(c.lease = NoOp /\ c.op = <<"release", l.holder[2], l.gen>>)
    THEN <<l.holder[2], l.holder[3]>> ELSE <<None, 0>>

\* Without a holder nobody is granted the Session.
LEMMA GrantedFree ==
    ASSUME NEW l, NEW c, l.holder \notin Held \/ (c.lease = NoOp /\ c.op = <<"release", l.holder[2], l.gen>>)
    PROVE  GrantedBy(l, c) = <<None, 0>>
BY DEF GrantedBy

\* With one it is the holder, unless its release is recorded.
LEMMA GrantedTo ==
    ASSUME NEW l, NEW c, NEW t \in Tasks, NEW g \in Gens, l.holder = Key(t, g),
           c.lease # NoOp \/ c.op[1] # "release" \/ c.op[3] # l.gen
    PROVE  GrantedBy(l, c) = <<t, g>>
<1>1. l.holder \in Held /\ l.holder[2] = t /\ l.holder[3] = g
  BY SMTT(60), KeyHeld, KeyIs
<1>2. <<"release", l.holder[2], l.gen>>[1] = "release" /\ <<"release", l.holder[2], l.gen>>[3] = l.gen
  OBVIOUS
<1>3. ~(c.lease = NoOp /\ c.op = <<"release", l.holder[2], l.gen>>)
  BY <1>2
<1> QED BY <1>1, <1>3 DEF GrantedBy

\* A step of the serial Session, on what the mapping makes of the state.
SerialStep == Serial!SerialNext \/ (Granted' = Granted /\ lease'.gen = lease.gen /\ transcript' = transcript)

\* A step that touches neither grant nor transcript is no step of the serial Session.
LEMMA QuietSerial ==
    ASSUME lease' = lease, control'.lease = control.lease, control'.op = control.op, transcript' = transcript
    PROVE  SerialStep
BY DEF SerialStep, Granted

\* Granting is a serial grant, or nothing when it completes the mirror.
LEMMA GrantSerial ==
    ASSUME SessionInv, NEW t \in Tasks, NEW g \in Gens, Granting(t, g)
    PROVE  SerialStep
<1>a. TypeOK /\ LeaseInv
  BY DEF SessionInv, StoreInv
<1>1. /\ Granted = GrantedBy(lease, control) /\ Granted' = GrantedBy(lease', control') /\ transcript' = transcript
      /\ control.lease = NoOp /\ g = control.gen + 1 /\ (Unheld \/ Owned(t, g))
  BY DEF Granted, GrantedBy, Granting
<1>2. g \in Nat /\ control.gen \in Nat /\ control.op[3] \in Nat /\ control.op[3] < g /\ control \in Controls
  BY SMTT(60), <1>a, <1>1, TypesAre, Numbers DEF LeaseInv, TypeOK
<1>3. Key(t, g) # NoOp /\ Key(t, g) \in Held /\ g \in 0 .. MaxGen
  BY KeyApart, KeyHeld, Numbers
<1>4. Unheld => Granted = <<None, 0>> /\ lease.gen = control.gen
  BY <1>1, GrantedFree, Apart DEF Unheld
<1>5. Owned(t, g) => Granted = <<t, g>> /\ lease.gen = g
  BY SMTT(60), <1>1, <1>2, GrantedTo DEF Owned
<1>6. CASE Unheld /\ lease' = Cleared /\ control' = control
  <2>1. lease'.gen = lease.gen /\ lease'.holder = NoOp
    BY <1>a, <1>6, ClearedIs
  <2>2. Granted' = <<None, 0>>
    BY <1>1, <2>1, Apart, GrantedFree
  <2> QED BY <1>1, <1>4, <1>6, <2>1, <2>2 DEF SerialStep
<1>7. CASE lease' = Taken(t, g) /\ (control' = control \/ control' = Mirror(control, g, Key(t, g)))
  <2>1. lease'.gen = g /\ lease'.holder = Key(t, g)
    BY <1>7, TakenIs
  <2>2. Mirror(control, g, Key(t, g)).lease = Key(t, g)
    BY SMTT(60), <1>2, <1>3, MirrorIs
  <2>3. control'.lease # NoOp \/ control'.op[3] # lease'.gen
    BY SMTT(60), <1>2, <1>3, <1>7, <2>1, <2>2
  <2>4. Granted' = <<t, g>>
    BY <1>1, <2>1, <2>3, GrantedTo
  <2>5. CASE Unheld
    BY <1>1, <1>2, <1>4, <2>1, <2>4, <2>5 DEF SerialStep, Serial!SerialNext, Serial!Grant, Serial!Free
  <2>6. CASE Owned(t, g)
    BY <1>1, <1>5, <2>1, <2>4, <2>6 DEF SerialStep
  <2> QED BY <1>1, <2>5, <2>6
<1> QED BY <1>6, <1>7 DEF Granting

\* A release gives the grant back without a word, or is nothing when it continues.
LEMMA ReleaseSerial ==
    ASSUME SessionInv, NEW t \in Tasks, NEW g \in Gens, Releasing(t, g)
    PROVE  SerialStep
<1>a. TypeOK /\ LeaseInv /\ control \in Controls
  BY DEF SessionInv, StoreInv, TypeOK
<1>1. Granted = GrantedBy(lease, control) /\ Granted' = GrantedBy(lease', control') /\ transcript' = transcript
  BY DEF Granted, GrantedBy, Releasing
<1>2. Key(t, g) # NoOp /\ Key(t, g) \in Held /\ Key(t, g)[3] = g /\ Key(t, g)[2] = t /\ NoOp \notin Held
  BY KeyApart, KeyHeld, KeyIs, Apart
<1>3. lease'.gen = lease.gen /\ lease'.holder \in {lease.holder, NoOp}
  BY <1>a, ClearedIs DEF Releasing
<1>4. CASE control.lease = Key(t, g) /\ control' = Freed(control, <<"release", t, g>>)
  <2>1. lease.holder = Key(t, g)
    BY <1>a, <1>2, <1>4 DEF LeaseInv
  <2>2. lease.gen = g
    BY <1>a, <1>2, <2>1 DEF LeaseInv
  <2>3. Granted = <<t, g>>
    BY SMTT(60), <1>1, <1>2, <1>4, <2>1, GrantedTo
  <2>4. control'.lease = NoOp /\ control'.op = <<"release", t, g>>
    <3> DEFINE o == <<"release", t, g>>
    <3>1. o \in Ops
      BY DEF Ops
    <3>2. control' = Freed(control, o)
      BY <1>4
    <3> HIDE DEF o
    <3>3. control'.lease = NoOp /\ control'.op = o
      BY <1>a, <3>1, <3>2, FreedIs
    <3> QED BY <3>3 DEF o
  <2>5. Granted' = <<None, 0>>
    BY <1>1, <1>2, <1>3, <2>1, <2>2, <2>4, GrantedFree
  <2>6. <<t, g>> # <<None, 0>>
    BY Numbers
  <2> QED BY <1>1, <1>3, <2>3, <2>5, <2>6 DEF SerialStep, Serial!SerialNext, Serial!GiveBack, Serial!Free
<1>5. CASE /\ control.lease = NoOp /\ control.op = <<"release", t, g>> /\ control' = control
           /\ lease.gen = g /\ lease.holder \in {NoOp, Key(t, g)}
  <2>1. Granted = <<None, 0>>
    BY <1>1, <1>2, <1>5, GrantedFree
  <2>2. Granted' = <<None, 0>>
    BY <1>1, <1>2, <1>3, <1>5, GrantedFree
  <2> QED BY <1>1, <1>3, <2>1, <2>2 DEF SerialStep
<1> QED BY <1>4, <1>5 DEF Releasing

\* The tail of a finalization gives the grant back when it clears the Lease, or is nothing.
LEMMA ClosedSerial ==
    ASSUME SessionInv, NEW t \in Tasks, NEW g \in Gens, Closed(t, g)
    PROVE  SerialStep
<1>a. TypeOK
  BY DEF SessionInv
<1>1. Granted = GrantedBy(lease, control) /\ Granted' = GrantedBy(lease', control') /\ transcript' = transcript
  BY DEF Granted, GrantedBy, Closed
<1>2. control' = control /\ lease.holder \in {NoOp, Key(t, g)} /\ lease' \in {lease, Cleared} /\ control.op[1] # "release"
  BY SMTT(60) DEF Closed
<1>3. CASE lease' = lease
  BY <1>1, <1>2, <1>3 DEF SerialStep
<1>4. CASE lease' = Cleared
  <2>1. lease'.gen = lease.gen /\ lease'.holder = NoOp
    BY <1>a, <1>4, ClearedIs
  <2>2. Granted' = <<None, 0>>
    BY <1>1, <2>1, Apart, GrantedFree
  <2>3. CASE lease.holder = NoOp
    <3>1. Granted = <<None, 0>>
      BY <1>1, <2>3, Apart, GrantedFree
    <3> QED BY <1>1, <2>1, <2>2, <3>1 DEF SerialStep
  <2>4. CASE lease.holder = Key(t, g)
    <3>1. Granted = <<t, g>>
      BY <1>1, <1>2, <2>4, GrantedTo
    <3>2. <<t, g>> # <<None, 0>>
      BY Numbers
    <3> QED BY <1>1, <2>1, <2>2, <3>1, <3>2 DEF SerialStep, Serial!SerialNext, Serial!GiveBack, Serial!Free
  <2> QED BY <1>2, <2>3, <2>4
<1> QED BY <1>2, <1>3, <1>4

\* Finishing extends the log the first time, and gives the grant back when it clears the Lease.
LEMMA FinishSerial ==
    ASSUME SessionInv, NEW t \in Tasks, NEW g \in Gens, Finishing(t, g)
    PROVE  SerialStep
<1>a. TypeOK
  BY DEF SessionInv
<1>1. Granted = GrantedBy(lease, control) /\ Granted' = GrantedBy(lease', control')
  BY DEF Granted, GrantedBy
<1>2. /\ turn[<<t, g>>] \in {"open", "finalized"} /\ control.lease = Key(t, g) /\ attempt[t].gen = g
      /\ Appends(<<t, g>>)
      /\ (control' = control /\ lease' = lease) \/ (control' = FinalControl(t) /\ lease' \in {lease, Cleared})
  BY DEF Finishing
<1>3. /\ turn'[<<t, g>>] \in {"finalized", "projected"} /\ \A j \in Keys : j # <<t, g>> => turn'[j] = turn[j]
      /\ lease.holder = Key(t, g)
  BY FinishIs
<1>4. \/ transcript' = transcript
      \/ transcript' = Append(transcript, <<t, g>>) /\ \A i \in 1 .. Len(transcript) : transcript[i] # <<t, g>>
  BY <1>2, <1>3, TranscriptGrows
<1>5. Key(t, g) # NoOp /\ <<t, g>> # <<None, 0>>
  BY KeyApart, Numbers
<1>6. Granted = <<t, g>>
  BY <1>1, <1>2, <1>3, <1>5, GrantedTo
<1>7. lease'.gen = lease.gen /\ Granted' \in {<<t, g>>, <<None, 0>>}
  <2>1. CASE control' = control /\ lease' = lease
    <3>1. Granted' = Granted
      BY <1>1, <2>1
    <3> QED BY <1>6, <2>1, <3>1
  <2>2. CASE control' = FinalControl(t) /\ lease' = lease
    <3>1. FinalControl(t).op = Finalize(t)
      BY <1>2, FinalControlIs
    <3>2. control'.op[1] # "release"
      BY SMTT(60), <2>2, <3>1 DEF Finalize
    <3>3. Granted' = <<t, g>>
      BY <1>1, <1>3, <2>2, <3>2, GrantedTo
    <3> QED BY <2>2, <3>3
  <2>3. CASE lease' = Cleared
    <3>1. lease'.gen = lease.gen /\ lease'.holder = NoOp
      BY <1>a, <2>3, ClearedIs
    <3>2. Granted' = <<None, 0>>
      BY <1>1, <3>1, Apart, GrantedFree
    <3> QED BY <3>1, <3>2
  <2> QED BY <1>2, <2>1, <2>2, <2>3
<1>8. CASE transcript' = Append(transcript, <<t, g>>) /\ \A i \in 1 .. Len(transcript) : transcript[i] # <<t, g>>
  BY <1>5, <1>6, <1>7, <1>8 DEF SerialStep, Serial!SerialNext, Serial!Extend, Serial!Free
<1>9. CASE transcript' = transcript
  BY <1>5, <1>6, <1>7, <1>9 DEF SerialStep, Serial!SerialNext, Serial!GiveBack, Serial!Free
<1> QED BY <1>4, <1>8, <1>9

\* A reconciliation is no serial step.
LEMMA ReconcileSerial ==
    ASSUME SessionInv, NEW sha \in 0 .. MaxGen, Reconciling(sha)
    PROVE  SerialStep
<1> DEFINE op == <<"reconcile", sha, control.gen>>
<1>a. TypeOK
  BY DEF SessionInv
<1>1. /\ Granted = GrantedBy(lease, control) /\ Granted' = GrantedBy(lease', control') /\ transcript' = transcript
      /\ lease.holder \in {NoOp, op} /\ lease' \in {Cleared, Marked(op)} /\ control.gen > 0
  BY DEF Granted, GrantedBy, Reconciling
<1>2. op \in Reconciliations
  <2>1. control.gen \in Gens
    BY <1>a, <1>1, TypesAre, Numbers
  <2> QED BY <2>1 DEF Reconciliations
<1> HIDE DEF op
<1>3. lease'.gen = lease.gen /\ lease'.holder \in {NoOp, op}
  BY <1>a, <1>1, <1>2, ClearedIs, MarkedIs
<1>4. NoOp \notin Held /\ op \notin Held
  BY <1>2, Apart, ReconcileIs
<1>5. Granted = <<None, 0>> /\ Granted' = <<None, 0>>
  BY <1>1, <1>3, <1>4, GrantedFree
<1> QED BY <1>1, <1>3, <1>5 DEF SerialStep

\* Every kind of step is a serial step or nothing.
LEMMA StoreSerial ==
    ASSUME SessionInv, NEW t \in Tasks, StoreStep(t)
    PROVE  SerialStep
<1>1. CASE UNCHANGED stores
  BY <1>1, QuietSerial DEF stores
<1>2. CASE Bumping
  <2>1. control \in Controls
    BY DEF SessionInv, TypeOK
  <2> QED BY <1>2, <2>1, BumpedIs, QuietSerial DEF Bumping
<1>3. ASSUME NEW g \in Gens, Opening(t, g) \/ Behind(t, g)
      PROVE  SerialStep
  BY <1>3, QuietSerial DEF Opening, Behind
<1>4. ASSUME NEW g \in Gens, Granting(t, g) \/ Releasing(t, g) \/ Closed(t, g) \/ Finishing(t, g)
      PROVE  SerialStep
  BY <1>4, GrantSerial, ReleaseSerial, ClosedSerial, FinishSerial
<1> QED BY <1>1, <1>2, <1>3, <1>4 DEF StoreStep

\* The Lease, its mirror, the attempts and the turns together implement a Session that one Task at a
\* time extends: taking the Lease for a new generation is the grant, the commit of a turn
\* extends the conversation, and giving the lease back in the control or clearing the Lease after
\* a finalization, whichever shows first, ends the grant.  All else is a stutter.
THEOREM SessionSerial == Spec => ImplementsSerial
<1>1. Init => Serial!SerialInit
  <2> SUFFICES ASSUME Init PROVE Serial!SerialInit
    OBVIOUS
  <2>1. lease.holder = NoOp /\ lease.gen = 0 /\ transcript = <<>>
    BY DEF Init
  <2>2. Granted = <<None, 0>>
    BY <2>1, Apart DEF Granted
  <2> QED BY <2>1, <2>2 DEF Serial!SerialInit, Serial!Free
<1>2. SessionInv /\ [Next]_vars => [Serial!SerialNext]_(Serial!serialVars)
  <2> SUFFICES ASSUME SessionInv, [Next]_vars PROVE [Serial!SerialNext]_(Serial!serialVars)
    OBVIOUS
  <2>1. CASE UNCHANGED stores
    BY <2>1, QuietSerial DEF stores, SerialStep, Serial!serialVars
  <2>2. ASSUME NEW t \in Tasks, StoreStep(t) PROVE [Serial!SerialNext]_(Serial!serialVars)
    BY <2>2, StoreSerial DEF SerialStep, Serial!serialVars
  <2>3. ASSUME NEW sha \in 0 .. MaxGen, Reconciling(sha) PROVE [Serial!SerialNext]_(Serial!serialVars)
    BY <2>3, ReconcileSerial DEF SerialStep, Serial!serialVars
  <2> QED BY <2>1, <2>2, <2>3, NextKeeps
<1> QED BY <1>1, <1>2, SessionInvariant, PTL DEF Spec, ImplementsSerial, Serial!SerialSpec
=============================================================================
