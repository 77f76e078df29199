--------------------------- MODULE ControllerEpoch ---------------------------
(***************************************************************************)
(* The controller-epoch protocol of the Kubernetes control store           *)
(* (internal/store/kube/controller_epoch.go) and of the manager that       *)
(* acquires an epoch at takeover (internal/controller/controller_epoch.go).*)
(*                                                                         *)
(* The authority is one coordination Lease: epoch, holder, a digest of the *)
(* mirror its last CAS replaced, and the token of the control-store        *)
(* mutation it is serializing.  The ControllerEpoch object mirrors it.     *)
(* Every API-server call is one step, every write is a compare-and-swap on *)
(* resourceVersion, and a thread may stop for ever between two calls.      *)
(*                                                                         *)
(* A Lease's domain version always equals its epoch                        *)
(* (controllerEpochFromLease rejects any other), and the request digest    *)
(* and timestamps are a function of (epoch, holder), because a holder ID   *)
(* names one process incarnation; so an epoch record is [epoch, holder].   *)
(***************************************************************************)
EXTENDS Integers

CONSTANTS Controllers,    \* controller process incarnations (holder IDs)
          Readers,        \* goroutines calling GetControllerEpoch (upgrade drain)
          None,           \* absent value
          MaxEpoch,       \* bound: epochs granted
          MaxMutations,   \* bound: control-store mutations per controller
          MaxRestores,    \* bound: times an operator loses and restores the Lease
          Overlap         \* TRUE: a controller may start while another still runs

ASSUME ThreadAssumption == Controllers \cap Readers = {}
ASSUME BoundAssumption == /\ MaxEpoch \in Nat \ {0} /\ MaxMutations \in Nat /\ MaxRestores \in Nat
                          /\ Overlap \in BOOLEAN

VARIABLES lease,    \* None or the authoritative Lease
          leaseRV,  \* last resourceVersion issued to the Lease
          restores, \* Leases lost so far; also the UID of the next Lease
          backup,   \* None or a Lease an operator saved
          object,   \* None or the ControllerEpoch mirror object
          expired,  \* mutation tokens whose two minutes are over
          th,       \* th[t]: program counter and locals of thread t
          fence,    \* fence[c]: the epoch controller c acquired, 0 if none
          count,    \* count[c]: mutations controller c has begun
          target,   \* a control record: [rv, epoch] of its last fenced write
          granted   \* history: [epoch, holder] records ever committed to the Lease

vars == <<lease, leaseRV, restores, backup, object, expired, th, fence, count, target, granted>>
authority == <<leaseRV, restores, backup, lease>>

Threads == Controllers \cup Readers

---------------------------------------------------------------------------
\* Values

Tokens == Controllers \X (0..MaxMutations)
Epochs == 1..MaxEpoch
EpochRec == [epoch : Epochs, holder : Controllers]
\* What controllerEpochMirrorDigest hashes, taken as the digest itself.
MirrorDigest == [uid : Nat, epoch : Epochs, holder : Controllers, lrv : Nat]
LeaseRec == [rv : Nat, uid : Nat, epoch : Epochs, holder : Controllers,
             pred : MirrorDigest \cup {None}, token : Tokens \cup {None}]
StatusRec == [epoch : Epochs, holder : Controllers, lrv : Nat]
ObjectRec == [rv : Nat, bound : Nat \cup {None}, marker : Controllers \cup {None},
              status : StatusRec \cup {None}]
Calls == {"start", "recon", "drain", "pre", "post"}
PCs == {"new", "dead", "crashed", "idle", "getLease", "casLease", "casCreateObject",
        "casCreateLease", "casCheck", "casUpdate", "syncLease", "syncObject",
        "syncStatus", "syncRevalidate", "syncMeta", "mutLease", "mutObject",
        "mutUpdate", "mutWrite", "mutRelease"}
DecisionRec == [err : {"ok", "conflict", "fatal"}, write : BOOLEAN, bind : BOOLEAN, clear : BOOLEAN]
ThreadRec == [pc : PCs, call : Calls \cup {None}, pre : EpochRec \cup {None},
              snap : LeaseRec \cup {None}, obj : ObjectRec \cup {None},
              dec : DecisionRec \cup {None}, exp : Nat, tok : Tokens \cup {None}]

\* None is the absent value of every optional field.
ASSUME NoneAssumption == /\ None \notin Controllers /\ None \notin Calls /\ None \notin Tokens
                         /\ None \notin Nat /\ None \notin EpochRec /\ None \notin MirrorDigest
                         /\ None \notin LeaseRec /\ None \notin StatusRec /\ None \notin ObjectRec
                         /\ None \notin DecisionRec

NoThread == [pc |-> "new", call |-> None, pre |-> None, snap |-> None,
             obj |-> None, dec |-> None, exp |-> 0, tok |-> None]
Dead == [NoThread EXCEPT !.pc = "dead"]
Crashed == [NoThread EXCEPT !.pc = "crashed"]
Idle == [NoThread EXCEPT !.pc = "idle"]

EpochOf(l) == [epoch |-> l.epoch, holder |-> l.holder]
Expected(p) == IF p = None THEN 0 ELSE p.epoch

\* Mutant: the expiry is not looked at.
MutantLockNeverExpires(l) == l.token # None

\* controllerEpochMutationLock: a token is present and its expiry is in the future.
controllerEpochMutationLock(l) == l.token # None /\ l.token \notin expired

controllerEpochMirrorDigest(o) ==
    [uid |-> o.bound, epoch |-> o.status.epoch, holder |-> o.status.holder, lrv |-> o.status.lrv]

validateControllerEpochInitializationMarker(o, e) == e.epoch = 1 /\ o.marker = e.holder

validateControllerEpochObjectForLease(o, e) ==
    IF o.status = None THEN validateControllerEpochInitializationMarker(o, e)
    ELSE /\ o.status.epoch = e.epoch /\ o.status.holder = e.holder
         /\ o.marker # None => validateControllerEpochInitializationMarker(o, e)

validateControllerEpochObjectLeaseUID(o, l) == o.bound = l.uid

---------------------------------------------------------------------------
\* validateControllerEpochLeaseUIDBinding: "bound", "blank", "finish" or an error.
validateControllerEpochLeaseUIDBinding(o, l) ==
    CASE o.bound # None -> IF o.bound = l.uid THEN "bound" ELSE "conflict"
      [] o.bound = None /\ o.status = None -> "blank"
      [] OTHER -> IF o.marker = None \/ l.pred # None \/ controllerEpochMutationLock(l) THEN "conflict"
                  ELSE IF validateControllerEpochObjectForLease(o, l) THEN "finish" ELSE "fatal"

Decision(w, b, c) == [err |-> "ok", write |-> w, bind |-> b, clear |-> c]
Refuse(e) == [err |-> e, write |-> FALSE, bind |-> FALSE, clear |-> FALSE]

\* validateControllerEpochStatusSyncState: what a sync of Lease l onto mirror o does.
validateControllerEpochStatusSyncState(o, l) ==
    LET binding == validateControllerEpochLeaseUIDBinding(o, l)
        finish  == binding = "finish"
        status  == o.status
    IN  CASE binding \in {"conflict", "fatal"} -> Refuse(binding)
          [] binding \notin {"conflict", "fatal"} /\ status = None ->
               IF l.pred # None THEN Refuse("conflict")
               ELSE IF ~validateControllerEpochInitializationMarker(o, l) THEN Refuse("fatal")
               ELSE Decision(TRUE, binding # "bound", TRUE)
          [] binding \notin {"conflict", "fatal"} /\ status # None ->
               IF status.epoch = l.epoch
               THEN IF validateControllerEpochObjectForLease(o, l)
                    THEN Decision(status.lrv # l.rv, finish, o.marker # None)
                    ELSE Refuse("fatal")
               ELSE IF \/ status.epoch # l.epoch - 1
                       \/ o.marker # None
                       \/ l.pred = None
                       \/ controllerEpochMirrorDigest(o) # l.pred
                    THEN Refuse("conflict")
                    ELSE Decision(TRUE, finish, finish)

---------------------------------------------------------------------------
Init == /\ lease = None /\ leaseRV = 0 /\ restores = 0 /\ backup = None
        /\ object = None
        /\ expired = {}
        /\ th = [t \in Threads |-> IF t \in Controllers THEN NoThread ELSE Idle]
        /\ fence = [c \in Controllers |-> 0]
        /\ count = [c \in Controllers |-> 0]
        /\ target = [rv |-> 0, epoch |-> 0]
        /\ granted = {}

Set(t, r) == th' = [th EXCEPT ![t] = r]
At(t, pc) == th[t].pc = pc

\* How a thread's call ends when the store returns an error: a conflict sends
\* Start's CAS to its reconciling read, every other error ends the process; the
\* drain goroutine just returns.
Failed(t, kind) ==
    CASE t \in Readers -> Idle
      [] t \in Controllers /\ th[t].call \in {"pre", "post"} /\ kind = "conflict" ->
           [NoThread EXCEPT !.pc = "getLease", !.call = "recon", !.pre = th[t].pre]
      [] OTHER -> Dead

---------------------------------------------------------------------------
(* ControllerEpochManager.Start and the GetControllerEpoch it begins with. *)

Start(c) ==
    /\ At(c, "new")
    /\ Overlap \/ \A d \in Controllers \ {c} : th[d].pc \in {"new", "dead", "crashed"}
    /\ Set(c, [NoThread EXCEPT !.pc = "getLease", !.call = "start"])
    /\ UNCHANGED <<authority, object, expired, fence, count, target, granted>>

\* requireCurrentEpoch of the upgrade drain: runs in a process that has a fence.
DrainRead(r) ==
    /\ At(r, "idle")
    /\ \E c \in Controllers : fence[c] # 0 /\ th[c].pc \notin {"dead", "crashed"}
    /\ Set(r, [NoThread EXCEPT !.pc = "getLease", !.call = "drain"])
    /\ UNCHANGED <<authority, object, expired, fence, count, target, granted>>

\* Start's decision on the epoch a read returned: seen is None or [epoch, holder].
Observe(c, seen) ==
    LET l == th[c] IN
    CASE l.call = "start" ->
           [NoThread EXCEPT !.pc = "casLease", !.call = "pre", !.pre = seen]
      [] l.call = "recon" /\ seen = [epoch |-> Expected(l.pre) + 1, holder |-> c] -> Idle
      [] l.call = "recon" /\ seen = l.pre ->
           [NoThread EXCEPT !.pc = "casLease", !.call = "pre", !.pre = l.pre]
      [] l.call = "recon" /\ seen # None /\ seen # l.pre /\ Expected(seen) > Expected(l.pre)
             /\ seen.holder # c ->
           [NoThread EXCEPT !.pc = "casLease", !.call = "pre", !.pre = seen]
      [] OTHER -> Dead

Acquires(c, seen) == th[c].call = "recon" /\ seen = [epoch |-> Expected(th[c].pre) + 1, holder |-> c]

GetLease(t) ==
    /\ At(t, "getLease")
    /\ \/ /\ lease # None
          /\ Set(t, [th[t] EXCEPT !.pc = "syncLease", !.snap = lease])
       \/ /\ lease = None
          /\ Set(t, IF t \in Readers THEN Idle ELSE Observe(t, None))
    /\ UNCHANGED <<authority, object, expired, fence, count, target, granted>>

---------------------------------------------------------------------------
(* syncControllerEpochStatus: bring the mirror up to the Lease snapshot    *)
(* th[t].snap; first the status, then the Lease UID binding and the marker.*)

\* The sync succeeded: continue the call it is part of.
SyncDone(t) ==
    LET l == th[t] IN
    /\ Set(t, CASE l.call = "drain" -> Idle
                [] l.call = "pre"   -> [l EXCEPT !.pc = "casCheck", !.obj = None, !.dec = None]
                [] l.call = "post"  -> Idle
                [] OTHER            -> Observe(t, EpochOf(l.snap)))
    /\ fence' = IF t \in Controllers /\ (l.call = "post" \/ Acquires(t, EpochOf(l.snap)))
                THEN [fence EXCEPT ![t] = l.snap.epoch] ELSE fence

\* validateControllerEpochLeaseSnapshot, before the object is read and again
\* between the two writes.
SyncLease(t) ==
    LET l == th[t] IN
    /\ l.pc \in {"syncLease", "syncRevalidate"}
    /\ \/ /\ lease = None
          /\ Set(t, IF l.call \in {"start", "recon"} THEN Observe(t, None) ELSE Failed(t, "fatal"))
       \/ /\ lease # None /\ lease.uid # l.snap.uid
          /\ Set(t, Failed(t, "conflict"))
       \/ /\ lease # None /\ lease.uid = l.snap.uid /\ lease.rv # l.snap.rv
          /\ \/ Set(t, Failed(t, "conflict"))
             \/ /\ l.call \in {"start", "recon", "drain"}
                /\ Set(t, [NoThread EXCEPT !.pc = "getLease", !.call = l.call, !.pre = l.pre])
       \/ /\ lease # None /\ lease.uid = l.snap.uid /\ lease.rv = l.snap.rv
          /\ Set(t, [l EXCEPT !.pc = IF l.pc = "syncLease" THEN "syncObject" ELSE "syncMeta"])
    /\ UNCHANGED <<authority, object, expired, fence, count, target, granted>>

\* Mutant: the binding and marker are written without the status.
MutantMetadataFirst(t) ==
    LET l == th[t]
        d == validateControllerEpochStatusSyncState(object, l.snap)
    IN
    /\ At(t, "syncObject")
    /\ object # None /\ d.err = "ok"
    /\ Set(t, [l EXCEPT !.pc = "syncRevalidate", !.obj = object, !.dec = d])
    /\ UNCHANGED <<authority, object, expired, fence, count, target, granted>>

SyncObject(t) ==
    LET l == th[t]
        d == validateControllerEpochStatusSyncState(object, l.snap)
    IN
    /\ At(t, "syncObject")
    /\ \/ /\ object = None
          /\ Set(t, Failed(t, "fatal")) /\ fence' = fence
       \/ /\ object # None /\ d.err # "ok"
          /\ Set(t, Failed(t, d.err)) /\ fence' = fence
       \/ /\ object # None /\ d.err = "ok" /\ (d.write \/ d.bind \/ d.clear)
          /\ Set(t, [l EXCEPT !.pc = IF d.write THEN "syncStatus" ELSE "syncRevalidate",
                              !.obj = object, !.dec = d])
          /\ fence' = fence
       \/ /\ object # None /\ d.err = "ok" /\ ~(d.write \/ d.bind \/ d.clear)
          /\ SyncDone(t)
    /\ UNCHANGED <<authority, object, expired, count, target, granted>>

\* A write of the object that lost its compare-and-swap: RetryOnConflict starts
\* over, or its steps are exhausted and the raw API error ends the call.
SyncConflict(t) ==
    /\ object.rv # th[t].obj.rv
    /\ \/ Set(t, [th[t] EXCEPT !.pc = "syncLease", !.obj = None, !.dec = None])
       \/ Set(t, Failed(t, "fatal"))
    /\ UNCHANGED <<object, fence>>

SyncStatus(t) ==
    LET l == th[t]
        new == [object EXCEPT !.rv = @ + 1,
                 !.status = [epoch |-> l.snap.epoch, holder |-> l.snap.holder, lrv |-> l.snap.rv]]
    IN
    /\ At(t, "syncStatus")
    /\ \/ SyncConflict(t)
       \/ /\ object.rv = l.obj.rv
          /\ object' = new
          /\ \/ /\ l.dec.bind \/ l.dec.clear
                /\ Set(t, [l EXCEPT !.pc = "syncRevalidate", !.obj = new]) /\ fence' = fence
             \/ /\ ~(l.dec.bind \/ l.dec.clear)
                /\ SyncDone(t)
    /\ UNCHANGED <<authority, expired, count, target, granted>>

SyncMeta(t) ==
    LET l == th[t] IN
    /\ At(t, "syncMeta")
    /\ \/ SyncConflict(t)
       \/ /\ object.rv = l.obj.rv
          /\ object' = [object EXCEPT !.rv = @ + 1,
                          !.bound = IF l.dec.bind THEN l.snap.uid ELSE @,
                          !.marker = IF l.dec.clear THEN None ELSE @]
          /\ SyncDone(t)
    /\ UNCHANGED <<authority, expired, count, target, granted>>

---------------------------------------------------------------------------
(* CompareAndSwapControllerEpoch(change), change taking th[c].pre to its   *)
(* successor epoch held by c.                                              *)

CasLease(c) ==
    /\ At(c, "casLease")
    /\ \/ /\ lease # None
          /\ Set(c, [th[c] EXCEPT !.pc = "syncLease", !.call = "pre", !.snap = lease])
       \/ /\ lease = None
          /\ Set(c, IF th[c].pre = None THEN [th[c] EXCEPT !.pc = "casCreateObject"]
                    ELSE Failed(c, "conflict"))
    /\ UNCHANGED <<authority, object, expired, fence, count, target, granted>>

\* Mutant: an object that is already there authorizes epoch 1 as well.
MutantReuseObject(c) ==
    /\ At(c, "casCreateObject")
    /\ object' = IF object # None THEN object
                 ELSE [rv |-> 1, bound |-> None, marker |-> c, status |-> None]
    /\ Set(c, [th[c] EXCEPT !.pc = "casCreateLease"])
    /\ UNCHANGED <<authority, expired, fence, count, target, granted>>

\* createFreshControllerEpochObject: an existing object never authorizes epoch 1.
CasCreateObject(c) ==
    /\ At(c, "casCreateObject")
    /\ \/ /\ object = None
          /\ object' = [rv |-> 1, bound |-> None, marker |-> c, status |-> None]
          /\ Set(c, [th[c] EXCEPT !.pc = "casCreateLease"])
       \/ /\ object # None
          /\ Set(c, Dead) /\ object' = object
    /\ UNCHANGED <<authority, expired, fence, count, target, granted>>

CasCreateLease(c) ==
    LET new == [rv |-> leaseRV + 1, uid |-> restores, epoch |-> 1, holder |-> c,
                pred |-> None, token |-> None]
    IN
    /\ At(c, "casCreateLease")
    /\ \/ /\ lease = None
          /\ lease' = new /\ leaseRV' = new.rv
          /\ granted' = granted \cup {EpochOf(new)}
          /\ Set(c, [th[c] EXCEPT !.pc = "syncLease", !.call = "post", !.snap = new])
       \/ /\ lease # None
          /\ Set(c, [th[c] EXCEPT !.pc = "casLease"])
          /\ UNCHANGED <<lease, leaseRV, granted>>
    /\ UNCHANGED <<restores, backup, object, expired, fence, count, target>>

\* Mutant: the epoch advances without looking at the mutation interlock.
MutantIgnoreInterlock(c) ==
    LET l == th[c] IN
    /\ At(c, "casCheck") /\ l.snap.epoch = Expected(l.pre) /\ object # None /\ object.status # None
    /\ Set(c, [l EXCEPT !.pc = "casUpdate", !.obj = object])
    /\ UNCHANGED <<authority, object, expired, fence, count, target, granted>>

\* After the mirror is in step: the idempotent target, the expected epoch, the
\* mutation interlock, then the mirror the CAS will name as its predecessor.
CasCheck(c) ==
    LET l == th[c]
        go == [l EXCEPT !.pc = "casUpdate", !.obj = object]
    IN
    /\ At(c, "casCheck")
    /\ \/ /\ l.snap.epoch = Expected(l.pre) + 1
          /\ \/ l.snap.holder = c /\ Set(c, Idle) /\ fence' = [fence EXCEPT ![c] = l.snap.epoch]
             \/ l.snap.holder # c /\ Set(c, Failed(c, "conflict")) /\ fence' = fence
       \/ /\ l.snap.epoch # Expected(l.pre) + 1
          /\ fence' = fence
          /\ \/ /\ l.snap.epoch # Expected(l.pre) \/ controllerEpochMutationLock(l.snap)
                /\ Set(c, Failed(c, "conflict"))
             \/ /\ l.snap.epoch = Expected(l.pre) /\ ~controllerEpochMutationLock(l.snap)
                /\ Set(c, CASE object = None -> Dead
                            [] object # None /\ ~validateControllerEpochObjectLeaseUID(object, l.snap) ->
                                 Failed(c, "conflict")
                            [] object # None /\ validateControllerEpochObjectLeaseUID(object, l.snap)
                                 /\ validateControllerEpochObjectForLease(object, l.snap)
                                 /\ object.status # None -> go
                            [] OTHER -> Dead)
    /\ UNCHANGED <<authority, object, expired, count, target, granted>>

\* setControllerEpochLease and the compare-and-swap of the Lease.
CasUpdate(c) ==
    LET l == th[c]
        new == [rv |-> leaseRV + 1, uid |-> l.snap.uid, epoch |-> l.snap.epoch + 1, holder |-> c,
                pred |-> controllerEpochMirrorDigest(l.obj), token |-> None]
    IN
    /\ At(c, "casUpdate") /\ l.snap.epoch < MaxEpoch
    /\ \/ /\ lease = l.snap
          /\ lease' = new /\ leaseRV' = new.rv
          /\ granted' = granted \cup {EpochOf(new)}
          /\ Set(c, [l EXCEPT !.pc = "syncLease", !.call = "post", !.snap = new, !.obj = None])
       \/ /\ lease # l.snap
          /\ Set(c, Failed(c, IF lease = None THEN "fatal" ELSE "conflict"))
          /\ UNCHANGED <<lease, leaseRV, granted>>
    /\ UNCHANGED <<restores, backup, object, expired, fence, count, target>>

---------------------------------------------------------------------------
(* A fenced control-store mutation: requireControllerEpoch, the target's   *)
(* compare-and-swap, releaseControllerEpochMutation.  The process-local    *)
(* semaphore admits one at a time, so it is part of the controller thread. *)

\* The caller reads the record whose version its request will expect.
BeginMutation(c) ==
    /\ At(c, "idle") /\ fence[c] # 0 /\ count[c] < MaxMutations
    /\ count' = [count EXCEPT ![c] = @ + 1]
    /\ Set(c, [NoThread EXCEPT !.pc = "mutLease", !.exp = target.rv])
    /\ UNCHANGED <<authority, object, expired, fence, target, granted>>

MutLease(c) ==
    /\ At(c, "mutLease")
    /\ Set(c, IF lease # None /\ EpochOf(lease) = [epoch |-> fence[c], holder |-> c]
              THEN [th[c] EXCEPT !.pc = "mutObject", !.snap = lease]
              ELSE Idle)
    /\ UNCHANGED <<authority, object, expired, fence, count, target, granted>>

MutObject(c) ==
    LET l == th[c]
        valid == /\ object # None
                 /\ validateControllerEpochObjectLeaseUID(object, l.snap)
                 /\ validateControllerEpochObjectForLease(object, l.snap)
        locked == controllerEpochMutationLock(l.snap)
    IN
    /\ At(c, "mutObject")
    /\ \/ ~valid /\ Set(c, Idle)
       \/ valid /\ ~locked /\ Set(c, [l EXCEPT !.pc = "mutUpdate"])
       \/ valid /\ locked /\ Set(c, [l EXCEPT !.pc = "mutLease", !.snap = None])
       \/ valid /\ locked /\ Set(c, Idle)
    /\ UNCHANGED <<authority, object, expired, fence, count, target, granted>>

MutUpdate(c) ==
    LET l == th[c]
        new == [l.snap EXCEPT !.rv = leaseRV + 1, !.token = <<c, count[c]>>]
    IN
    /\ At(c, "mutUpdate")
    /\ \/ /\ lease = l.snap
          /\ lease' = new /\ leaseRV' = new.rv
          /\ Set(c, [l EXCEPT !.pc = "mutWrite", !.snap = new, !.tok = new.token])
       \/ /\ lease # l.snap
          /\ \/ lease # None /\ Set(c, [l EXCEPT !.pc = "mutLease", !.snap = None])
             \/ Set(c, Idle)
          /\ UNCHANGED <<lease, leaseRV>>
    /\ UNCHANGED <<restores, backup, object, expired, fence, count, target, granted>>

\* Mutant: the target is written whatever its version.
MutantBlindWrite(c) ==
    /\ At(c, "mutWrite")
    /\ target' = [rv |-> target.rv + 1, epoch |-> fence[c]]
    /\ Set(c, [th[c] EXCEPT !.pc = "mutRelease"])
    /\ UNCHANGED <<authority, object, expired, fence, count, granted>>

\* setMutationStatus and the status update of the target: it commits only over
\* the version the caller expected.
MutWrite(c) ==
    /\ At(c, "mutWrite")
    /\ target' = IF target.rv = th[c].exp THEN [rv |-> target.rv + 1, epoch |-> fence[c]] ELSE target
    /\ Set(c, [th[c] EXCEPT !.pc = "mutRelease"])
    /\ UNCHANGED <<authority, object, expired, fence, count, granted>>

\* Releases only its own token; a lost race refreshes the copy or gives up.
MutRelease(c) ==
    LET l == th[c]
        own == l.snap.token = l.tok /\ EpochOf(l.snap) = [epoch |-> fence[c], holder |-> c]
        new == [l.snap EXCEPT !.rv = leaseRV + 1, !.token = None]
    IN
    /\ At(c, "mutRelease")
    /\ \/ /\ own /\ lease = l.snap
          /\ lease' = new /\ leaseRV' = new.rv /\ Set(c, Idle)
       \/ /\ own /\ lease # l.snap
          /\ \/ lease # None /\ Set(c, [l EXCEPT !.snap = lease])
             \/ Set(c, Idle)
          /\ UNCHANGED <<lease, leaseRV>>
       \/ ~own /\ Set(c, Idle) /\ UNCHANGED <<lease, leaseRV>>
    /\ UNCHANGED <<restores, backup, object, expired, fence, count, target, granted>>

---------------------------------------------------------------------------
(* The environment.                                                        *)

\* Two minutes pass since token was written, whatever its mutation is doing.
Expire ==
    /\ lease # None /\ lease.token # None /\ lease.token \notin expired
    /\ expired' = expired \cup {lease.token}
    /\ UNCHANGED <<authority, object, th, fence, count, target, granted>>

\* The process dies, or is never scheduled again.
Crash(c) ==
    /\ th[c].pc \notin {"new", "dead", "crashed"}
    /\ Set(c, Crashed)
    /\ UNCHANGED <<authority, object, expired, fence, count, target, granted>>

\* An operator backs up the Lease, loses it and restores the copy under a new UID.
BackUpLease ==
    /\ lease # None /\ backup = None /\ MaxRestores > 0
    /\ backup' = lease
    /\ UNCHANGED <<lease, leaseRV, restores, object, expired, th, fence, count, target, granted>>

LoseLease ==
    /\ lease # None /\ restores < MaxRestores
    /\ lease' = None /\ restores' = restores + 1
    /\ UNCHANGED <<leaseRV, backup, object, expired, th, fence, count, target, granted>>

RestoreLease ==
    /\ lease = None /\ backup # None
    /\ lease' = [backup EXCEPT !.rv = leaseRV + 1, !.uid = restores] /\ leaseRV' = leaseRV + 1
    /\ UNCHANGED <<restores, backup, object, expired, th, fence, count, target, granted>>

---------------------------------------------------------------------------
ControllerStep(c) ==
    \/ Start(c) \/ CasLease(c) \/ CasCreateObject(c) \/ CasCreateLease(c) \/ CasCheck(c)
    \/ CasUpdate(c) \/ BeginMutation(c) \/ MutLease(c) \/ MutObject(c) \/ MutUpdate(c)
    \/ MutWrite(c) \/ MutRelease(c)

SyncStep(t) ==
    GetLease(t) \/ SyncLease(t) \/ SyncObject(t) \/ SyncStatus(t) \/ SyncMeta(t)

Next == \/ \E c \in Controllers : ControllerStep(c) \/ Crash(c)
        \/ \E r \in Readers : DrainRead(r)
        \/ \E t \in Threads : SyncStep(t)
        \/ Expire \/ BackUpLease \/ LoseLease \/ RestoreLease

Spec == Init /\ [][Next]_vars

\* The scheduler runs every process that can run, and the clock advances.
FairSpec == /\ Spec
            /\ \A c \in Controllers : WF_vars(ControllerStep(c) \/ SyncStep(c))
            /\ WF_vars(Expire)
---------------------------------------------------------------------------
(* Properties                                                              *)

\* Every variable has its type.
TypeOK ==
    /\ lease \in LeaseRec \cup {None} /\ leaseRV \in Nat
    /\ restores \in 0..MaxRestores /\ backup \in LeaseRec \cup {None}
    /\ object \in ObjectRec \cup {None}
    /\ expired \subseteq Tokens
    /\ th \in [Threads -> ThreadRec]
    /\ fence \in [Controllers -> Nat] /\ count \in [Controllers -> 0..MaxMutations]
    /\ target \in [rv : Nat, epoch : Nat]
    /\ granted \subseteq EpochRec

\* CompareAndSwapControllerEpoch never grants one epoch to two holders, whatever
\* interleaving of takeovers, crashes and a lost and restored Lease; so no two
\* controllers ever hold fences of the same epoch.
OneHolderPerEpoch ==
    /\ \A a, b \in granted : a.epoch = b.epoch => a.holder = b.holder
    /\ \A c \in Controllers : fence[c] # 0 => [epoch |-> fence[c], holder |-> c] \in granted

\* syncControllerEpochStatus never takes the mirror past its Lease, leaves it at
\* most one epoch behind, and the holder it shows is the one that was granted.
MirrorFollowsLease ==
    lease # None /\ object # None /\ object.bound = lease.uid =>
        /\ object.status # None
        /\ object.status.epoch \in {lease.epoch, lease.epoch - 1}
        /\ [epoch |-> object.status.epoch, holder |-> object.status.holder] \in granted
        /\ object.status.epoch # lease.epoch =>
              /\ lease.pred # None
              /\ lease.pred.epoch = object.status.epoch /\ lease.pred.holder = object.status.holder

\* While a mutation's lock is unexpired the Lease still carries its token at its
\* epoch: requireControllerEpoch admits one mutation at a time and the epoch CAS
\* waits for it.
InterlockExclusive ==
    \A c \in Controllers :
        /\ At(c, "mutWrite") /\ th[c].tok \notin expired
        /\ lease # None /\ lease.uid = th[c].snap.uid
        => lease.token = th[c].tok /\ EpochOf(lease) = [epoch |-> fence[c], holder |-> c]

\* Even when a write outlives its lock, the version a fenced write expects was
\* read before its fence was checked, so a record once written under an epoch is
\* never overwritten by a holder of an earlier one.
RecordEpochMonotone == [][target'.epoch >= target.epoch]_vars

\* The epoch of a Lease only ever advances by one, and never while the mutation
\* it is serializing is unexpired.
AdvanceRespectsInterlock ==
    [][lease # None /\ lease' # None /\ lease'.uid = lease.uid /\ lease'.epoch # lease.epoch =>
         lease'.epoch = lease.epoch + 1 /\ ~controllerEpochMutationLock(lease)]_vars

\* ControllerEpochManager.Start retries a conflicting CAS until it acquires: a
\* replacement that finds a Lease, whatever its predecessor's crash left half done
\* (an unreleased mutation lock, a mirror one epoch behind, an unbound mirror),
\* acquires an epoch unless it crashes itself.
TakeoverCompletes ==
    \A c \in Controllers :
        At(c, "getLease") /\ th[c].call = "start" /\ lease # None ~> fence[c] # 0 \/ At(c, "crashed")

\* syncControllerEpochStatus can always "reconcile an authenticated prior CAS
\* crash tail" (internal/store/kube/controller_epoch.go:191): a mirror one epoch
\* behind its Lease is the one whose digest the Lease carries.
CrashTailReconcilable ==
    lease # None /\ object # None /\ object.bound = lease.uid /\ object.status # None
    /\ object.status.epoch = lease.epoch - 1
        => controllerEpochMirrorDigest(object) = lease.pred
=============================================================================
