------------------------ MODULE ControllerEpochProofs ------------------------
(***************************************************************************)
(* Proofs about ControllerEpoch, for every set of controllers and readers  *)
(* and every value of the bounds.                                          *)
(***************************************************************************)
EXTENDS ControllerEpoch, TLAPS

\* Zenon proves every leaf that names no other backend.
USE ZenonT(60)

SyncPCs == {"syncLease", "syncObject", "syncStatus", "syncRevalidate", "syncMeta"}
CasPCs == {"casLease", "casCreateObject", "casCreateLease", "casCheck", "casUpdate"}
MutPCs == {"mutLease", "mutObject", "mutUpdate", "mutWrite", "mutRelease"}
Fetched == SyncPCs \cup {"casCheck", "casUpdate", "mutObject", "mutUpdate", "mutWrite", "mutRelease"}

\* What the program counter of thread t says of its locals r.
Shape(t, r) ==
    /\ r \in ThreadRec
    /\ r.pc \in Fetched => r.snap # None
    /\ r.pc \in {"syncStatus", "syncRevalidate", "syncMeta"} => r.obj # None /\ r.dec # None
    /\ r.pc = "casUpdate" => r.obj # None /\ r.obj.bound = r.snap.uid /\ r.obj.status # None
    /\ r.pc \in CasPCs \cup MutPCs => t \in Controllers
    /\ t \in Readers => r.call \in {"drain", None}
    /\ r.call \in {"start", "recon", "pre", "post"} => t \in Controllers
    /\ r.pc \in SyncPCs /\ r.call = "post" => r.snap.holder = t
    /\ r.pc \in SyncPCs => r.call # None
    /\ r.pc = "getLease" => r.call \in {"start", "recon", "drain"}

Shapes == \A t \in Threads : Shape(t, th[t])

Inv0 == TypeOK /\ Shapes /\ ((\E t \in Threads : th[t].obj # None) => object # None)

\* None is no controller, and a thread is a controller or a reader, never both.
LEMMA NoneDistinct ==
    /\ None \notin Controllers
    /\ \A t \in Threads : t \in Controllers <=> t \notin Readers
BY ThreadAssumption, NoneAssumption DEF Threads

\* The records a thread has before it starts, after it ends and between calls are well shaped.
LEMMA ShapeBasic ==
    ASSUME NEW t \in Threads
    PROVE  Shape(t, NoThread) /\ Shape(t, Dead) /\ Shape(t, Crashed) /\ Shape(t, Idle)
BY ThreadAssumption, NoneAssumption DEF Shape, ThreadRec, NoThread, Dead, Crashed, Idle, PCs, Calls, Fetched, SyncPCs, CasPCs, MutPCs, Threads

\* A failed store call leaves its thread well shaped.
LEMMA ShapeFailed ==
    ASSUME NEW t \in Threads, NEW k, Shape(t, th[t])
    PROVE  Shape(t, Failed(t, k))
<1> DEFINE again == [NoThread EXCEPT !.pc = "getLease", !.call = "recon", !.pre = th[t].pre]
<1>1. Failed(t, k) = Idle \/ Failed(t, k) = Dead \/ (t \in Controllers /\ Failed(t, k) = again)
  BY ThreadAssumption DEF Failed, Threads
<1>2. t \in Controllers => Shape(t, again)
  BY ThreadAssumption, NoneAssumption DEF Shape, ThreadRec, NoThread, PCs, Calls, Fetched, SyncPCs, CasPCs, MutPCs
<1> HIDE DEF again
<1>3. Shape(t, Idle) /\ Shape(t, Dead)
  BY ShapeBasic
<1> QED BY <1>1, <1>2, <1>3

\* Start's decision on an observed epoch leaves the controller well shaped.
LEMMA ShapeObserve ==
    ASSUME NEW c \in Controllers, NEW seen \in EpochRec \cup {None}, Shape(c, th[c])
    PROVE  Shape(c, Observe(c, seen))
<1> c \in Threads /\ c \notin Readers
  BY ThreadAssumption, NoneAssumption DEF Threads
<1> DEFINE go(p) == [NoThread EXCEPT !.pc = "casLease", !.call = "pre", !.pre = p]
<1>1. \A p \in EpochRec \cup {None} : Shape(c, go(p))
  BY ThreadAssumption, NoneAssumption DEF Shape, ThreadRec, NoThread, PCs, Calls, Fetched, SyncPCs, CasPCs, MutPCs
<1>2. Observe(c, seen) \in {Dead, Idle, go(seen), go(th[c].pre)}
  BY DEF Observe
<1>3. th[c].pre \in EpochRec \cup {None}
  BY DEF Shape, ThreadRec
<1> QED BY <1>1, <1>2, <1>3, ShapeBasic

\* validateControllerEpochStatusSyncState returns a decision.
LEMMA SyncStateType ==
    ASSUME NEW o \in ObjectRec, NEW l \in LeaseRec
    PROVE  validateControllerEpochStatusSyncState(o, l) \in DecisionRec
<1>1. \A w, b, c \in BOOLEAN : Decision(w, b, c) \in DecisionRec
  BY DEF Decision, DecisionRec
<1>2. \A e \in {"conflict", "fatal"} : Refuse(e) \in DecisionRec
  BY DEF Refuse, DecisionRec
<1>3. validateControllerEpochLeaseUIDBinding(o, l) \in {"bound", "conflict", "blank", "finish", "fatal"}
  BY DEF validateControllerEpochLeaseUIDBinding
<1> QED
  BY <1>1, <1>2, <1>3 DEF validateControllerEpochStatusSyncState

\* Replacing one thread's locals by well-shaped ones.
LEMMA SetThread ==
    ASSUME th \in [Threads -> ThreadRec], Shapes, NEW t \in Threads, NEW r, Shape(t, r), Set(t, r)
    PROVE  th' \in [Threads -> ThreadRec] /\ Shapes'
BY SMTT(60) DEF Shapes, Shape, Set

\* What a step of one thread that writes neither the Lease nor the target leaves alone.
Frame == UNCHANGED <<lease, leaseRV, restores, backup, expired, count, target, granted>>

\* A step of one thread that writes at most the mirror object and its own fence keeps
\* the types and shapes.
LEMMA FrameType ==
    ASSUME Inv0, NEW t \in Threads, NEW r, Shape(t, r), Set(t, r), Frame,
           object' \in ObjectRec \cup {None}, object # None => object' # None,
           r.obj # None => object' # None, fence' \in [Controllers -> Nat]
    PROVE  Inv0'
<1>1. th' \in [Threads -> ThreadRec] /\ Shapes'
  BY SetThread DEF Inv0, TypeOK
<1>2. TypeOK'
  BY <1>1 DEF Inv0, TypeOK, Frame
<1>3. \A u \in Threads : th'[u].obj # None => object' # None
  BY DEF Inv0, Set, TypeOK
<1> QED BY <1>1, <1>2, <1>3 DEF Inv0

\* A failed call holds no copy of the mirror.
LEMMA FailedObj == ASSUME NEW t, NEW k PROVE Failed(t, k).obj = None
BY DEF Failed, Idle, Dead, NoThread

\* Start's next call holds no copy of the mirror.
LEMMA ObserveObj == ASSUME NEW c, NEW seen PROVE Observe(c, seen).obj = None
BY DEF Observe, Idle, Dead, NoThread

\* The initial state is well typed and well shaped.
LEMMA TypeInit == Init => Inv0
<1> SUFFICES ASSUME Init PROVE Inv0
  OBVIOUS
<1>1. \A t \in Threads : Shape(t, th[t]) /\ th[t].obj = None
  BY ShapeBasic DEF Init, NoThread, Idle
<1>2. th \in [Threads -> ThreadRec]
  BY <1>1 DEF Init, Shape
<1>3. TypeOK
  BY SMTT(60), <1>2, BoundAssumption DEF Init, TypeOK
<1> QED BY <1>1, <1>3 DEF Inv0, Shapes

\* GetControllerEpoch and syncControllerEpochStatus keep the types and shapes.
LEMMA TypeSync ==
    ASSUME Inv0, NEW t \in Threads, SyncStep(t)
    PROVE  Inv0'
<1> DEFINE l == th[t]
<1>0. /\ Shape(t, l) /\ l \in ThreadRec /\ fence \in [Controllers -> Nat]
      /\ object \in ObjectRec \cup {None} /\ lease \in LeaseRec \cup {None}
      /\ l.obj # None => object # None
  BY DEF Inv0, Shapes, Shape, TypeOK
<1>a. ASSUME NEW e \in EpochRec \cup {None}, t \in Controllers PROVE Shape(t, Observe(t, e))
  BY <1>0, <1>a, ShapeObserve
<1>b. ASSUME NEW k PROVE Shape(t, Failed(t, k))
  BY <1>0, ShapeFailed
<1>1. CASE GetLease(t)
  <2>1. CASE lease # None
    <3>1. Shape(t, [l EXCEPT !.pc = "syncLease", !.snap = lease])
      BY <1>0, <1>1, <2>1, NoneAssumption DEF GetLease, At, Shape, ThreadRec, PCs, Calls, Fetched, SyncPCs, CasPCs, MutPCs
    <3> QED
      BY <1>0, <1>1, <2>1, <3>1, FrameType DEF GetLease, Frame, authority, ThreadRec
  <2>2. CASE lease = None
    <3> DEFINE r == IF t \in Readers THEN Idle ELSE Observe(t, None)
    <3>1. Shape(t, r) /\ r.obj = None
      BY <1>a, ShapeBasic, ObserveObj, NoneDistinct DEF Idle, NoThread
    <3>2. Set(t, r)
      BY <1>1, <2>2 DEF GetLease
    <3> HIDE DEF r
    <3> QED
      BY <1>0, <1>1, <3>1, <3>2, FrameType DEF GetLease, Frame, authority
  <2> QED BY <2>1, <2>2
<1>2. CASE SyncLease(t)
  <2> DEFINE r1 == IF l.call \in {"start", "recon"} THEN Observe(t, None) ELSE Failed(t, "fatal")
             r2 == [NoThread EXCEPT !.pc = "getLease", !.call = l.call, !.pre = l.pre]
             r3 == [l EXCEPT !.pc = IF l.pc = "syncLease" THEN "syncObject" ELSE "syncMeta"]
  <2>0. l.pc \in {"syncLease", "syncRevalidate"} /\ Frame /\ UNCHANGED <<object, fence>>
    BY <1>2 DEF SyncLease, Frame, authority
  <2>1. Shape(t, r1) /\ r1.obj = None
    BY SMTT(60), <1>0, <1>a, <1>b, FailedObj, ObserveObj DEF Shape
  <2>2. Shape(t, Failed(t, "conflict")) /\ Failed(t, "conflict").obj = None
    BY <1>b, FailedObj
  <2>3. l.call \in {"start", "recon", "drain"} => Shape(t, r2) /\ r2.obj = None
    BY <1>0, NoneAssumption DEF Shape, ThreadRec, NoThread, PCs, Calls, Fetched, SyncPCs, CasPCs, MutPCs
  <2>4. Shape(t, r3) /\ r3.obj = l.obj
    BY SMTT(60), <1>0, <2>0 DEF Shape, ThreadRec, PCs, Fetched, SyncPCs, CasPCs, MutPCs
  <2>5. \/ Set(t, r1) \/ Set(t, Failed(t, "conflict")) \/ Set(t, r3)
        \/ l.call \in {"start", "recon", "drain"} /\ Set(t, r2)
    BY <1>2 DEF SyncLease
  <2> HIDE DEF r1, r2, r3, l
  <2> QED
    BY <1>0, <2>0, <2>1, <2>2, <2>3, <2>4, <2>5, FrameType
<1>. DEFINE done(r) ==
        /\ Set(t, r) /\ Shape(t, r) /\ r.obj = None /\ fence' \in [Controllers -> Nat]
<1>c. ASSUME SyncDone(t), l.pc \in SyncPCs PROVE \E r : done(r)
  <2>1. l.snap \in LeaseRec /\ EpochOf(l.snap) \in EpochRec /\ l.snap.epoch \in Nat
    BY SMTT(60), <1>0, <1>c, BoundAssumption DEF Shape, ThreadRec, Fetched, SyncPCs, LeaseRec, EpochOf, EpochRec, Epochs
  <2>2. fence' \in [Controllers -> Nat]
    BY <1>0, <1>c, <2>1 DEF SyncDone
  <2>3. CASE l.call \in {"drain", "post"}
    BY <1>c, <2>2, <2>3, ShapeBasic DEF SyncDone, Idle, NoThread
  <2>4. CASE l.call = "pre"
    <3> DEFINE r == [l EXCEPT !.pc = "casCheck", !.obj = None, !.dec = None]
    <3>1. Shape(t, r) /\ r.obj = None
      BY <1>0, <1>c, <2>1, <2>4, NoneAssumption DEF Shape, ThreadRec, PCs, Fetched, SyncPCs, CasPCs, MutPCs
    <3>2. Set(t, r)
      BY <1>c, <2>4 DEF SyncDone
    <3> QED BY <2>2, <3>1, <3>2
  <2>5. CASE l.call \in {"start", "recon"}
    <3>1. Set(t, Observe(t, EpochOf(l.snap)))
      BY <1>c, <2>5 DEF SyncDone
    <3>2. Shape(t, Observe(t, EpochOf(l.snap))) /\ Observe(t, EpochOf(l.snap)).obj = None
      BY <1>0, <1>a, <2>1, <2>5, ObserveObj DEF Shape
    <3> QED BY <2>2, <3>1, <3>2
  <2> QED BY <1>0, <1>c, <2>3, <2>4, <2>5 DEF Shape, ThreadRec, Calls
<1>3. CASE SyncObject(t)
  <2> DEFINE d == validateControllerEpochStatusSyncState(object, l.snap)
             r1 == [l EXCEPT !.pc = IF d.write THEN "syncStatus" ELSE "syncRevalidate",
                             !.obj = object, !.dec = d]
  <2>0. l.pc = "syncObject" /\ l.pc \in SyncPCs /\ l.snap \in LeaseRec /\ Frame /\ object' = object
    BY <1>0, <1>3 DEF SyncObject, At, Frame, authority, SyncPCs, Shape, ThreadRec, Fetched
  <2>1. object # None => d \in DecisionRec
    BY <1>0, <2>0, SyncStateType
  <2> HIDE DEF d
  <2>2. object # None => Shape(t, r1) /\ r1.obj # None
    BY <1>0, <2>0, <2>1, NoneAssumption DEF Shape, ThreadRec, PCs, Fetched, SyncPCs, CasPCs, MutPCs
  <2>3. \/ \E k : Set(t, Failed(t, k)) /\ fence' = fence
        \/ object # None /\ Set(t, r1) /\ fence' = fence
        \/ SyncDone(t)
    BY <1>3 DEF SyncObject, d
  <2> HIDE DEF r1, l
  <2>4. CASE \E k : Set(t, Failed(t, k)) /\ fence' = fence
    BY <1>0, <1>b, <2>0, <2>4, FailedObj, FrameType
  <2>5. CASE object # None /\ Set(t, r1) /\ fence' = fence
    BY <1>0, <2>0, <2>2, <2>5, FrameType
  <2>6. CASE SyncDone(t)
    BY <1>0, <1>c, <2>0, <2>6, FrameType
  <2> QED BY <2>3, <2>4, <2>5, <2>6
<1>d. ASSUME SyncConflict(t), Frame, l.pc \in SyncPCs PROVE Inv0'
  <2> DEFINE r1 == [l EXCEPT !.pc = "syncLease", !.obj = None, !.dec = None]
  <2>1. Shape(t, r1) /\ r1.obj = None
    BY <1>0, <1>d, NoneAssumption DEF Shape, ThreadRec, PCs, Fetched, SyncPCs, CasPCs, MutPCs
  <2>2. (Set(t, r1) \/ Set(t, Failed(t, "fatal"))) /\ UNCHANGED <<object, fence>>
    BY <1>d DEF SyncConflict
  <2> HIDE DEF r1, l
  <2> QED BY <1>0, <1>b, <1>d, <2>1, <2>2, FailedObj, FrameType
<1>4. CASE SyncStatus(t)
  <2> DEFINE new == [object EXCEPT !.rv = @ + 1,
                      !.status = [epoch |-> l.snap.epoch, holder |-> l.snap.holder, lrv |-> l.snap.rv]]
             r1 == [l EXCEPT !.pc = "syncRevalidate", !.obj = new]
  <2>0. l.pc = "syncStatus" /\ l.pc \in SyncPCs /\ l.snap \in LeaseRec /\ Frame /\ object \in ObjectRec
    BY <1>0, <1>4 DEF SyncStatus, At, Frame, authority, SyncPCs, Shape, ThreadRec, Fetched
  <2>1. new \in ObjectRec
    <3>1. object.rv + 1 \in Nat
      BY SMTT(60), <2>0 DEF ObjectRec
    <3> QED BY <2>0, <3>1 DEF ObjectRec, LeaseRec, StatusRec
  <2> HIDE DEF new
  <2>2. Shape(t, r1) /\ r1.obj = new /\ new # None
    BY <1>0, <2>0, <2>1, NoneAssumption DEF Shape, ThreadRec, PCs, Fetched, SyncPCs, CasPCs, MutPCs
  <2>3. \/ SyncConflict(t)
        \/ object' = new /\ Set(t, r1) /\ fence' = fence
        \/ object' = new /\ SyncDone(t)
    BY <1>4 DEF SyncStatus, new
  <2> HIDE DEF r1, l
  <2>4. CASE object' = new /\ Set(t, r1) /\ fence' = fence
    BY <1>0, <2>0, <2>1, <2>2, <2>4, FrameType
  <2>5. CASE object' = new /\ SyncDone(t)
    BY <1>0, <1>c, <2>0, <2>1, <2>2, <2>5, FrameType
  <2> QED BY <1>d, <2>0, <2>3, <2>4, <2>5
<1>5. CASE SyncMeta(t)
  <2> DEFINE new == [object EXCEPT !.rv = @ + 1,
                      !.bound = IF l.dec.bind THEN l.snap.uid ELSE @,
                      !.marker = IF l.dec.clear THEN None ELSE @]
  <2>0. l.pc = "syncMeta" /\ l.pc \in SyncPCs /\ l.snap \in LeaseRec /\ Frame /\ object \in ObjectRec
    BY <1>0, <1>5 DEF SyncMeta, At, Frame, authority, SyncPCs, Shape, ThreadRec, Fetched
  <2>1. new \in ObjectRec /\ new # None
    <3>1. object.rv + 1 \in Nat
      BY SMTT(60), <2>0 DEF ObjectRec
    <3>2. new \in ObjectRec
      BY <2>0, <3>1 DEF ObjectRec, LeaseRec
    <3> QED BY <3>2, NoneAssumption
  <2>2. SyncConflict(t) \/ (object' = new /\ SyncDone(t))
    BY <1>5 DEF SyncMeta
  <2> HIDE DEF new, l
  <2>3. CASE object' = new /\ SyncDone(t)
    BY <1>0, <1>c, <2>0, <2>1, <2>3, FrameType
  <2> QED BY <1>d, <2>0, <2>2, <2>3
<1> QED BY <1>1, <1>2, <1>3, <1>4, <1>5 DEF SyncStep

\* A step of thread t that writes the Lease, the record or a counter.
LEMMA WriteType ==
    ASSUME Inv0, NEW t \in Threads, NEW r, Shape(t, r), Set(t, r), r.obj = th[t].obj \/ r.obj = None,
           lease' \in LeaseRec \cup {None}, leaseRV' \in Nat, granted' \subseteq EpochRec,
           count' \in [Controllers -> 0..MaxMutations], target' \in [rv : Nat, epoch : Nat],
           UNCHANGED <<restores, backup, object, expired, fence>>
    PROVE  Inv0'
<1>1. th' \in [Threads -> ThreadRec] /\ Shapes'
  BY SetThread DEF Inv0, TypeOK
<1>2. TypeOK'
  BY <1>1 DEF Inv0, TypeOK
<1>3. \A u \in Threads : th'[u].obj # None => object' # None
  BY DEF Inv0, Set, TypeOK
<1> QED BY <1>1, <1>2, <1>3 DEF Inv0

\* Every controller step keeps the types and shapes.
LEMMA TypeController ==
    ASSUME Inv0, NEW c \in Controllers, ControllerStep(c) \/ Crash(c)
    PROVE  Inv0'
<1> DEFINE l == th[c]
<1>0. /\ Shape(c, l) /\ l \in ThreadRec /\ fence \in [Controllers -> Nat] /\ c \in Threads /\ c \notin Readers
      /\ object \in ObjectRec \cup {None} /\ lease \in LeaseRec \cup {None} /\ leaseRV \in Nat
      /\ l.obj # None => object # None
      /\ granted \subseteq EpochRec /\ count \in [Controllers -> 0..MaxMutations]
      /\ target \in [rv : Nat, epoch : Nat] /\ restores \in Nat
  BY SMTT(60), ThreadAssumption, BoundAssumption DEF Inv0, Shapes, Shape, TypeOK, Threads
<1>a. c \in Threads /\ c \notin Readers
  BY ThreadAssumption DEF Threads
<1>b. ASSUME NEW k PROVE Shape(c, Failed(c, k)) /\ Failed(c, k).obj = None
  BY <1>0, ShapeFailed, FailedObj
<1>d. Shape(c, Dead) /\ Shape(c, Idle) /\ Dead.obj = None /\ Idle.obj = None
  BY <1>0, ShapeBasic DEF Dead, Idle, NoThread
<1>1. CASE Crash(c)
  <2>1. Shape(c, Crashed) /\ Crashed.obj = None
    BY <1>0, ShapeBasic DEF Crashed, NoThread
  <2> QED BY <1>0, <1>1, <2>1, FrameType DEF Crash, Frame, authority
<1>2. CASE Start(c)
  <2> DEFINE r == [NoThread EXCEPT !.pc = "getLease", !.call = "start"]
  <2>1. Shape(c, r) /\ r.obj = None
    BY <1>a, NoneAssumption DEF Shape, ThreadRec, NoThread, PCs, Calls, Fetched, SyncPCs, CasPCs, MutPCs
  <2>2. Set(c, r)
    BY <1>2 DEF Start
  <2> HIDE DEF r
  <2> QED BY <1>0, <1>2, <2>1, <2>2, FrameType DEF Start, Frame, authority
<1>3. CASE CasLease(c)
  <2> DEFINE r1 == [l EXCEPT !.pc = "syncLease", !.call = "pre", !.snap = lease]
             r2 == [l EXCEPT !.pc = "casCreateObject"]
  <2>0. l.pc = "casLease"
    BY <1>3 DEF CasLease, At
  <2>1. lease # None => Shape(c, r1) /\ r1.obj = l.obj
    BY <1>0, <2>0, NoneAssumption DEF Shape, ThreadRec, PCs, Calls, Fetched, SyncPCs, CasPCs, MutPCs
  <2>2. Shape(c, r2) /\ r2.obj = l.obj
    BY SMTT(60), <1>0, <2>0, NoneAssumption DEF Shape, ThreadRec, PCs, Fetched, SyncPCs, CasPCs, MutPCs
  <2>3. (lease # None /\ Set(c, r1)) \/ Set(c, r2) \/ Set(c, Failed(c, "conflict"))
    BY <1>3 DEF CasLease
  <2>4. Frame /\ UNCHANGED <<object, fence>>
    BY <1>3 DEF CasLease, Frame, authority
  <2> HIDE DEF r1, r2, l
  <2> QED BY <1>0, <1>b, <2>1, <2>2, <2>3, <2>4, FrameType
<1>4. CASE CasCreateObject(c)
  <2> DEFINE r == [l EXCEPT !.pc = "casCreateLease"]
             new == [rv |-> 1, bound |-> None, marker |-> c, status |-> None]
  <2>0. l.pc = "casCreateObject"
    BY <1>4 DEF CasCreateObject, At
  <2>1. Shape(c, r)
    BY SMTT(60), <1>0, <2>0 DEF Shape, ThreadRec, PCs, Fetched, SyncPCs, CasPCs, MutPCs
  <2>2. new \in ObjectRec /\ new # None
    <3>1. new \in ObjectRec
      BY DEF ObjectRec
    <3> QED BY <3>1, NoneAssumption
  <2>3. \/ object' = new /\ Set(c, r)
        \/ object' = object /\ Set(c, Dead)
    BY <1>4 DEF CasCreateObject
  <2>4. Frame /\ UNCHANGED fence
    BY <1>4 DEF CasCreateObject, Frame, authority
  <2> HIDE DEF new, r, l
  <2> QED BY <1>0, <1>d, <2>1, <2>2, <2>3, <2>4, FrameType
<1>5. CASE CasCreateLease(c)
  <2> DEFINE new == [rv |-> leaseRV + 1, uid |-> restores, epoch |-> 1, holder |-> c,
                     pred |-> None, token |-> None]
             r1 == [l EXCEPT !.pc = "syncLease", !.call = "post", !.snap = new]
             r2 == [l EXCEPT !.pc = "casLease"]
  <2>0. l.pc = "casCreateLease" /\ UNCHANGED <<restores, backup, object, expired, fence, count, target>>
    BY <1>5 DEF CasCreateLease, At
  <2>1. new \in LeaseRec /\ new.holder = c /\ new.rv \in Nat /\ EpochOf(new) \in EpochRec
    <3>1. leaseRV + 1 \in Nat /\ 1 \in Epochs
      BY SMTT(60), <1>0, BoundAssumption DEF Epochs
    <3> QED BY <1>0, <3>1 DEF LeaseRec, EpochOf, EpochRec
  <2>2. \/ lease' = new /\ leaseRV' = new.rv /\ granted' = granted \cup {EpochOf(new)} /\ Set(c, r1)
        \/ Set(c, r2) /\ UNCHANGED <<lease, leaseRV, granted>>
    BY <1>5 DEF CasCreateLease
  <2> HIDE DEF new
  <2>a. l \in ThreadRec /\ c \notin Readers /\ new # None /\ Shape(c, l)
    BY <1>0, <1>a, <2>1, NoneAssumption
  <2>3. Shape(c, r1) /\ r1.obj = l.obj
    <3>1. r1 \in ThreadRec
      BY <2>1, <2>a DEF ThreadRec, PCs, Calls
    <3>2. r1.pc = "syncLease" /\ r1.call = "post" /\ r1.snap = new /\ r1.obj = l.obj
      BY <2>a DEF ThreadRec
    <3> HIDE DEF r1
    <3> QED BY <2>1, <2>a, <3>1, <3>2, NoneAssumption DEF Shape, Calls, Fetched, SyncPCs, CasPCs, MutPCs
  <2>4. Shape(c, r2) /\ r2.obj = l.obj
    BY SMTT(60), <1>0, <2>0, NoneAssumption DEF Shape, ThreadRec, PCs, Calls, Fetched, SyncPCs, CasPCs, MutPCs
  <2> HIDE DEF r1, r2
  <2> QED BY <1>0, <2>0, <2>1, <2>2, <2>3, <2>4, WriteType
<1>6. CASE CasCheck(c)
  <2> DEFINE go == [l EXCEPT !.pc = "casUpdate", !.obj = object]
  <2>0. l.pc = "casCheck" /\ l.snap \in LeaseRec /\ Frame /\ object' = object
    BY <1>0, <1>6 DEF CasCheck, At, Frame, authority, Shape, ThreadRec, Fetched
  <2>1. fence' \in [Controllers -> Nat]
    BY SMTT(60), <1>0, <1>6, <2>0, BoundAssumption DEF CasCheck, LeaseRec, Epochs
  <2>2. object # None /\ object.bound = l.snap.uid /\ object.status # None
        => Shape(c, go) /\ go.obj # None
    BY <1>0, <2>0 DEF Shape, ThreadRec, PCs, Fetched, SyncPCs, CasPCs, MutPCs
  <2>3. \/ \E k : Set(c, Failed(c, k))
        \/ Set(c, Idle) \/ Set(c, Dead)
        \/ object # None /\ object.bound = l.snap.uid /\ object.status # None /\ Set(c, go)
    BY <1>6 DEF CasCheck, validateControllerEpochObjectLeaseUID
  <2> HIDE DEF go, l
  <2> QED BY <1>0, <1>b, <1>d, <2>0, <2>1, <2>2, <2>3, FrameType
<1>7. CASE CasUpdate(c)
  <2> DEFINE new == [rv |-> leaseRV + 1, uid |-> l.snap.uid, epoch |-> l.snap.epoch + 1, holder |-> c,
                     pred |-> controllerEpochMirrorDigest(l.obj), token |-> None]
             r == [l EXCEPT !.pc = "syncLease", !.call = "post", !.snap = new, !.obj = None]
  <2>0. /\ l.pc = "casUpdate" /\ l.snap \in LeaseRec /\ l.obj \in ObjectRec /\ l.snap.epoch < MaxEpoch
        /\ l.obj.bound = l.snap.uid /\ l.obj.status # None
        /\ UNCHANGED <<restores, backup, object, expired, fence, count, target>>
    BY <1>0, <1>7 DEF CasUpdate, At, Shape, ThreadRec, Fetched
  <2>1. controllerEpochMirrorDigest(l.obj) \in MirrorDigest
    BY <2>0 DEF controllerEpochMirrorDigest, MirrorDigest, ObjectRec, StatusRec, LeaseRec
  <2>2. new \in LeaseRec /\ new.holder = c /\ new.rv \in Nat /\ EpochOf(new) \in EpochRec
    <3>1. leaseRV + 1 \in Nat /\ l.snap.epoch + 1 \in Epochs
      BY SMTT(60), <1>0, <2>0, BoundAssumption DEF Epochs, LeaseRec
    <3> QED BY <1>0, <2>0, <2>1, <3>1 DEF LeaseRec, EpochOf, EpochRec
  <2>3. \/ lease' = new /\ leaseRV' = new.rv /\ granted' = granted \cup {EpochOf(new)} /\ Set(c, r)
        \/ (\E k : Set(c, Failed(c, k))) /\ UNCHANGED <<lease, leaseRV, granted>>
    BY <1>7 DEF CasUpdate
  <2> HIDE DEF new
  <2>4. Shape(c, r) /\ r.obj = None
    BY <1>0, <2>0, <2>2, NoneAssumption DEF Shape, ThreadRec, PCs, Calls, Fetched, SyncPCs, CasPCs, MutPCs
  <2> HIDE DEF r, l
  <2> QED BY <1>0, <1>b, <2>0, <2>2, <2>3, <2>4, WriteType
<1>8. CASE BeginMutation(c)
  <2> DEFINE r == [NoThread EXCEPT !.pc = "mutLease", !.exp = target.rv]
  <2>1. Shape(c, r) /\ r.obj = None
    <3>1. target.rv \in Nat
      BY <1>0
    <3> QED BY <1>a, <3>1, NoneAssumption DEF Shape, ThreadRec, NoThread, PCs, Calls, Fetched, SyncPCs, CasPCs, MutPCs
  <2>2. Set(c, r) /\ UNCHANGED <<authority, object, expired, fence, target, granted>>
    BY <1>8 DEF BeginMutation
  <2>3. count' \in [Controllers -> 0..MaxMutations]
    BY SMTT(60), <1>0, <1>8, BoundAssumption DEF BeginMutation
  <2> HIDE DEF r
  <2> QED BY <1>0, <2>1, <2>2, <2>3, WriteType DEF authority
<1>9. CASE MutLease(c)
  <2> DEFINE r == [l EXCEPT !.pc = "mutObject", !.snap = lease]
  <2>0. l.pc = "mutLease" /\ Frame /\ UNCHANGED <<object, fence>>
    BY <1>9 DEF MutLease, At, Frame, authority
  <2>1. lease # None => Shape(c, r) /\ r.obj = l.obj
    BY <1>0, <2>0 DEF Shape, ThreadRec, PCs, Fetched, SyncPCs, CasPCs, MutPCs
  <2>2. (lease # None /\ Set(c, r)) \/ Set(c, Idle)
    BY <1>9 DEF MutLease
  <2> HIDE DEF r, l
  <2> QED BY <1>0, <1>d, <2>0, <2>1, <2>2, FrameType
<1>10. CASE MutObject(c)
  <2> DEFINE r1 == [l EXCEPT !.pc = "mutUpdate"]
             r2 == [l EXCEPT !.pc = "mutLease", !.snap = None]
  <2>0. l.pc = "mutObject" /\ Frame /\ UNCHANGED <<object, fence>>
    BY <1>10 DEF MutObject, At, Frame, authority
  <2>1. Shape(c, r1) /\ r1.obj = l.obj
    BY SMTT(60), <1>0, <2>0 DEF Shape, ThreadRec, PCs, Fetched, SyncPCs, CasPCs, MutPCs
  <2>2. Shape(c, r2) /\ r2.obj = l.obj
    BY <1>0, <2>0 DEF Shape, ThreadRec, PCs, Fetched, SyncPCs, CasPCs, MutPCs
  <2>3. Set(c, r1) \/ Set(c, r2) \/ Set(c, Idle)
    BY <1>10 DEF MutObject
  <2> HIDE DEF r1, r2, l
  <2> QED BY <1>0, <1>d, <2>0, <2>1, <2>2, <2>3, FrameType
<1>11. CASE MutUpdate(c)
  <2> DEFINE new == [l.snap EXCEPT !.rv = leaseRV + 1, !.token = <<c, count[c]>>]
             r1 == [l EXCEPT !.pc = "mutWrite", !.snap = new, !.tok = new.token]
             r2 == [l EXCEPT !.pc = "mutLease", !.snap = None]
  <2>0. /\ l.pc = "mutUpdate" /\ l.snap \in LeaseRec
        /\ UNCHANGED <<restores, backup, object, expired, fence, count, target, granted>>
    BY <1>0, <1>11 DEF MutUpdate, At, Shape, ThreadRec, Fetched
  <2>1. new \in LeaseRec /\ new.rv \in Nat /\ new.token \in Tokens
    <3>1. leaseRV + 1 \in Nat /\ <<c, count[c]>> \in Tokens
      BY SMTT(60), <1>0 DEF Tokens
    <3> QED BY <2>0, <3>1 DEF LeaseRec
  <2>2. \/ lease' = new /\ leaseRV' = new.rv /\ Set(c, r1)
        \/ (Set(c, r2) \/ Set(c, Idle)) /\ UNCHANGED <<lease, leaseRV>>
    BY <1>11 DEF MutUpdate
  <2> HIDE DEF new
  <2>3. Shape(c, r1) /\ r1.obj = l.obj
    BY <1>0, <2>0, <2>1, NoneAssumption DEF Shape, ThreadRec, PCs, Fetched, SyncPCs, CasPCs, MutPCs
  <2>4. Shape(c, r2) /\ r2.obj = l.obj
    BY <1>0, <2>0, NoneAssumption DEF Shape, ThreadRec, PCs, Fetched, SyncPCs, CasPCs, MutPCs
  <2> HIDE DEF r1, r2
  <2> QED BY <1>0, <1>d, <2>0, <2>1, <2>2, <2>3, <2>4, WriteType
<1>12. CASE MutWrite(c)
  <2> DEFINE r == [l EXCEPT !.pc = "mutRelease"]
  <2>0. l.pc = "mutWrite" /\ Set(c, r) /\ UNCHANGED <<authority, object, expired, fence, count, granted>>
    BY <1>12 DEF MutWrite, At
  <2>1. Shape(c, r) /\ r.obj = l.obj
    BY SMTT(60), <1>0, <2>0 DEF Shape, ThreadRec, PCs, Fetched, SyncPCs, CasPCs, MutPCs
  <2>2. target' \in [rv : Nat, epoch : Nat]
    BY SMTT(60), <1>0, <1>12 DEF MutWrite
  <2> HIDE DEF r
  <2> QED BY <1>0, <2>0, <2>1, <2>2, WriteType DEF authority
<1>13. CASE MutRelease(c)
  <2> DEFINE new == [l.snap EXCEPT !.rv = leaseRV + 1, !.token = None]
             r == [l EXCEPT !.snap = lease]
  <2>0. /\ l.pc = "mutRelease" /\ l.snap \in LeaseRec
        /\ UNCHANGED <<restores, backup, object, expired, fence, count, target, granted>>
    BY <1>0, <1>13 DEF MutRelease, At, Shape, ThreadRec, Fetched
  <2>1. new \in LeaseRec /\ new.rv \in Nat
    <3>1. leaseRV + 1 \in Nat
      BY SMTT(60), <1>0
    <3> QED BY <2>0, <3>1 DEF LeaseRec
  <2>2. \/ lease' = new /\ leaseRV' = new.rv /\ Set(c, Idle)
        \/ ((lease # None /\ Set(c, r)) \/ Set(c, Idle)) /\ UNCHANGED <<lease, leaseRV>>
    BY <1>13 DEF MutRelease
  <2> HIDE DEF new
  <2>3. lease # None => Shape(c, r) /\ r.obj = l.obj
    BY <1>0, <2>0 DEF Shape, ThreadRec, PCs, Fetched, SyncPCs, CasPCs, MutPCs
  <2> HIDE DEF r
  <2> QED BY <1>0, <1>d, <2>0, <2>1, <2>2, <2>3, WriteType
<1> QED
  BY <1>1, <1>2, <1>3, <1>4, <1>5, <1>6, <1>7, <1>8, <1>9, <1>10, <1>11, <1>12, <1>13 DEF ControllerStep

\* Every step keeps the types and shapes.
LEMMA TypeNext == Inv0 /\ [Next]_vars => Inv0'
<1> SUFFICES ASSUME Inv0, [Next]_vars PROVE Inv0'
  OBVIOUS
<1>1. CASE \E c \in Controllers : ControllerStep(c) \/ Crash(c)
  BY <1>1, TypeController
<1>2. ASSUME NEW r \in Readers, DrainRead(r) PROVE Inv0'
  <2> DEFINE n == [NoThread EXCEPT !.pc = "getLease", !.call = "drain"]
  <2>1. r \in Threads /\ Shape(r, n) /\ n.obj = None
    BY NoneAssumption DEF Shape, ThreadRec, NoThread, PCs, Calls, Fetched, SyncPCs, CasPCs, MutPCs, Threads
  <2>2. Set(r, n) /\ Frame /\ UNCHANGED <<object, fence>>
    BY <1>2 DEF DrainRead, Frame, authority
  <2>3. object \in ObjectRec \cup {None} /\ fence \in [Controllers -> Nat]
    BY DEF Inv0, TypeOK
  <2> HIDE DEF n
  <2> QED BY <2>1, <2>2, <2>3, FrameType
<1>3. CASE \E t \in Threads : SyncStep(t)
  BY <1>3, TypeSync
<1>4. CASE Expire
  BY <1>4 DEF Expire, authority, Inv0, TypeOK, Shapes, LeaseRec
<1>5. CASE BackUpLease
  BY <1>5 DEF BackUpLease, Inv0, TypeOK, Shapes
<1>6. CASE LoseLease
  BY SMTT(60), <1>6, BoundAssumption DEF LoseLease, Inv0, TypeOK, Shapes
<1>7. CASE RestoreLease
  <2>1. leaseRV' \in Nat /\ restores \in Nat
    BY SMTT(60), <1>7, BoundAssumption DEF RestoreLease, Inv0, TypeOK
  <2>2. lease' \in LeaseRec
    BY <1>7, <2>1 DEF RestoreLease, Inv0, TypeOK, LeaseRec
  <2> QED BY <1>7, <2>1, <2>2 DEF RestoreLease, Inv0, TypeOK, Shapes
<1>8. CASE UNCHANGED vars
  BY <1>8 DEF vars, Inv0, TypeOK, Shapes
<1> QED BY <1>1, <1>2, <1>3, <1>4, <1>5, <1>6, <1>7, <1>8 DEF Next

\* Every variable of the epoch protocol keeps its type, for any number of
\* controllers, drain readers, mutations, epochs and restores.
THEOREM TypeCorrect == Spec => []TypeOK
<1>1. Inv0 => TypeOK
  BY DEF Inv0
<1> QED BY <1>1, TypeInit, TypeNext, PTL DEF Spec


---------------------------------------------------------------------------
(* One holder per epoch. *)

\* What a thread with locals l has read agrees with the authority: its Lease
\* copy was granted and is of this Lease or an earlier one; its mirror copy is
\* the mirror unless the mirror has a later resourceVersion.
Knows(l) ==
    /\ l.snap # None => /\ EpochOf(l.snap) \in granted
                        /\ l.snap.uid <= restores
                        /\ lease = None => l.snap.uid < restores
    /\ l.obj # None => /\ l.obj.rv <= object.rv
                       /\ l.obj.rv = object.rv => l.obj = object
                       /\ l.obj.bound # None => object.bound = l.obj.bound
    /\ l.dec # None /\ l.dec.bind => l.obj # None /\ l.obj.bound = None
    /\ l.pc = "casCreateLease" => granted = {} /\ object # None
    /\ l.pc \in {"casCheck", "casUpdate"} => l.dec = None

Authority ==
    /\ lease # None => lease.uid = restores /\ EpochOf(lease) \in granted
    /\ backup # None => EpochOf(backup) \in granted
    /\ object = None => granted = {}
    /\ object # None /\ object.bound = None => \A g \in granted : g.epoch = 1
    /\ object # None /\ object.bound # None =>
          /\ object.bound <= restores
          /\ lease = None => object.bound < restores
          /\ lease # None /\ object.bound = lease.uid => \A g \in granted : g.epoch <= lease.epoch

AuthorityInv ==
    /\ Authority /\ OneHolderPerEpoch
    /\ \A t \in Threads : Knows(th[t])
    /\ \A c, d \in Controllers : At(c, "casCreateLease") /\ At(d, "casCreateLease") => c = d

\* Locals that hold nothing that was read.
Blank(r) == r.snap = None /\ r.obj = None /\ r.dec = None /\ r.pc # "casCreateLease"

\* Locals that hold nothing agree with any authority.
LEMMA BlankKnows == ASSUME NEW r, Blank(r) PROVE Knows(r)
BY DEF Blank, Knows

\* Between calls, after an error and after Start's decision nothing read is kept.
LEMMA BlankRecords ==
    /\ Blank(NoThread) /\ Blank(Idle) /\ Blank(Dead) /\ Blank(Crashed)
    /\ \A t, k : Blank(Failed(t, k))
    /\ \A c, seen : Blank(Observe(c, seen))
<1>1. Blank(NoThread) /\ Blank(Idle) /\ Blank(Dead) /\ Blank(Crashed)
  BY DEF Blank, NoThread, Idle, Dead, Crashed
<1>2. ASSUME NEW t, NEW k PROVE Blank(Failed(t, k))
  BY DEF Blank, Failed, NoThread, Idle, Dead
<1>3. ASSUME NEW c, NEW seen PROVE Blank(Observe(c, seen))
  BY DEF Blank, Observe, NoThread, Idle, Dead
<1> QED BY <1>1, <1>2, <1>3

\* A step of one thread that leaves Lease and mirror alone, and gives out a fence
\* only for an epoch that was granted to it.
LEMMA AuthorityFrame ==
    ASSUME Inv0, AuthorityInv, NEW t \in Threads, NEW r, Set(t, r), Knows(r), r.pc # "casCreateLease",
           UNCHANGED <<lease, restores, backup, granted, object>>,
           \/ fence' = fence
           \/ t \in Controllers /\ \E e : /\ fence' = [fence EXCEPT ![t] = e]
                                          /\ [epoch |-> e, holder |-> t] \in granted
    PROVE  AuthorityInv'
<1>1. \A u \in Threads : th'[u] = IF u = t THEN r ELSE th[u]
  BY DEF Inv0, TypeOK, Set
<1>2. \A u \in Threads : Knows(th[u])' <=> IF u = t THEN Knows(r) ELSE Knows(th[u])
  BY SMTT(60), <1>1 DEF Knows
<1>3. \A u \in Threads : Knows(th[u])'
  BY <1>2 DEF AuthorityInv
<1>4. Authority'
  BY DEF AuthorityInv, Authority
<1>5. OneHolderPerEpoch'
  BY DEF AuthorityInv, OneHolderPerEpoch, Inv0, TypeOK
<1>6. ASSUME NEW c \in Controllers, NEW d \in Controllers, At(c, "casCreateLease")', At(d, "casCreateLease")'
      PROVE  c = d
  BY <1>1, <1>6 DEF AuthorityInv, At, Threads
<1> QED BY <1>3, <1>4, <1>5, <1>6 DEF AuthorityInv

\* A sync decides to bind only a mirror that is unbound.
LEMMA BindsUnbound ==
    ASSUME NEW o, NEW l, validateControllerEpochStatusSyncState(o, l).bind
    PROVE  o.bound = None
<1>1. \A w, b, c : Decision(w, b, c).bind = b
  BY DEF Decision
<1>2. \A e : Refuse(e).bind = FALSE
  BY DEF Refuse
<1>3. o.bound # None => validateControllerEpochLeaseUIDBinding(o, l) \in {"bound", "conflict"}
  BY DEF validateControllerEpochLeaseUIDBinding
<1> QED BY <1>1, <1>2, <1>3 DEF validateControllerEpochStatusSyncState

\* A thread that read before keeps what it knows when only its position changes.
LEMMA KnowsKept ==
    ASSUME NEW l, NEW r, Knows(l), r.snap = l.snap, r.obj = l.obj \/ r.obj = None,
           (r.dec = l.dec /\ r.obj = l.obj) \/ r.dec = None, r.pc # "casCreateLease",
           r.pc \in {"casCheck", "casUpdate"} => r.dec = None
    PROVE  Knows(r)
BY DEF Knows

\* The end of a sync: the thread goes on with what it knows, and a fence it
\* takes was granted to it.
LEMMA SyncDoneAuthority ==
    ASSUME Inv0, AuthorityInv, NEW t \in Threads, SyncDone(t), th[t].pc \in SyncPCs
    PROVE  /\ \E r : Set(t, r) /\ Knows(r) /\ r.pc # "casCreateLease" /\ r.obj = None /\ r.dec = None
           /\ \/ fence' = fence
              \/ t \in Controllers /\ \E e : /\ fence' = [fence EXCEPT ![t] = e]
                                             /\ [epoch |-> e, holder |-> t] \in granted
<1> DEFINE l == th[t]
<1>0. Knows(l) /\ Shape(t, l) /\ l \in ThreadRec
  BY DEF AuthorityInv, Inv0, Shapes, Shape
<1>1. EpochOf(l.snap) \in granted
  BY <1>0 DEF Knows, Shape, Fetched
<1>2. \/ fence' = fence
      \/ t \in Controllers /\ \E e : /\ fence' = [fence EXCEPT ![t] = e]
                                     /\ [epoch |-> e, holder |-> t] \in granted
  <2>1. t \in Controllers /\ (l.call = "post" \/ Acquires(t, EpochOf(l.snap))) => l.snap.holder = t
    <3>1. l.call = "post" => l.snap.holder = t
      BY <1>0 DEF Shape
    <3>2. Acquires(t, EpochOf(l.snap)) => EpochOf(l.snap).holder = t
      BY SMTT(60) DEF Acquires
    <3> QED BY <3>1, <3>2 DEF EpochOf
  <2> QED BY <1>1, <2>1 DEF SyncDone, EpochOf
<1> DEFINE r1 == [l EXCEPT !.pc = "casCheck", !.obj = None, !.dec = None]
<1>3. Set(t, Idle) \/ Set(t, r1) \/ \E e : Set(t, Observe(t, e))
  BY DEF SyncDone
<1>4. Knows(r1) /\ r1.pc # "casCreateLease" /\ r1.obj = None /\ r1.dec = None
  <2>1. r1.snap = l.snap /\ r1.pc = "casCheck" /\ r1.obj = None /\ r1.dec = None
    BY <1>0 DEF ThreadRec
  <2> HIDE DEF r1
  <2> QED BY <1>0, <2>1, KnowsKept
<1> HIDE DEF r1
<1>5. Knows(Idle) /\ Blank(Idle) /\ \A e : Knows(Observe(t, e)) /\ Blank(Observe(t, e))
  BY BlankRecords, BlankKnows
<1> QED BY <1>2, <1>3, <1>4, <1>5 DEF Blank

\* A write of the mirror that keeps its binding, or gives an unbound mirror the
\* UID of a Lease that exists or existed.
LEMMA MirrorWrite ==
    ASSUME Inv0, AuthorityInv, NEW t \in Threads, NEW r, Set(t, r), Knows(r)', r.pc # "casCreateLease",
           UNCHANGED <<lease, restores, backup, granted>>,
           object # None, object' \in ObjectRec, object'.rv = object.rv + 1,
           \/ object'.bound = object.bound
           \/ /\ object.bound = None /\ object'.bound \in Nat /\ object'.bound <= restores
              /\ lease = None => object'.bound < restores,
           \/ fence' = fence
           \/ t \in Controllers /\ \E e : /\ fence' = [fence EXCEPT ![t] = e]
                                          /\ [epoch |-> e, holder |-> t] \in granted
    PROVE  AuthorityInv'
<1>0. /\ object \in ObjectRec /\ object' # None /\ object.rv \in Nat
      /\ lease # None => lease \in LeaseRec /\ lease.epoch \in Nat \ {0}
  BY SMTT(60), NoneAssumption, BoundAssumption DEF Inv0, TypeOK, ObjectRec, LeaseRec, Epochs
<1>1. \A u \in Threads : th'[u] = IF u = t THEN r ELSE th[u]
  BY DEF Inv0, TypeOK, Set
<1>2. ASSUME NEW u \in Threads, u # t PROVE Knows(th[u])'
  <2>1. th'[u] = th[u] /\ Knows(th[u]) /\ th[u] \in ThreadRec
    BY <1>1, <1>2 DEF AuthorityInv, Inv0, TypeOK
  <2>2. th[u].obj # None => th[u].obj.rv \in Nat
    BY <2>1 DEF ThreadRec, ObjectRec
  <2> QED BY SMTT(60), <1>0, <2>1, <2>2 DEF Knows
<1>3. \A u \in Threads : Knows(th[u])'
  BY <1>1, <1>2
<1>4. Authority'
  BY SMTT(60), <1>0 DEF AuthorityInv, Authority
<1>5. OneHolderPerEpoch'
  BY DEF AuthorityInv, OneHolderPerEpoch, Inv0, TypeOK
<1>6. ASSUME NEW c \in Controllers, NEW d \in Controllers, At(c, "casCreateLease")', At(d, "casCreateLease")'
      PROVE  c = d
  BY <1>1, <1>6 DEF AuthorityInv, At, Threads
<1> QED BY <1>3, <1>4, <1>5, <1>6 DEF AuthorityInv

\* Reading the epoch and synchronizing the mirror keep the invariant.
LEMMA AuthoritySync ==
    ASSUME Inv0, AuthorityInv, NEW t \in Threads, SyncStep(t)
    PROVE  AuthorityInv'
<1> DEFINE l == th[t]
           same == UNCHANGED <<lease, restores, backup, granted>>
<1>0. /\ Knows(l) /\ Shape(t, l) /\ l \in ThreadRec
      /\ lease \in LeaseRec \cup {None} /\ object \in ObjectRec \cup {None} /\ restores \in Nat
      /\ l.obj # None => object # None
  <2>1. Knows(l)
    BY DEF AuthorityInv
  <2>2. Shape(t, l) /\ l \in ThreadRec
    BY DEF Inv0, Shapes, Shape
  <2>3. lease \in LeaseRec \cup {None} /\ object \in ObjectRec \cup {None} /\ restores \in Nat
    BY SMTT(60), BoundAssumption DEF Inv0, TypeOK
  <2>4. l.obj # None => object # None
    BY DEF Inv0
  <2> QED BY <2>1, <2>2, <2>3, <2>4
<1>a. ASSUME NEW r, Blank(r), Set(t, r), same, UNCHANGED <<object, fence>> PROVE AuthorityInv'
  <2>1. Knows(r) /\ r.pc # "casCreateLease"
    BY <1>a, BlankKnows DEF Blank
  <2> QED BY <1>a, <2>1, AuthorityFrame
<1>b. ASSUME NEW r, Knows(r), r.pc # "casCreateLease", Set(t, r), same, UNCHANGED <<object, fence>>
      PROVE  AuthorityInv'
  BY <1>b, AuthorityFrame
<1>1. CASE GetLease(t)
  <2>0. same /\ UNCHANGED <<object, fence>>
    BY <1>1 DEF GetLease, authority
  <2>1. CASE lease # None
    <3> DEFINE r == [l EXCEPT !.pc = "syncLease", !.snap = lease]
    <3>1. r.pc = "syncLease" /\ r.snap = lease /\ r.obj = l.obj /\ r.dec = l.dec
      BY <1>0 DEF ThreadRec
    <3>2. Set(t, r)
      BY <1>1, <2>1 DEF GetLease
    <3> HIDE DEF r
    <3>3. Knows(r)
      BY SMTT(60), <1>0, <2>1, <3>1 DEF Knows, AuthorityInv, Authority
    <3> QED BY <1>b, <2>0, <3>1, <3>2, <3>3
  <2>2. CASE lease = None
    BY <1>1, <1>a, <2>0, <2>2, BlankRecords DEF GetLease
  <2> QED BY <2>1, <2>2
<1>2. CASE SyncLease(t)
  <2> DEFINE r2 == [NoThread EXCEPT !.pc = "getLease", !.call = l.call, !.pre = l.pre]
             r3 == [l EXCEPT !.pc = IF l.pc = "syncLease" THEN "syncObject" ELSE "syncMeta"]
  <2>0. same /\ UNCHANGED <<object, fence>>
    BY <1>2 DEF SyncLease, authority
  <2>1. \/ \E e : Set(t, Observe(t, e))
        \/ \E k : Set(t, Failed(t, k))
        \/ Set(t, r2) \/ Set(t, r3)
    BY <1>2 DEF SyncLease
  <2>2. Blank(r2)
    BY DEF Blank, NoThread
  <2>3. r3.snap = l.snap /\ r3.obj = l.obj /\ r3.dec = l.dec /\ r3.pc \in {"syncObject", "syncMeta"}
    BY <1>0 DEF ThreadRec
  <2> HIDE DEF r2, r3
  <2>4. Knows(r3)
    BY <1>0, <2>3, KnowsKept
  <2> QED BY <1>a, <1>b, <2>0, <2>1, <2>2, <2>3, <2>4, BlankRecords
<1>3. CASE SyncObject(t)
  <2> DEFINE d == validateControllerEpochStatusSyncState(object, l.snap)
             r1 == [l EXCEPT !.pc = IF d.write THEN "syncStatus" ELSE "syncRevalidate",
                             !.obj = object, !.dec = d]
  <2>0. same /\ object' = object /\ l.pc \in SyncPCs
    BY <1>3 DEF SyncObject, authority, At, SyncPCs
  <2>1. \/ \E k : Set(t, Failed(t, k)) /\ fence' = fence
        \/ object # None /\ Set(t, r1) /\ fence' = fence
        \/ SyncDone(t)
    BY <1>3 DEF SyncObject
  <2>2. object # None => Knows(r1) /\ r1.pc # "casCreateLease"
    <3>1. d.bind => object.bound = None
      BY BindsUnbound
    <3> HIDE DEF d
    <3>2. r1.snap = l.snap /\ r1.obj = object /\ r1.dec = d /\ r1.pc \in {"syncStatus", "syncRevalidate"}
      BY <1>0 DEF ThreadRec
    <3> HIDE DEF r1
    <3>3. object # None => object.rv <= object.rv
      BY SMTT(60), <1>0 DEF ObjectRec
    <3> QED BY <1>0, <3>1, <3>2, <3>3 DEF Knows
  <2> HIDE DEF r1, d
  <2>3. CASE SyncDone(t)
    BY <2>0, <2>3, SyncDoneAuthority, AuthorityFrame
  <2> QED BY <1>a, <1>b, <2>0, <2>1, <2>2, <2>3, BlankRecords
<1>c. ASSUME SyncConflict(t), same PROVE AuthorityInv'
  <2> DEFINE r1 == [l EXCEPT !.pc = "syncLease", !.obj = None, !.dec = None]
  <2>1. (Set(t, r1) \/ Set(t, Failed(t, "fatal"))) /\ UNCHANGED <<object, fence>>
    BY <1>c DEF SyncConflict
  <2>2. r1.snap = l.snap /\ r1.obj = None /\ r1.dec = None /\ r1.pc = "syncLease"
    BY <1>0 DEF ThreadRec
  <2> HIDE DEF r1
  <2>3. Knows(r1)
    BY <1>0, <2>2, KnowsKept
  <2> QED BY <1>a, <1>b, <1>c, <2>1, <2>2, <2>3, BlankRecords
<1>4. CASE SyncStatus(t)
  <2> DEFINE new == [object EXCEPT !.rv = @ + 1,
                      !.status = [epoch |-> l.snap.epoch, holder |-> l.snap.holder, lrv |-> l.snap.rv]]
             r1 == [l EXCEPT !.pc = "syncRevalidate", !.obj = new]
  <2>0. /\ same /\ l.pc = "syncStatus" /\ l.pc \in SyncPCs /\ l.snap \in LeaseRec /\ l.obj # None
        /\ object \in ObjectRec /\ object # None
    BY <1>0, <1>4 DEF SyncStatus, authority, At, SyncPCs, Shape, ThreadRec, Fetched
  <2>1. new \in ObjectRec /\ new.rv = object.rv + 1 /\ new.bound = object.bound
    <3>1. object.rv + 1 \in Nat
      BY SMTT(60), <2>0 DEF ObjectRec
    <3> QED BY <2>0, <3>1 DEF ObjectRec, LeaseRec, StatusRec
  <2>2. \/ SyncConflict(t)
        \/ object.rv = l.obj.rv /\ object' = new /\ Set(t, r1) /\ fence' = fence
        \/ object.rv = l.obj.rv /\ object' = new /\ SyncDone(t)
    BY <1>4 DEF SyncStatus
  <2> HIDE DEF new
  <2>3. r1.snap = l.snap /\ r1.obj = new /\ r1.dec = l.dec /\ r1.pc = "syncRevalidate"
    BY <1>0 DEF ThreadRec
  <2> HIDE DEF r1
  <2>4. CASE object.rv = l.obj.rv /\ object' = new /\ Set(t, r1) /\ fence' = fence
    <3>1. new.rv <= new.rv
      BY SMTT(60), <2>0, <2>1 DEF ObjectRec
    <3>2. PICK r : r = r1
      OBVIOUS
    <3>3. Knows(r)'
      <4>1. r.snap = l.snap /\ r.obj = object' /\ r.dec = l.dec /\ r.pc = "syncRevalidate"
        BY <2>3, <2>4, <3>2
      <4>2. object'.rv <= object'.rv /\ object'.bound = object.bound
        BY <2>1, <2>4, <3>1
      <4>3. l.dec # None /\ l.dec.bind => object.bound = None
        BY <1>0, <2>0, <2>4 DEF Knows
      <4>4. object' # None
        BY <2>1, <2>4, NoneAssumption
      <4>5. l.snap # None => /\ EpochOf(l.snap) \in granted
                             /\ l.snap.uid <= restores
                             /\ lease = None => l.snap.uid < restores
        BY <1>0 DEF Knows
      <4> HIDE DEF l
      <4> QED BY <2>0, <4>1, <4>2, <4>3, <4>4, <4>5 DEF Knows
    <3> QED BY <2>0, <2>1, <2>3, <2>4, <3>2, <3>3, MirrorWrite
  <2>5. CASE object.rv = l.obj.rv /\ object' = new /\ SyncDone(t)
    <3>1. PICK r : Set(t, r) /\ Knows(r) /\ r.pc # "casCreateLease" /\ r.obj = None /\ r.dec = None
      BY <2>0, <2>5, SyncDoneAuthority
    <3>2. Knows(r)'
      BY <2>0, <3>1 DEF Knows
    <3>3. \/ fence' = fence
          \/ t \in Controllers /\ \E e : /\ fence' = [fence EXCEPT ![t] = e]
                                         /\ [epoch |-> e, holder |-> t] \in granted
      BY <2>0, <2>5, SyncDoneAuthority
    <3> QED BY <2>0, <2>1, <2>5, <3>1, <3>2, <3>3, MirrorWrite
  <2> QED BY <1>c, <2>0, <2>2, <2>4, <2>5
<1>5. CASE SyncMeta(t)
  <2> DEFINE new == [object EXCEPT !.rv = @ + 1,
                      !.bound = IF l.dec.bind THEN l.snap.uid ELSE @,
                      !.marker = IF l.dec.clear THEN None ELSE @]
  <2>0. /\ same /\ l.pc = "syncMeta" /\ l.pc \in SyncPCs /\ l.snap \in LeaseRec /\ l.snap # None
        /\ l.obj # None /\ l.dec # None /\ object \in ObjectRec /\ object # None
    BY <1>0, <1>5 DEF SyncMeta, authority, At, SyncPCs, Shape, ThreadRec, Fetched
  <2>1. /\ new \in ObjectRec /\ new.rv = object.rv + 1
        /\ new.bound = IF l.dec.bind THEN l.snap.uid ELSE object.bound
    <3>1. object.rv + 1 \in Nat
      BY SMTT(60), <2>0 DEF ObjectRec
    <3> QED BY <2>0, <3>1 DEF ObjectRec, LeaseRec
  <2>2. SyncConflict(t) \/ (object.rv = l.obj.rv /\ object' = new /\ SyncDone(t))
    BY <1>5 DEF SyncMeta
  <2> HIDE DEF new
  <2>3. CASE object.rv = l.obj.rv /\ object' = new /\ SyncDone(t)
    <3>1. PICK r : Set(t, r) /\ Knows(r) /\ r.pc # "casCreateLease" /\ r.obj = None /\ r.dec = None
      BY <2>0, <2>3, SyncDoneAuthority
    <3>2. Knows(r)'
      BY <2>0, <3>1 DEF Knows
    <3>3. \/ fence' = fence
          \/ t \in Controllers /\ \E e : /\ fence' = [fence EXCEPT ![t] = e]
                                         /\ [epoch |-> e, holder |-> t] \in granted
      BY <2>0, <2>3, SyncDoneAuthority
    <3>4. \/ new.bound = object.bound
          \/ /\ object.bound = None /\ new.bound \in Nat /\ new.bound <= restores
             /\ lease = None => new.bound < restores
      BY <1>0, <2>0, <2>1, <2>3 DEF Knows, LeaseRec
    <3> QED BY <2>0, <2>1, <2>3, <3>1, <3>2, <3>3, <3>4, MirrorWrite
  <2> QED BY <1>c, <2>0, <2>2, <2>3
<1> QED BY <1>1, <1>2, <1>3, <1>4, <1>5 DEF SyncStep

\* A write of the Lease by thread c that adds at most the Lease's own epoch to
\* what was granted, and by the end of which no other thread is about to create
\* the Lease.
LEMMA LeaseWrite ==
    ASSUME Inv0, AuthorityInv, NEW t \in Threads, NEW r, Set(t, r),
           r.obj = None \/ r.obj = th[t].obj, r.pc \notin {"casCreateLease", "casCheck", "casUpdate"},
           r.dec = None \/ ~r.dec.bind \/ (r.dec = th[t].dec /\ r.obj = th[t].obj),
           r.snap = None \/ r.snap = lease',
           lease' \in LeaseRec, lease'.uid = restores,
           UNCHANGED <<restores, backup, object, fence>>,
           granted' = granted \cup {EpochOf(lease')},
           \A u \in Threads \ {t} : th[u].pc # "casCreateLease",
           object # None,
           \A g \in granted : g.epoch = lease'.epoch => g.holder = lease'.holder,
           \/ object.bound = lease'.uid /\ \A g \in granted : g.epoch <= lease'.epoch
           \/ object.bound # lease'.uid /\ (object.bound = None => lease'.epoch = 1)
    PROVE  AuthorityInv'
<1>0. /\ object \in ObjectRec /\ lease' # None /\ lease'.epoch \in Nat \ {0} /\ restores \in Nat
      /\ granted \subseteq EpochRec
  BY SMTT(60), NoneAssumption, BoundAssumption DEF Inv0, TypeOK, LeaseRec, Epochs
<1>1. \A u \in Threads : th'[u] = IF u = t THEN r ELSE th[u]
  BY DEF Inv0, TypeOK, Set
<1>2. ASSUME NEW u \in Threads, u # t PROVE Knows(th[u])'
  <2>1. th'[u] = th[u] /\ Knows(th[u]) /\ th[u].pc # "casCreateLease"
    BY <1>1, <1>2 DEF AuthorityInv
  <2> QED BY <1>0, <2>1 DEF Knows
<1>3. Knows(r)'
  <2>1. Knows(th[t])
    BY DEF AuthorityInv
  <2>2. r.obj # None => /\ r.obj.rv <= object.rv
                        /\ r.obj.rv = object.rv => r.obj = object
                        /\ r.obj.bound # None => object.bound = r.obj.bound
    BY <2>1 DEF Knows
  <2>3. r.snap # None => r.snap = lease' /\ EpochOf(r.snap) \in granted' /\ r.snap.uid = restores
    OBVIOUS
  <2>4. r.dec # None /\ r.dec.bind => r.obj # None /\ r.obj.bound = None
    BY <2>1 DEF Knows
  <2> QED BY SMTT(60), <1>0, <2>2, <2>3, <2>4 DEF Knows
<1>4. \A u \in Threads : Knows(th[u])'
  BY <1>1, <1>2, <1>3
<1>5. EpochOf(lease').epoch = lease'.epoch /\ EpochOf(lease').holder = lease'.holder
  BY DEF EpochOf
<1>6. Authority'
  <2>1. object.bound # None => object.bound <= restores
    BY DEF AuthorityInv, Authority
  <2>2. object.bound = None => \A g \in granted' : g.epoch = 1
    BY <1>0, <1>5, NoneAssumption DEF AuthorityInv, Authority, LeaseRec
  <2>3. object.bound = lease'.uid => \A g \in granted' : g.epoch <= lease'.epoch
    BY SMTT(60), <1>0, <1>5
  <2>4. backup # None => EpochOf(backup) \in granted'
    BY DEF AuthorityInv, Authority
  <2> QED BY <1>0, <2>1, <2>2, <2>3, <2>4 DEF Authority, EpochOf
<1>7. OneHolderPerEpoch'
  BY SMTT(60), <1>5 DEF AuthorityInv, OneHolderPerEpoch
<1>8. ASSUME NEW c \in Controllers, NEW d \in Controllers, At(c, "casCreateLease")', At(d, "casCreateLease")'
      PROVE  c = d
  BY <1>1, <1>8 DEF At, Threads
<1> QED BY <1>4, <1>6, <1>7, <1>8 DEF AuthorityInv

\* A write of the Lease that keeps its epoch and holder: a mutation's lock is
\* taken or released.
LEMMA LockWrite ==
    ASSUME Inv0, AuthorityInv, NEW t \in Threads, NEW r, Set(t, r),
           r.pc \notin {"casCreateLease", "casCheck", "casUpdate"},
           (r.obj = None /\ r.dec = None) \/ (r.obj = th[t].obj /\ r.dec = th[t].dec),
           r.snap = None \/ r.snap = lease', t \in Controllers => th[t].pc # "casCreateLease",
           lease # None, lease' \in LeaseRec, lease'.uid = lease.uid,
           lease'.epoch = lease.epoch, lease'.holder = lease.holder,
           UNCHANGED <<restores, backup, object, fence, granted>>
    PROVE  AuthorityInv'
<1>0. /\ lease.uid = restores /\ EpochOf(lease) \in granted /\ EpochOf(lease') = EpochOf(lease)
      /\ EpochOf(lease).epoch = lease.epoch /\ EpochOf(lease).holder = lease.holder
  BY DEF AuthorityInv, Authority, EpochOf
<1>1. object # None /\ \A u \in Threads : th[u].pc # "casCreateLease"
  BY <1>0 DEF AuthorityInv, Authority, Knows
<1>2. granted' = granted \cup {EpochOf(lease')}
  BY <1>0
<1>3. \A g \in granted : g.epoch = lease'.epoch => g.holder = lease'.holder
  BY <1>0 DEF AuthorityInv, OneHolderPerEpoch
<1>4. \/ object.bound = lease'.uid /\ \A g \in granted : g.epoch <= lease'.epoch
      \/ object.bound # lease'.uid /\ (object.bound = None => lease'.epoch = 1)
  <2>1. lease.uid # None
    BY NoneAssumption DEF Inv0, TypeOK, LeaseRec
  <2>2. CASE object.bound = lease'.uid
    BY <1>1, <2>1, <2>2 DEF AuthorityInv, Authority
  <2>3. CASE object.bound # lease'.uid
    BY <1>0, <1>1, <2>3 DEF AuthorityInv, Authority
  <2> QED BY <2>2, <2>3
<1> QED BY <1>0, <1>1, <1>2, <1>3, <1>4, LeaseWrite

\* Every controller step keeps the invariant.
LEMMA AuthorityController ==
    ASSUME Inv0, AuthorityInv, NEW c \in Controllers, ControllerStep(c) \/ Crash(c)
    PROVE  AuthorityInv'
<1> DEFINE l == th[c]
           same == UNCHANGED <<lease, restores, backup, granted>>
<1>0. /\ Knows(l) /\ Shape(c, l) /\ l \in ThreadRec /\ c \in Threads
      /\ lease \in LeaseRec \cup {None} /\ object \in ObjectRec \cup {None} /\ restores \in Nat
      /\ l.obj # None => object # None
      /\ leaseRV \in Nat
  <2>1. c \in Threads
    BY DEF Threads
  <2>2. Knows(l)
    BY <2>1 DEF AuthorityInv
  <2>3. Shape(c, l) /\ l \in ThreadRec
    BY <2>1 DEF Inv0, Shapes, Shape
  <2>4. /\ lease \in LeaseRec \cup {None} /\ object \in ObjectRec \cup {None}
        /\ restores \in Nat /\ leaseRV \in Nat
    BY SMTT(60), BoundAssumption DEF Inv0, TypeOK
  <2>5. l.obj # None => object # None
    BY <2>1 DEF Inv0
  <2> QED BY <2>1, <2>2, <2>3, <2>4, <2>5
<1>a. ASSUME NEW r, Blank(r), Set(c, r), same, UNCHANGED <<object, fence>> PROVE AuthorityInv'
  <2>1. Knows(r) /\ r.pc # "casCreateLease"
    BY <1>a, BlankKnows DEF Blank
  <2> QED BY <1>0, <1>a, <2>1, AuthorityFrame
<1>b. ASSUME NEW r, Set(c, r), same, UNCHANGED <<object, fence>>,
             r.pc \notin {"casCreateLease", "casCheck", "casUpdate"},
             r.snap = None \/ r.snap = l.snap \/ (lease # None /\ r.snap = lease),
             r.obj = l.obj, r.dec = l.dec
      PROVE  AuthorityInv'
  <2>1. lease # None => lease.uid = restores /\ EpochOf(lease) \in granted
    BY DEF AuthorityInv, Authority
  <2>2. Knows(r)
    BY SMTT(60), <1>0, <1>b, <2>1 DEF Knows
  <2> QED BY <1>0, <1>b, <2>2, AuthorityFrame
<1>1. CASE Crash(c)
  BY <1>1, <1>a, BlankRecords DEF Crash, authority
<1>2. CASE Start(c)
  <2>1. Blank([NoThread EXCEPT !.pc = "getLease", !.call = "start"])
    BY DEF Blank, NoThread
  <2> QED BY <1>2, <1>a, <2>1 DEF Start, authority
<1>3. CASE CasLease(c)
  <2> DEFINE r1 == [l EXCEPT !.pc = "syncLease", !.call = "pre", !.snap = lease]
             r2 == [l EXCEPT !.pc = "casCreateObject"]
  <2>0. same /\ UNCHANGED <<object, fence>>
    BY <1>3 DEF CasLease, authority
  <2>1. (lease # None /\ Set(c, r1)) \/ Set(c, r2) \/ Set(c, Failed(c, "conflict"))
    BY <1>3 DEF CasLease
  <2>2. r1.pc = "syncLease" /\ r1.snap = lease /\ r1.obj = l.obj /\ r1.dec = l.dec
    BY <1>0 DEF ThreadRec
  <2>3. r2.pc = "casCreateObject" /\ r2.snap = l.snap /\ r2.obj = l.obj /\ r2.dec = l.dec
    BY <1>0 DEF ThreadRec
  <2> HIDE DEF r1, r2
  <2> QED BY <1>a, <1>b, <2>0, <2>1, <2>2, <2>3, BlankRecords
<1>4. CASE CasCreateObject(c)
  <2> DEFINE r == [l EXCEPT !.pc = "casCreateLease"]
  <2>0. same /\ UNCHANGED fence
    BY <1>4 DEF CasCreateObject, authority
  <2>1. CASE object # None
    BY <1>4, <1>a, <2>0, <2>1, BlankRecords DEF CasCreateObject
  <2>2. CASE object = None
    <3>1. Set(c, r) /\ object' = [rv |-> 1, bound |-> None, marker |-> c, status |-> None]
      BY <1>4, <2>2 DEF CasCreateObject
    <3>2. object' # None /\ object'.bound = None
      <4>1. object' \in ObjectRec
        BY <3>1 DEF ObjectRec
      <4> QED BY <3>1, <4>1, NoneAssumption
    <3>3. granted = {} /\ \A u \in Threads : th[u].obj = None /\ th[u].pc # "casCreateLease"
      BY <2>2 DEF AuthorityInv, Authority, Knows, Inv0
    <3>4. r.snap = l.snap /\ r.obj = None /\ r.dec = l.dec /\ r.pc = "casCreateLease"
      BY <1>0, <3>3 DEF ThreadRec
    <3>5. \A u \in Threads : th'[u] = IF u = c THEN r ELSE th[u]
      BY <3>1 DEF Inv0, TypeOK, Set
    <3> HIDE DEF r
    <3>6. ASSUME NEW u \in Threads PROVE Knows(th[u])'
      <4>1. /\ Knows(th[u]) /\ th[u].obj = None
        BY <3>3 DEF AuthorityInv
      <4>2. /\ th'[u].snap = th[u].snap /\ th'[u].obj = None /\ th'[u].dec = th[u].dec
            /\ th'[u].pc # "casCreateLease" => th'[u].pc = th[u].pc
        BY <3>3, <3>4, <3>5
      <4> QED BY <2>0, <3>2, <3>3, <4>1, <4>2 DEF Knows
    <3>7. Authority'
      BY <2>0, <3>2, <3>3 DEF AuthorityInv, Authority
    <3>8. OneHolderPerEpoch'
      BY <2>0 DEF AuthorityInv, OneHolderPerEpoch
    <3>9. ASSUME NEW a \in Controllers, NEW d \in Controllers, At(a, "casCreateLease")', At(d, "casCreateLease")'
          PROVE  a = d
      BY <3>3, <3>5, <3>9 DEF At, Threads
    <3> QED BY <3>6, <3>7, <3>8, <3>9 DEF AuthorityInv
  <2> QED BY <2>1, <2>2
<1>5. CASE CasCreateLease(c)
  <2> DEFINE new == [rv |-> leaseRV + 1, uid |-> restores, epoch |-> 1, holder |-> c,
                     pred |-> None, token |-> None]
             r1 == [l EXCEPT !.pc = "syncLease", !.call = "post", !.snap = new]
             r2 == [l EXCEPT !.pc = "casLease"]
  <2>0. l.pc = "casCreateLease" /\ UNCHANGED <<restores, backup, object, fence>>
    BY <1>5 DEF CasCreateLease, At
  <2>1. \/ lease = None /\ lease' = new /\ granted' = granted \cup {EpochOf(new)} /\ Set(c, r1)
        \/ Set(c, r2) /\ UNCHANGED <<lease, granted>>
    BY <1>5 DEF CasCreateLease
  <2>2. /\ new \in LeaseRec /\ new.uid = restores /\ new.epoch = 1
    <3>1. leaseRV + 1 \in Nat /\ 1 \in Epochs
      BY SMTT(60), <1>0, BoundAssumption DEF Epochs
    <3> QED BY <1>0, <3>1 DEF LeaseRec
  <2> HIDE DEF new
  <2>3. r1.pc = "syncLease" /\ r1.snap = new /\ r1.obj = l.obj /\ r1.dec = l.dec
    BY <1>0 DEF ThreadRec
  <2>4. r2.pc = "casLease" /\ r2.snap = l.snap /\ r2.obj = l.obj /\ r2.dec = l.dec
    BY <1>0 DEF ThreadRec
  <2> HIDE DEF r1, r2
  <2>5. CASE Set(c, r2) /\ UNCHANGED <<lease, granted>>
    BY <1>b, <2>0, <2>4, <2>5
  <2>6. CASE lease = None /\ lease' = new /\ granted' = granted \cup {EpochOf(new)} /\ Set(c, r1)
    <3>1. granted = {} /\ object # None
      BY <1>0, <2>0 DEF Knows
    <3>2. ASSUME NEW u \in Threads \ {c} PROVE th[u].pc # "casCreateLease"
      <4>1. u \in Controllers => th[u].pc # "casCreateLease"
        BY <2>0, <3>2 DEF AuthorityInv, At
      <4>2. u \notin Controllers => th[u].pc # "casCreateLease"
        BY <3>2 DEF Inv0, Shapes, Shape, CasPCs
      <4> QED BY <4>1, <4>2
    <3>3. object.bound # restores
      <4>1. object.bound # None => object.bound < restores
        BY <2>6, <3>1 DEF AuthorityInv, Authority
      <4> QED BY SMTT(60), <1>0, <4>1, NoneAssumption DEF ObjectRec
    <3> QED BY <1>0, <2>0, <2>2, <2>3, <2>6, <3>1, <3>2, <3>3, LeaseWrite
  <2> QED BY <2>1, <2>5, <2>6
<1>6. CASE CasCheck(c)
  <2> DEFINE go == [l EXCEPT !.pc = "casUpdate", !.obj = object]
  <2>0. /\ l.pc = "casCheck" /\ l.snap # None /\ same /\ object' = object
    BY <1>0, <1>6 DEF CasCheck, At, authority, Shape, Fetched
  <2>1. \/ (\E k : Set(c, Failed(c, k))) /\ fence' = fence
        \/ Set(c, Dead) /\ fence' = fence
        \/ /\ Set(c, Idle) /\ fence' = [fence EXCEPT ![c] = l.snap.epoch] /\ l.snap.holder = c
        \/ /\ object # None /\ object.bound = l.snap.uid /\ Set(c, go) /\ fence' = fence
    BY <1>6 DEF CasCheck, validateControllerEpochObjectLeaseUID
  <2>2. CASE Set(c, Idle) /\ fence' = [fence EXCEPT ![c] = l.snap.epoch] /\ l.snap.holder = c
    <3>1. [epoch |-> l.snap.epoch, holder |-> c] \in granted
      BY <1>0, <2>0, <2>2 DEF Knows, EpochOf
    <3>2. Knows(Idle) /\ Idle.pc # "casCreateLease"
      BY BlankRecords, BlankKnows DEF Blank
    <3> QED BY <1>0, <2>0, <2>2, <3>1, <3>2, AuthorityFrame
  <2>3. CASE object # None /\ object.bound = l.snap.uid /\ Set(c, go) /\ fence' = fence
    <3>1. go.pc = "casUpdate" /\ go.snap = l.snap /\ go.obj = object /\ go.dec = l.dec
      BY <1>0 DEF ThreadRec
    <3> HIDE DEF go
    <3>2. object.rv <= object.rv
      BY SMTT(60), <1>0, <2>3 DEF ObjectRec
    <3>3. l.dec = None
      BY <1>0, <2>0 DEF Knows
    <3>4. Knows(go)
      BY <1>0, <2>0, <3>1, <3>2, <3>3 DEF Knows
    <3> QED BY <1>0, <2>0, <2>3, <3>1, <3>4, AuthorityFrame
  <2> QED BY <1>a, <2>0, <2>1, <2>2, <2>3, BlankRecords
<1>7. CASE CasUpdate(c)
  <2> DEFINE new == [rv |-> leaseRV + 1, uid |-> l.snap.uid, epoch |-> l.snap.epoch + 1, holder |-> c,
                     pred |-> controllerEpochMirrorDigest(l.obj), token |-> None]
             r == [l EXCEPT !.pc = "syncLease", !.call = "post", !.snap = new, !.obj = None]
  <2>0. /\ l.pc = "casUpdate" /\ l.snap \in LeaseRec /\ l.snap # None /\ l.obj \in ObjectRec /\ l.obj # None
        /\ l.obj.bound = l.snap.uid /\ l.obj.status # None /\ l.snap.epoch < MaxEpoch /\ l.dec = None
        /\ UNCHANGED <<restores, backup, object, fence>>
    BY <1>0, <1>7 DEF CasUpdate, At, Shape, ThreadRec, Fetched, Knows
  <2>1. \/ lease = l.snap /\ lease' = new /\ granted' = granted \cup {EpochOf(new)} /\ Set(c, r)
        \/ (\E k : Set(c, Failed(c, k))) /\ UNCHANGED <<lease, granted>>
    BY <1>7 DEF CasUpdate
  <2>2. new \in LeaseRec /\ new.uid = l.snap.uid /\ new.epoch = l.snap.epoch + 1
    <3>1. leaseRV + 1 \in Nat /\ l.snap.epoch + 1 \in Epochs
      BY SMTT(60), <1>0, <2>0, BoundAssumption DEF Epochs, LeaseRec
    <3>2. controllerEpochMirrorDigest(l.obj) \in MirrorDigest
      BY <2>0 DEF controllerEpochMirrorDigest, MirrorDigest, ObjectRec, StatusRec, LeaseRec
    <3>3. l.snap.uid \in Nat
      BY <2>0 DEF LeaseRec
    <3> QED BY <3>1, <3>2, <3>3 DEF LeaseRec
  <2> HIDE DEF new
  <2>3. r.pc = "syncLease" /\ r.snap = new /\ r.obj = None /\ r.dec = None
    BY <1>0, <2>0 DEF ThreadRec
  <2> HIDE DEF r
  <2>4. CASE lease = l.snap /\ lease' = new /\ granted' = granted \cup {EpochOf(new)} /\ Set(c, r)
    <3>1. lease.uid = restores /\ EpochOf(lease) \in granted
      BY <2>0, <2>4 DEF AuthorityInv, Authority
    <3>2. object # None /\ \A u \in Threads : th[u].pc # "casCreateLease"
      BY <3>1 DEF AuthorityInv, Authority, Knows
    <3>3. object.bound = l.snap.uid /\ object.bound # None
      BY <1>0, <2>0, NoneAssumption DEF Knows, LeaseRec
    <3>4. \A g \in granted : g.epoch <= l.snap.epoch
      BY <2>0, <2>4, <3>2, <3>3 DEF AuthorityInv, Authority
    <3>5. \A g \in granted : g.epoch <= new.epoch /\ g.epoch # new.epoch
      <4>1. \A g \in granted : g.epoch \in Int
        BY SMTT(60), BoundAssumption DEF Inv0, TypeOK, EpochRec, Epochs
      <4>2. l.snap.epoch \in Int
        BY SMTT(60), <2>0, BoundAssumption DEF LeaseRec, Epochs
      <4> QED BY SMTT(60), <2>2, <3>4, <4>1, <4>2
    <3> QED BY <1>0, <2>0, <2>2, <2>3, <2>4, <3>1, <3>2, <3>3, <3>5, LeaseWrite
  <2> QED BY <1>a, <2>0, <2>1, <2>4, BlankRecords
<1>8. CASE BeginMutation(c)
  <2>1. Blank([NoThread EXCEPT !.pc = "mutLease", !.exp = target.rv])
    BY DEF Blank, NoThread
  <2> QED BY <1>8, <1>a, <2>1 DEF BeginMutation, authority
<1>9. CASE MutLease(c)
  <2> DEFINE r == [l EXCEPT !.pc = "mutObject", !.snap = lease]
  <2>0. same /\ UNCHANGED <<object, fence>>
    BY <1>9 DEF MutLease, authority
  <2>1. (lease # None /\ Set(c, r)) \/ Set(c, Idle)
    BY <1>9 DEF MutLease
  <2>2. r.pc = "mutObject" /\ r.snap = lease /\ r.obj = l.obj /\ r.dec = l.dec
    BY <1>0 DEF ThreadRec
  <2> HIDE DEF r
  <2> QED BY <1>a, <1>b, <2>0, <2>1, <2>2, BlankRecords
<1>10. CASE MutObject(c)
  <2> DEFINE r1 == [l EXCEPT !.pc = "mutUpdate"]
             r2 == [l EXCEPT !.pc = "mutLease", !.snap = None]
  <2>0. same /\ UNCHANGED <<object, fence>>
    BY <1>10 DEF MutObject, authority
  <2>1. Set(c, r1) \/ Set(c, r2) \/ Set(c, Idle)
    BY <1>10 DEF MutObject
  <2>2. r1.pc = "mutUpdate" /\ r1.snap = l.snap /\ r1.obj = l.obj /\ r1.dec = l.dec
    BY <1>0 DEF ThreadRec
  <2>3. r2.pc = "mutLease" /\ r2.snap = None /\ r2.obj = l.obj /\ r2.dec = l.dec
    BY <1>0 DEF ThreadRec
  <2> HIDE DEF r1, r2
  <2> QED BY <1>a, <1>b, <2>0, <2>1, <2>2, <2>3, BlankRecords
<1>11. CASE MutUpdate(c)
  <2> DEFINE new == [l.snap EXCEPT !.rv = leaseRV + 1, !.token = <<c, count[c]>>]
             r1 == [l EXCEPT !.pc = "mutWrite", !.snap = new, !.tok = new.token]
             r2 == [l EXCEPT !.pc = "mutLease", !.snap = None]
  <2>0. l.pc = "mutUpdate" /\ l.snap \in LeaseRec /\ UNCHANGED <<restores, backup, object, fence, granted>>
    BY <1>0, <1>11 DEF MutUpdate, At, Shape, ThreadRec, Fetched
  <2>1. \/ lease = l.snap /\ lease' = new /\ Set(c, r1)
        \/ (Set(c, r2) \/ Set(c, Idle)) /\ lease' = lease
    BY <1>11 DEF MutUpdate
  <2>2. /\ new \in LeaseRec /\ new.uid = l.snap.uid /\ new.epoch = l.snap.epoch /\ new.holder = l.snap.holder
    <3>1. leaseRV + 1 \in Nat /\ <<c, count[c]>> \in Tokens
      BY SMTT(60), <1>0 DEF Tokens, Inv0, TypeOK
    <3> QED BY <2>0, <3>1 DEF LeaseRec
  <2> HIDE DEF new
  <2>3. r1.pc = "mutWrite" /\ r1.snap = new /\ r1.obj = l.obj /\ r1.dec = l.dec
    BY <1>0 DEF ThreadRec
  <2>4. r2.pc = "mutLease" /\ r2.snap = None /\ r2.obj = l.obj /\ r2.dec = l.dec
    BY <1>0 DEF ThreadRec
  <2> HIDE DEF r1, r2
  <2>5. CASE lease = l.snap /\ lease' = new /\ Set(c, r1)
    <3>1. /\ lease # None /\ lease' \in LeaseRec /\ lease'.uid = lease.uid
          /\ lease'.epoch = lease.epoch /\ lease'.holder = lease.holder
      BY <2>0, <2>2, <2>5, NoneAssumption
    <3>2. PICK q : q = r1
      OBVIOUS
    <3>3. /\ q.pc \notin {"casCreateLease", "casCheck", "casUpdate"}
          /\ q.obj = th[c].obj /\ q.dec = th[c].dec /\ q.snap = lease'
      BY <2>3, <2>5, <3>2
    <3>4. Set(c, q)
      BY <2>5, <3>2
    <3>5. c \in Threads /\ th[c].pc # "casCreateLease" /\ UNCHANGED <<restores, backup, object, fence, granted>>
      BY <1>0, <2>0
    <3> HIDE DEF l
    <3> QED BY <3>1, <3>3, <3>4, <3>5, LockWrite
  <2> QED BY <1>a, <1>b, <2>0, <2>1, <2>4, <2>5, BlankRecords
<1>12. CASE MutWrite(c)
  <2> DEFINE r == [l EXCEPT !.pc = "mutRelease"]
  <2>0. Set(c, r) /\ same /\ UNCHANGED <<object, fence>>
    BY <1>12 DEF MutWrite, authority
  <2>1. r.pc = "mutRelease" /\ r.snap = l.snap /\ r.obj = l.obj /\ r.dec = l.dec
    BY <1>0 DEF ThreadRec
  <2> HIDE DEF r
  <2> QED BY <1>b, <2>0, <2>1
<1>13. CASE MutRelease(c)
  <2> DEFINE new == [l.snap EXCEPT !.rv = leaseRV + 1, !.token = None]
             r == [l EXCEPT !.snap = lease]
  <2>0. l.pc = "mutRelease" /\ l.snap \in LeaseRec /\ UNCHANGED <<restores, backup, object, fence, granted>>
    BY <1>0, <1>13 DEF MutRelease, At, Shape, ThreadRec, Fetched
  <2>1. \/ lease = l.snap /\ lease' = new /\ Set(c, Idle)
        \/ ((lease # None /\ Set(c, r)) \/ Set(c, Idle)) /\ lease' = lease
    BY <1>13 DEF MutRelease
  <2>2. /\ new \in LeaseRec /\ new.uid = l.snap.uid /\ new.epoch = l.snap.epoch /\ new.holder = l.snap.holder
    <3>1. leaseRV + 1 \in Nat
      BY SMTT(60), <1>0
    <3> QED BY <2>0, <3>1 DEF LeaseRec
  <2> HIDE DEF new
  <2>3. r.pc = "mutRelease" /\ r.snap = lease /\ r.obj = l.obj /\ r.dec = l.dec
    BY <1>0, <2>0 DEF ThreadRec
  <2> HIDE DEF r
  <2>4. CASE lease = l.snap /\ lease' = new /\ Set(c, Idle)
    <3>1. Idle.pc = "idle" /\ Idle.snap = None /\ Idle.obj = None /\ Idle.dec = None
      BY DEF Idle, NoThread
    <3>2. /\ lease # None /\ lease' \in LeaseRec /\ lease'.uid = lease.uid
          /\ lease'.epoch = lease.epoch /\ lease'.holder = lease.holder
      BY <2>0, <2>2, <2>4, NoneAssumption
    <3>3. PICK q : q = Idle
      OBVIOUS
    <3>4. /\ q.pc \notin {"casCreateLease", "casCheck", "casUpdate"}
          /\ (q.obj = None /\ q.dec = None) \/ (q.obj = th[c].obj /\ q.dec = th[c].dec)
          /\ q.snap = None \/ q.snap = lease'
      BY <3>1, <3>3
    <3>6. Set(c, q)
      BY <2>4, <3>3
    <3>5. c \in Threads /\ (c \in Controllers => th[c].pc # "casCreateLease") /\ UNCHANGED <<restores, backup, object, fence, granted>>
      BY <1>0, <2>0
    <3> HIDE DEF l
    <3> QED BY <3>2, <3>4, <3>5, <3>6, LockWrite
  <2> QED BY <1>a, <1>b, <2>0, <2>1, <2>3, <2>4, BlankRecords
<1> QED
  BY <1>1, <1>2, <1>3, <1>4, <1>5, <1>6, <1>7, <1>8, <1>9, <1>10, <1>11, <1>12, <1>13 DEF ControllerStep

\* The initial state satisfies the invariant.
LEMMA AuthorityInit == Init => AuthorityInv
<1> SUFFICES ASSUME Init PROVE AuthorityInv
  OBVIOUS
<1>1. \A t \in Threads : Blank(th[t])
  BY BlankRecords DEF Init
<1>2. \A t \in Threads : Knows(th[t]) /\ th[t].pc # "casCreateLease"
  BY <1>1, BlankKnows DEF Blank
<1> QED BY <1>2 DEF Init, AuthorityInv, Authority, OneHolderPerEpoch, At, Threads

\* Every step keeps the invariant.
LEMMA AuthorityNext == Inv0 /\ AuthorityInv /\ [Next]_vars => AuthorityInv'
<1> SUFFICES ASSUME Inv0, AuthorityInv, [Next]_vars PROVE AuthorityInv'
  OBVIOUS
<1>0. restores \in Nat /\ lease \in LeaseRec \cup {None} /\ th \in [Threads -> ThreadRec]
  BY SMTT(60), BoundAssumption DEF Inv0, TypeOK
<1>1. CASE \E c \in Controllers : ControllerStep(c) \/ Crash(c)
  BY <1>1, AuthorityController
<1>2. ASSUME NEW t \in Readers, DrainRead(t) PROVE AuthorityInv'
  <2> DEFINE n == [NoThread EXCEPT !.pc = "getLease", !.call = "drain"]
  <2>1. t \in Threads /\ Blank(n)
    BY DEF Blank, NoThread, Threads
  <2>2. Set(t, n) /\ UNCHANGED <<lease, restores, backup, granted, object, fence>>
    BY <1>2 DEF DrainRead, authority
  <2> HIDE DEF n
  <2>3. Knows(n) /\ n.pc # "casCreateLease"
    BY <2>1, BlankKnows DEF Blank
  <2> QED BY <2>1, <2>2, <2>3, AuthorityFrame
<1>3. CASE \E t \in Threads : SyncStep(t)
  BY <1>3, AuthoritySync
<1>e. ASSUME UNCHANGED <<lease, restores, granted, object, fence, th>>, backup' = backup \/ backup' = lease
      PROVE  AuthorityInv'
  <2>1. Authority'
    BY <1>e DEF AuthorityInv, Authority
  <2>2. OneHolderPerEpoch'
    BY <1>e DEF AuthorityInv, OneHolderPerEpoch
  <2>3. \A t \in Threads : Knows(th[t])'
    BY <1>e DEF AuthorityInv, Knows
  <2>4. \A c, d \in Controllers : At(c, "casCreateLease")' /\ At(d, "casCreateLease")' => c = d
    BY <1>e DEF AuthorityInv, At
  <2> QED BY <2>1, <2>2, <2>3, <2>4 DEF AuthorityInv
<1>4. CASE Expire
  BY <1>4, <1>e DEF Expire, authority
<1>5. CASE BackUpLease
  BY <1>5, <1>e DEF BackUpLease
<1>6. CASE LoseLease
  <2>1. /\ lease # None /\ lease' = None /\ restores' = restores + 1 /\ lease.uid = restores
        /\ UNCHANGED <<backup, object, th, fence, granted>>
    BY <1>6 DEF LoseLease, AuthorityInv, Authority
  <2>2. ASSUME NEW t \in Threads PROVE Knows(th[t])'
    <3>1. Knows(th[t]) /\ th[t] \in ThreadRec
      BY <1>0 DEF AuthorityInv
    <3>2. th[t].snap # None => th[t].snap.uid \in Nat
      BY <3>1 DEF ThreadRec, LeaseRec
    <3> QED BY SMTT(60), <1>0, <2>1, <3>1, <3>2 DEF Knows
  <2>3. object # None /\ object.bound # None => object.bound \in Nat /\ object.bound <= restores
    BY DEF AuthorityInv, Authority, Inv0, TypeOK, ObjectRec
  <2>4. object # None /\ object.bound # None => object.bound < restores + 1 /\ object.bound <= restores + 1
    BY SMTT(60), <1>0, <2>3
  <2>5. Authority
    BY DEF AuthorityInv
  <2>6. Authority'
    BY <2>1, <2>4, <2>5 DEF Authority
  <2> QED BY <2>1, <2>2, <2>6 DEF AuthorityInv, OneHolderPerEpoch, At
<1>7. CASE RestoreLease
  <2>1. /\ lease = None /\ backup # None /\ backup \in LeaseRec
        /\ lease' = [backup EXCEPT !.rv = leaseRV + 1, !.uid = restores]
        /\ UNCHANGED <<restores, backup, object, th, fence, granted>>
    BY <1>7 DEF RestoreLease, Inv0, TypeOK
  <2>2. lease' \in LeaseRec /\ lease'.uid = restores /\ EpochOf(lease') = EpochOf(backup)
    <3>1. leaseRV + 1 \in Nat
      BY SMTT(60) DEF Inv0, TypeOK
    <3> QED BY <1>0, <2>1, <3>1 DEF LeaseRec, EpochOf
  <2>3. ASSUME NEW t \in Threads PROVE Knows(th[t])'
    BY <2>1, <2>2, NoneAssumption DEF AuthorityInv, Knows
  <2>4. Authority'
    BY SMTT(60), <1>0, <2>1, <2>2 DEF AuthorityInv, Authority
  <2> QED BY <2>1, <2>3, <2>4 DEF AuthorityInv, OneHolderPerEpoch, At
<1>8. CASE UNCHANGED vars
  BY <1>8, <1>e DEF vars
<1> QED BY <1>1, <1>2, <1>3, <1>4, <1>5, <1>6, <1>7, <1>8 DEF Next

\* CompareAndSwapControllerEpoch never grants one epoch to two holders, and a
\* controller's fence was granted to it, for any number of controllers, crashes,
\* takeovers, and losses and restores of the Lease.
THEOREM OneHolder == Spec => []OneHolderPerEpoch
<1>1. AuthorityInv => OneHolderPerEpoch
  BY DEF AuthorityInv
<1> QED BY <1>1, TypeInit, TypeNext, AuthorityInit, AuthorityNext, PTL DEF Spec

---------------------------------------------------------------------------
(* The mirror follows its Lease.  A sync writes the status of a bound      *)
(* mirror only from the epoch the mirror shows or the one after it, and    *)
(* the epoch CAS names a mirror that shows the Lease's own epoch and can   *)
(* only have gone forward since it was read.                               *)

\* Mirror o shows the epoch and the holder of Lease l.
Shows(o, l) == o.status # None /\ o.status.epoch = l.epoch /\ o.status.holder = l.holder

\* What the mirror copy of a thread with locals l says of its Lease copy.
Copied(l) ==
    /\ l.pc = "syncStatus" /\ l.obj.bound # None =>
          /\ l.obj.bound = l.snap.uid
          /\ l.obj.status # None => Shows(l.obj, l.snap) \/ l.obj.status.epoch = l.snap.epoch - 1
    /\ l.pc \in {"syncRevalidate", "syncMeta"} => Shows(l.obj, l.snap)
    /\ l.pc = "casUpdate" => /\ Shows(l.obj, l.snap)
                             /\ object.status # None /\ l.snap.epoch <= object.status.epoch

MirrorInv == MirrorFollowsLease /\ \A t \in Threads : Copied(th[t])

\* Positions that compare no copies.
Apart(r) == r.pc \notin {"syncStatus", "syncRevalidate", "syncMeta", "casUpdate"}

\* Nothing is asked of such a thread.
LEMMA ApartCopied == ASSUME NEW r, Apart(r) PROVE Copied(r) /\ Copied(r)'
BY DEF Apart, Copied

\* After an error, between calls and after Start's decision a thread compares no copies.
LEMMA ApartRecords ==
    /\ Apart(NoThread) /\ Apart(Idle) /\ Apart(Dead) /\ Apart(Crashed)
    /\ \A t, k : Apart(Failed(t, k))
    /\ \A c, seen : Apart(Observe(c, seen))
<1>1. Apart(NoThread) /\ Apart(Idle) /\ Apart(Dead) /\ Apart(Crashed)
  BY DEF Apart, NoThread, Idle, Dead, Crashed
<1>2. ASSUME NEW t, NEW k PROVE Apart(Failed(t, k))
  BY DEF Apart, Failed, NoThread, Idle, Dead
<1>3. ASSUME NEW c, NEW seen PROVE Apart(Observe(c, seen))
  BY DEF Apart, Observe, NoThread, Idle, Dead
<1> QED BY <1>1, <1>2, <1>3

\* A sync goes on only from a mirror that is unbound or bound to its Lease and that shows
\* the Lease's epoch or the one before it, and skips the status only if it is in step.
LEMMA MirrorDecides ==
    ASSUME NEW o, NEW l, validateControllerEpochStatusSyncState(o, l).err = "ok"
    PROVE  /\ o.bound # None => o.bound = l.uid
           /\ o.status # None => Shows(o, l) \/ o.status.epoch = l.epoch - 1
           /\ ~validateControllerEpochStatusSyncState(o, l).write => Shows(o, l)
<1> DEFINE b == validateControllerEpochLeaseUIDBinding(o, l)
           d == validateControllerEpochStatusSyncState(o, l)
<1>1. \A e : Refuse(e).err = e
  BY DEF Refuse
<1>a. Refuse("fatal").err # "ok" /\ Refuse("conflict").err # "ok"
  BY DEF Refuse
<1>2. \A w, x, c : Decision(w, x, c).write = w
  BY DEF Decision
<1>3. b \notin {"conflict", "fatal"}
  BY <1>1 DEF validateControllerEpochStatusSyncState
<1>4. o.bound # None => o.bound = l.uid
  BY <1>3 DEF validateControllerEpochLeaseUIDBinding
<1>5. CASE o.status = None
  <2>1. d = Decision(TRUE, b # "bound", TRUE)
    <3>1. d = IF l.pred # None THEN Refuse("conflict")
              ELSE IF ~validateControllerEpochInitializationMarker(o, l) THEN Refuse("fatal")
              ELSE Decision(TRUE, b # "bound", TRUE)
      BY <1>3, <1>5 DEF validateControllerEpochStatusSyncState
    <3> QED BY <1>1, <3>1
  <2> QED BY <1>2, <1>4, <1>5, <2>1
<1>6. CASE o.status # None
  <2>1. d = IF o.status.epoch = l.epoch
            THEN IF validateControllerEpochObjectForLease(o, l)
                 THEN Decision(o.status.lrv # l.rv, b = "finish", o.marker # None)
                 ELSE Refuse("fatal")
            ELSE IF \/ o.status.epoch # l.epoch - 1
                    \/ o.marker # None
                    \/ l.pred = None
                    \/ controllerEpochMirrorDigest(o) # l.pred
                 THEN Refuse("conflict")
                 ELSE Decision(TRUE, b = "finish", b = "finish")
    BY <1>3, <1>6 DEF validateControllerEpochStatusSyncState
  <2>2. CASE o.status.epoch = l.epoch
    <3>1. validateControllerEpochObjectForLease(o, l)
      <4> SUFFICES ASSUME ~validateControllerEpochObjectForLease(o, l) PROVE FALSE
        OBVIOUS
      <4>1. d = Refuse("fatal")
        BY <2>1, <2>2
      <4> QED BY <1>a, <4>1
    <3>2. Shows(o, l)
      BY <1>6, <3>1 DEF validateControllerEpochObjectForLease, Shows
    <3> QED BY <1>4, <3>2
  <2>3. CASE o.status.epoch # l.epoch
    <3> DEFINE apart == \/ o.status.epoch # l.epoch - 1
                        \/ o.marker # None
                        \/ l.pred = None
                        \/ controllerEpochMirrorDigest(o) # l.pred
    <3>1. d = IF apart THEN Refuse("conflict") ELSE Decision(TRUE, b = "finish", b = "finish")
      BY <2>1, <2>3
    <3>2. ~apart
      <4> SUFFICES ASSUME apart PROVE FALSE
        OBVIOUS
      <4>1. d = Refuse("conflict")
        BY <3>1
      <4> QED BY <1>a, <4>1
    <3> DEFINE f == b = "finish"
    <3>3. d = Decision(TRUE, f, f)
      BY <3>1, <3>2
    <3>4. o.status.epoch = l.epoch - 1
      BY <3>2
    <3> HIDE DEF f, b, d
    <3>5. d.write
      BY <1>2, <3>3
    <3> USE DEF d
    <3> QED BY <1>4, <3>4, <3>5
  <2> QED BY <2>2, <2>3
<1> QED BY <1>5, <1>6

\* The epochs of Leases and mirrors are integers.
LEMMA EpochInts ==
    /\ \A l \in LeaseRec : l.epoch \in Int /\ l.uid \in Int
    /\ \A o \in ObjectRec : o.status # None => o.status \in StatusRec /\ o.status.epoch \in Int
BY SMTT(60), BoundAssumption DEF LeaseRec, ObjectRec, StatusRec, Epochs

\* A step of one thread that leaves the mirror alone.
LEMMA MirrorFrame ==
    ASSUME Inv0, MirrorInv, NEW t \in Threads, NEW r, Set(t, r), Copied(r), object' = object, MirrorFollowsLease'
    PROVE  MirrorInv'
<1>1. \A u \in Threads : th'[u] = IF u = t THEN r ELSE th[u]
  BY DEF Inv0, TypeOK, Set
<1>2. ASSUME NEW u \in Threads PROVE Copied(th[u])'
  <2>1. CASE u = t
    BY <1>1, <2>1 DEF Copied
  <2>2. CASE u # t
    BY <1>1, <2>2 DEF Copied, MirrorInv
  <2> QED BY <2>1, <2>2
<1> QED BY <1>2 DEF MirrorInv

\* A write of the mirror that takes the epoch a bound mirror shows no way back.
LEMMA MirrorForward ==
    ASSUME Inv0, AuthorityInv, MirrorInv, NEW t \in Threads, NEW r, Set(t, r), Copied(r)', MirrorFollowsLease',
           object # None, object' \in ObjectRec,
           object.bound # None /\ object.status # None =>
               object'.status # None /\ object.status.epoch <= object'.status.epoch
    PROVE  MirrorInv'
<1>1. \A u \in Threads : th'[u] = IF u = t THEN r ELSE th[u]
  BY DEF Inv0, TypeOK, Set
<1>2. ASSUME NEW u \in Threads PROVE Copied(th[u])'
  <2>1. CASE u = t
    BY <1>1, <2>1 DEF Copied
  <2>2. CASE u # t /\ th[u].pc # "casUpdate"
    BY <1>1, <2>2 DEF Copied, MirrorInv
  <2>3. CASE u # t /\ th[u].pc = "casUpdate"
    <3> DEFINE l == th[u]
    <3>1. l \in ThreadRec /\ Shape(u, l) /\ Knows(l) /\ Copied(l)
      BY DEF Inv0, Shapes, Shape, AuthorityInv, MirrorInv
    <3>2. l.obj # None /\ l.snap # None /\ l.snap \in LeaseRec /\ l.obj.bound = l.snap.uid
      BY <2>3, <3>1 DEF Shape, Fetched, ThreadRec
    <3>3. object.bound # None
      BY <3>1, <3>2, NoneAssumption DEF Knows, LeaseRec
    <3>4. Shows(l.obj, l.snap) /\ object.status # None /\ l.snap.epoch <= object.status.epoch
      BY <2>3, <3>1 DEF Copied
    <3>5. object'.status # None /\ object.status.epoch <= object'.status.epoch
      BY <3>3, <3>4
    <3>6. l.snap.epoch <= object'.status.epoch
      <4>1. l.snap.epoch \in Int /\ object.status.epoch \in Int /\ object'.status.epoch \in Int
        BY <3>2, <3>4, <3>5, EpochInts DEF Inv0, TypeOK
      <4> QED BY SMTT(60), <3>4, <3>5, <4>1
    <3> QED BY <1>1, <2>3, <3>4, <3>5, <3>6 DEF Copied, Shows
  <2> QED BY <2>1, <2>2, <2>3
<1> QED BY <1>2 DEF MirrorInv

\* Reading the epoch and synchronizing the mirror keep the invariant.
LEMMA MirrorSync ==
    ASSUME Inv0, AuthorityInv, MirrorInv, NEW t \in Threads, SyncStep(t)
    PROVE  MirrorInv'
<1> DEFINE l == th[t]
           same == UNCHANGED <<lease, restores, granted>>
<1>0. /\ Knows(l) /\ Shape(t, l) /\ l \in ThreadRec /\ Copied(l)
      /\ lease \in LeaseRec \cup {None} /\ object \in ObjectRec \cup {None}
      /\ l.obj # None => object # None
  BY DEF AuthorityInv, MirrorInv, Inv0, Shapes, Shape, TypeOK
<1>a. ASSUME NEW r, Apart(r) \/ Copied(r), Set(t, r), same, object' = object PROVE MirrorInv'
  <2>1. Copied(r) /\ MirrorFollowsLease'
    BY <1>a, ApartCopied DEF MirrorInv, MirrorFollowsLease
  <2> QED BY <1>a, <2>1, MirrorFrame
<1>b. SyncDone(t) => \E r : Set(t, r) /\ Apart(r)
  <2> DEFINE check == [l EXCEPT !.pc = "casCheck", !.obj = None, !.dec = None]
  <2>1. Apart(check)
    BY <1>0 DEF Apart, ThreadRec
  <2>2. SyncDone(t) => Set(t, Idle) \/ Set(t, check) \/ \E e : Set(t, Observe(t, e))
    BY DEF SyncDone
  <2> HIDE DEF check
  <2> QED BY <2>1, <2>2, ApartRecords
<1>c. ASSUME SyncConflict(t), same PROVE MirrorInv'
  <2> DEFINE r1 == [l EXCEPT !.pc = "syncLease", !.obj = None, !.dec = None]
  <2>1. (Set(t, r1) \/ Set(t, Failed(t, "fatal"))) /\ object' = object
    BY <1>c DEF SyncConflict
  <2>2. Apart(r1)
    BY <1>0 DEF Apart, ThreadRec
  <2> HIDE DEF r1
  <2> QED BY <1>a, <1>c, <2>1, <2>2, ApartRecords
<1>1. CASE GetLease(t)
  <2> DEFINE r1 == [l EXCEPT !.pc = "syncLease", !.snap = lease]
  <2>1. same /\ object' = object /\ (Set(t, r1) \/ Set(t, Idle) \/ Set(t, Observe(t, None)))
    BY <1>1 DEF GetLease, authority
  <2>2. Apart(r1)
    BY <1>0 DEF Apart, ThreadRec
  <2> HIDE DEF r1
  <2> QED BY <1>a, <2>1, <2>2, ApartRecords
<1>2. CASE SyncLease(t)
  <2> DEFINE r2 == [NoThread EXCEPT !.pc = "getLease", !.call = l.call, !.pre = l.pre]
             r3 == [l EXCEPT !.pc = IF l.pc = "syncLease" THEN "syncObject" ELSE "syncMeta"]
  <2>0. same /\ object' = object /\ l.pc \in {"syncLease", "syncRevalidate"}
    BY <1>2 DEF SyncLease, authority
  <2>1. \/ \E e : Set(t, Observe(t, e))
        \/ \E k : Set(t, Failed(t, k))
        \/ Set(t, r2) \/ Set(t, r3)
    BY <1>2 DEF SyncLease
  <2>2. Apart(r2)
    BY DEF Apart, NoThread
  <2>3. /\ r3.snap = l.snap /\ r3.obj = l.obj
        /\ r3.pc = "syncObject" \/ (r3.pc = "syncMeta" /\ l.pc = "syncRevalidate")
    BY <1>0, <2>0 DEF ThreadRec
  <2> HIDE DEF r2, r3
  <2>4. Apart(r3) \/ Copied(r3)
    BY <1>0, <2>3 DEF Apart, Copied
  <2> QED BY <1>a, <2>0, <2>1, <2>2, <2>4, ApartRecords
<1>3. CASE SyncObject(t)
  <2> DEFINE d == validateControllerEpochStatusSyncState(object, l.snap)
             r1 == [l EXCEPT !.pc = IF d.write THEN "syncStatus" ELSE "syncRevalidate",
                             !.obj = object, !.dec = d]
  <2>0. same /\ object' = object
    BY <1>3 DEF SyncObject, authority
  <2>1. \/ \E k : Set(t, Failed(t, k))
        \/ d.err = "ok" /\ Set(t, r1)
        \/ SyncDone(t)
    BY <1>3 DEF SyncObject
  <2>2. d.err = "ok" => Copied(r1)
    <3> SUFFICES ASSUME d.err = "ok" PROVE Copied(r1)
      OBVIOUS
    <3>1. /\ object.bound # None => object.bound = l.snap.uid
          /\ object.status # None => Shows(object, l.snap) \/ object.status.epoch = l.snap.epoch - 1
          /\ ~d.write => Shows(object, l.snap)
      BY MirrorDecides
    <3> HIDE DEF d
    <3>2. r1.snap = l.snap /\ r1.obj = object /\ r1.pc = IF d.write THEN "syncStatus" ELSE "syncRevalidate"
      BY <1>0 DEF ThreadRec
    <3> HIDE DEF r1
    <3> QED BY <3>1, <3>2 DEF Copied
  <2> HIDE DEF r1, d
  <2> QED BY <1>a, <1>b, <2>0, <2>1, <2>2, ApartRecords
<1>4. CASE SyncStatus(t)
  <2> DEFINE st == [epoch |-> l.snap.epoch, holder |-> l.snap.holder, lrv |-> l.snap.rv]
             new == [object EXCEPT !.rv = @ + 1, !.status = st]
             r1 == [l EXCEPT !.pc = "syncRevalidate", !.obj = new]
  <2>0. /\ same /\ l.pc = "syncStatus" /\ l.snap \in LeaseRec /\ l.snap # None /\ l.obj # None
        /\ object \in ObjectRec /\ object # None
    BY <1>0, <1>4 DEF SyncStatus, authority, At, Shape, ThreadRec, Fetched, SyncPCs
  <2>1. new \in ObjectRec /\ new.bound = object.bound /\ new.status = st /\ st \in StatusRec /\ st # None
    <3>1. object.rv + 1 \in Nat
      BY SMTT(60), <2>0 DEF ObjectRec
    <3>2. st \in StatusRec
      BY <2>0 DEF LeaseRec, StatusRec
    <3> HIDE DEF st
    <3> QED BY <2>0, <3>1, <3>2, NoneAssumption DEF ObjectRec
  <2>2. \/ SyncConflict(t)
        \/ object.rv = l.obj.rv /\ object' = new /\ (Set(t, r1) \/ SyncDone(t))
    BY <1>4 DEF SyncStatus
  <2>a. st.epoch = l.snap.epoch /\ st.holder = l.snap.holder
    OBVIOUS
  <2> HIDE DEF new, st
  <2>3. r1.snap = l.snap /\ r1.obj = new /\ r1.pc = "syncRevalidate"
    BY <1>0 DEF ThreadRec
  <2> HIDE DEF r1
  <2>4. CASE object.rv = l.obj.rv /\ object' = new /\ (Set(t, r1) \/ SyncDone(t))
    <3>1. PICK r : Set(t, r) /\ (r = r1 \/ Apart(r))
      BY <1>b, <2>4
    <3>2. Copied(r)'
      BY <2>1, <2>3, <2>a, <3>1, ApartCopied DEF Copied, Shows
    <3>3. l.obj = object
      BY <1>0, <2>0, <2>4 DEF Knows
    <3>4. ASSUME object.bound # None
          PROVE  /\ object.bound = l.snap.uid
                 /\ object.status # None => Shows(object, l.snap) \/ object.status.epoch = l.snap.epoch - 1
      BY <1>0, <2>0, <3>3, <3>4 DEF Copied
    <3>5. ASSUME object.bound # None, object.status # None
          PROVE  object'.status # None /\ object.status.epoch <= object'.status.epoch
      <4>1. object.status.epoch \in Int /\ l.snap.epoch \in Int
        BY <2>0, <3>5, EpochInts
      <4>2. object'.status = st
        BY <2>1, <2>4
      <4>3. object.status.epoch = l.snap.epoch \/ object.status.epoch = l.snap.epoch - 1
        BY <3>4, <3>5 DEF Shows
      <4>4. object.status.epoch <= l.snap.epoch
        BY SMTT(60), <4>1, <4>3
      <4> QED BY <2>1, <2>a, <4>2, <4>4
    <3>6. MirrorFollowsLease'
      <4> SUFFICES ASSUME lease # None, object.bound = lease.uid
                   PROVE  /\ st.epoch \in {lease.epoch, lease.epoch - 1}
                          /\ [epoch |-> st.epoch, holder |-> st.holder] \in granted
                          /\ st.epoch # lease.epoch =>
                                /\ lease.pred # None
                                /\ lease.pred.epoch = st.epoch /\ lease.pred.holder = st.holder
        BY <2>0, <2>1, <2>4 DEF MirrorFollowsLease
      <4>1. lease \in LeaseRec /\ lease.uid # None /\ lease.epoch \in Int /\ l.snap.epoch \in Int
        BY <1>0, <2>0, EpochInts, NoneAssumption DEF LeaseRec
      <4>2. object.status # None /\ object.status.epoch \in {lease.epoch, lease.epoch - 1}
            /\ (object.status.epoch # lease.epoch => /\ lease.pred # None
                                                     /\ lease.pred.epoch = object.status.epoch
                                                     /\ lease.pred.holder = object.status.holder)
        BY <2>0 DEF MirrorInv, MirrorFollowsLease
      <4>3. EpochOf(l.snap) \in granted /\ EpochOf(l.snap).epoch = l.snap.epoch
        BY <1>0, <2>0 DEF Knows, EpochOf
      <4>4. l.snap.epoch <= lease.epoch
        BY <2>0, <4>1, <4>3 DEF AuthorityInv, Authority
      <4>5. Shows(object, l.snap) \/ object.status.epoch = l.snap.epoch - 1
        BY <3>4, <4>1, <4>2
      <4>6. [epoch |-> st.epoch, holder |-> st.holder] \in granted
        BY <2>a, <4>3 DEF EpochOf
      <4>7. CASE Shows(object, l.snap)
        BY <2>a, <4>2, <4>6, <4>7 DEF Shows
      <4>8. CASE object.status.epoch = l.snap.epoch - 1
        <5>1. l.snap.epoch = lease.epoch
          BY SMTT(60), <4>1, <4>2, <4>4, <4>8
        <5> QED BY <2>a, <4>6, <5>1
      <4> QED BY <4>5, <4>7, <4>8
    <3> QED BY <2>0, <2>1, <2>4, <3>1, <3>2, <3>5, <3>6, MirrorForward
  <2> QED BY <1>c, <2>0, <2>2, <2>4
<1>5. CASE SyncMeta(t)
  <2> DEFINE new == [object EXCEPT !.rv = @ + 1,
                      !.bound = IF l.dec.bind THEN l.snap.uid ELSE @,
                      !.marker = IF l.dec.clear THEN None ELSE @]
  <2>0. /\ same /\ l.pc = "syncMeta" /\ l.snap \in LeaseRec /\ l.snap # None
        /\ l.obj # None /\ l.dec # None /\ object \in ObjectRec /\ object # None
    BY <1>0, <1>5 DEF SyncMeta, authority, At, SyncPCs, Shape, ThreadRec, Fetched
  <2>1. /\ new \in ObjectRec /\ new.status = object.status
        /\ new.bound = IF l.dec.bind THEN l.snap.uid ELSE object.bound
    <3>1. object.rv + 1 \in Nat
      BY SMTT(60), <2>0 DEF ObjectRec
    <3> QED BY <2>0, <3>1 DEF ObjectRec, LeaseRec
  <2>2. SyncConflict(t) \/ (object.rv = l.obj.rv /\ object' = new /\ SyncDone(t))
    BY <1>5 DEF SyncMeta
  <2> HIDE DEF new
  <2>3. CASE object.rv = l.obj.rv /\ object' = new /\ SyncDone(t)
    <3>1. PICK r : Set(t, r) /\ Apart(r)
      BY <1>b, <2>3
    <3>2. Copied(r)'
      BY <3>1, ApartCopied
    <3>3. l.obj = object /\ Shows(object, l.snap)
      BY <1>0, <2>0, <2>3 DEF Knows, Copied
    <3>4. object.bound # None /\ object.status # None =>
            object'.status # None /\ object.status.epoch <= object'.status.epoch
      <4>1. object.status # None => object.status.epoch <= object.status.epoch
        BY SMTT(60), <2>0, EpochInts
      <4> QED BY <2>1, <2>3, <4>1
    <3>5. MirrorFollowsLease'
      <4>1. CASE ~l.dec.bind
        BY <2>0, <2>1, <2>3, <4>1 DEF MirrorInv, MirrorFollowsLease
      <4>2. CASE l.dec.bind
        <5> SUFFICES ASSUME lease # None
                     PROVE  /\ object.status # None
                            /\ object.status.epoch = lease.epoch
                            /\ [epoch |-> object.status.epoch, holder |-> object.status.holder] \in granted
          BY <2>0, <2>1, <2>3 DEF MirrorFollowsLease
        <5>1. object.bound = None
          BY <1>0, <2>0, <3>3, <4>2 DEF Knows
        <5>2. \A g \in granted : g.epoch = 1
          BY <2>0, <5>1 DEF AuthorityInv, Authority
        <5>3. EpochOf(lease) \in granted /\ EpochOf(l.snap) \in granted
          BY <1>0, <2>0 DEF AuthorityInv, Authority, Knows
        <5>4. lease.epoch = 1 /\ l.snap.epoch = 1
          BY <5>2, <5>3 DEF EpochOf
        <5> QED BY <3>3, <5>3, <5>4 DEF Shows, EpochOf
      <4> QED BY <4>1, <4>2
    <3> QED BY <2>0, <2>1, <2>3, <3>1, <3>2, <3>4, <3>5, MirrorForward
  <2> QED BY <1>c, <2>0, <2>2, <2>3
<1> QED BY <1>1, <1>2, <1>3, <1>4, <1>5 DEF SyncStep

\* Start, the compare-and-swap, the mutations and a crash keep the invariant.
LEMMA MirrorController ==
    ASSUME Inv0, AuthorityInv, MirrorInv, NEW c \in Controllers, ControllerStep(c) \/ Crash(c)
    PROVE  MirrorInv'
<1> DEFINE l == th[c]
           same == UNCHANGED <<lease, granted, object>>
<1>0. /\ Knows(l) /\ Shape(c, l) /\ l \in ThreadRec /\ Copied(l) /\ c \in Threads
      /\ lease \in LeaseRec \cup {None} /\ object \in ObjectRec \cup {None}
  <2>1. c \in Threads
    BY DEF Threads
  <2> QED BY <2>1 DEF AuthorityInv, MirrorInv, Inv0, Shapes, Shape, TypeOK
<1>a. ASSUME NEW r, Apart(r) \/ Copied(r), Set(c, r), same PROVE MirrorInv'
  <2>1. Copied(r) /\ MirrorFollowsLease'
    BY <1>a, ApartCopied DEF MirrorInv, MirrorFollowsLease
  <2> QED BY <1>0, <1>a, <2>1, MirrorFrame
<1>b. ASSUME NEW r, Apart(r), Set(c, r), UNCHANGED <<granted, object>>, lease # None, lease' # None,
             lease'.uid = lease.uid, lease'.epoch = lease.epoch, lease'.pred = lease.pred
      PROVE  MirrorInv'
  <2>1. Copied(r) /\ MirrorFollowsLease'
    BY <1>b, ApartCopied DEF MirrorInv, MirrorFollowsLease
  <2> QED BY <1>0, <1>b, <2>1, MirrorFrame
<1>1. CASE Crash(c)
  BY <1>1, <1>a, ApartRecords DEF Crash, authority
<1>2. CASE Start(c)
  <2>1. Apart([NoThread EXCEPT !.pc = "getLease", !.call = "start"])
    BY DEF Apart, NoThread
  <2> QED BY <1>2, <1>a, <2>1 DEF Start, authority
<1>3. CASE CasLease(c)
  <2> DEFINE r1 == [l EXCEPT !.pc = "syncLease", !.call = "pre", !.snap = lease]
             r2 == [l EXCEPT !.pc = "casCreateObject"]
  <2>0. same
    BY <1>3 DEF CasLease, authority
  <2>1. Set(c, r1) \/ Set(c, r2) \/ Set(c, Failed(c, "conflict"))
    BY <1>3 DEF CasLease
  <2>2. Apart(r1) /\ Apart(r2)
    BY <1>0 DEF ThreadRec, Apart
  <2> HIDE DEF r1, r2
  <2> QED BY <1>a, <2>0, <2>1, <2>2, ApartRecords
<1>4. CASE CasCreateObject(c)
  <2> DEFINE r == [l EXCEPT !.pc = "casCreateLease"]
  <2>0. UNCHANGED <<lease, granted>>
    BY <1>4 DEF CasCreateObject, authority
  <2>1. CASE object # None
    BY <1>4, <1>a, <2>0, <2>1, ApartRecords DEF CasCreateObject
  <2>2. CASE object = None
    <3>1. Set(c, r) /\ object' = [rv |-> 1, bound |-> None, marker |-> c, status |-> None]
      BY <1>4, <2>2 DEF CasCreateObject
    <3>2. r.pc = "casCreateLease"
      BY <1>0 DEF ThreadRec
    <3>3. \A u \in Threads : th'[u] = IF u = c THEN r ELSE th[u]
      BY <3>1 DEF Inv0, TypeOK, Set
    <3> HIDE DEF r
    <3>4. ASSUME NEW u \in Threads PROVE Apart(th[u])'
      <4>1. th[u].obj = None /\ Shape(u, th[u])
        BY <2>2 DEF Inv0, Shapes
      <4>2. Apart(th[u])
        BY <4>1 DEF Shape, Apart
      <4> QED BY <3>2, <3>3, <4>2 DEF Apart
    <3>5. MirrorFollowsLease'
      <4>1. lease # None => lease.uid # None
        BY <1>0, NoneAssumption DEF LeaseRec
      <4> QED BY <2>0, <3>1, <4>1 DEF MirrorFollowsLease
    <3> QED BY <3>4, <3>5 DEF MirrorInv, Copied, Apart
  <2> QED BY <2>1, <2>2
<1>5. CASE CasCreateLease(c)
  <2> DEFINE new == [rv |-> leaseRV + 1, uid |-> restores, epoch |-> 1, holder |-> c,
                     pred |-> None, token |-> None]
             r1 == [l EXCEPT !.pc = "syncLease", !.call = "post", !.snap = new]
             r2 == [l EXCEPT !.pc = "casLease"]
  <2>0. l.pc = "casCreateLease" /\ UNCHANGED object
    BY <1>5 DEF CasCreateLease, At
  <2>1. \/ lease = None /\ lease' = new /\ Set(c, r1)
        \/ Set(c, r2) /\ UNCHANGED <<lease, granted>>
    BY <1>5 DEF CasCreateLease
  <2>2. Apart(r1) /\ Apart(r2) /\ new.uid = restores
    BY <1>0 DEF ThreadRec, Apart
  <2> HIDE DEF new, r1, r2
  <2>3. CASE lease = None /\ lease' = new /\ Set(c, r1)
    <3>1. object.bound # restores
      <4>1. object # None /\ restores \in Nat
        BY SMTT(60), <1>0, <2>0, BoundAssumption DEF Knows, Inv0, TypeOK
      <4>2. object.bound # None => object.bound \in Nat /\ object.bound < restores
        BY <1>0, <2>3, <4>1 DEF AuthorityInv, Authority, ObjectRec
      <4>3. object.bound = None => object.bound # restores
        BY <4>1, NoneAssumption
      <4>4. object.bound # None => object.bound # restores
        BY SMTT(60), <4>1, <4>2
      <4> QED BY <4>3, <4>4
    <3>2. Copied(r1) /\ MirrorFollowsLease'
      BY <2>0, <2>2, <2>3, <3>1, ApartCopied DEF MirrorFollowsLease
    <3> QED BY <1>0, <2>0, <2>3, <3>2, MirrorFrame
  <2> QED BY <1>a, <2>0, <2>1, <2>2, <2>3
<1>6. CASE CasCheck(c)
  <2> DEFINE go == [l EXCEPT !.pc = "casUpdate", !.obj = object]
  <2>0. l.pc = "casCheck" /\ same /\ l.snap \in LeaseRec
    BY <1>0, <1>6 DEF CasCheck, At, authority, Shape, Fetched, ThreadRec
  <2>1. \/ \E k : Set(c, Failed(c, k))
        \/ Set(c, Dead) \/ Set(c, Idle)
        \/ /\ Set(c, go) /\ object # None /\ object.status # None
           /\ validateControllerEpochObjectForLease(object, l.snap)
    BY <1>6 DEF CasCheck
  <2>2. go.pc = "casUpdate" /\ go.snap = l.snap /\ go.obj = object
    BY <1>0 DEF ThreadRec
  <2> HIDE DEF go
  <2>3. ASSUME object # None, object.status # None, validateControllerEpochObjectForLease(object, l.snap)
        PROVE  Copied(go)
    <3>1. Shows(object, l.snap)
      BY <2>3 DEF validateControllerEpochObjectForLease, Shows
    <3>2. l.snap.epoch <= l.snap.epoch
      BY SMTT(60), <2>0, EpochInts
    <3> QED BY <2>2, <3>1, <3>2 DEF Copied, Shows
  <2> QED BY <1>a, <2>0, <2>1, <2>3, ApartRecords
<1>7. CASE CasUpdate(c)
  <2> DEFINE new == [rv |-> leaseRV + 1, uid |-> l.snap.uid, epoch |-> l.snap.epoch + 1, holder |-> c,
                     pred |-> controllerEpochMirrorDigest(l.obj), token |-> None]
             r == [l EXCEPT !.pc = "syncLease", !.call = "post", !.snap = new, !.obj = None]
  <2>0. /\ l.pc = "casUpdate" /\ l.snap \in LeaseRec /\ l.snap # None /\ l.obj \in ObjectRec /\ l.obj # None
        /\ l.obj.bound = l.snap.uid /\ object' = object
    BY <1>0, <1>7 DEF CasUpdate, At, Shape, ThreadRec, Fetched
  <2>1. \/ lease = l.snap /\ lease' = new /\ granted' = granted \cup {EpochOf(new)} /\ Set(c, r)
        \/ (\E k : Set(c, Failed(c, k))) /\ UNCHANGED <<lease, granted>>
    BY <1>7 DEF CasUpdate
  <2>2. /\ new.uid = l.snap.uid /\ new.epoch = l.snap.epoch + 1 /\ new.pred = controllerEpochMirrorDigest(l.obj)
        /\ Apart(r)
    BY <1>0 DEF ThreadRec, Apart
  <2> HIDE DEF new, r
  <2>3. CASE lease = l.snap /\ lease' = new /\ granted' = granted \cup {EpochOf(new)} /\ Set(c, r)
    <3>1. /\ Shows(l.obj, l.snap) /\ object # None /\ object \in ObjectRec
          /\ object.status # None /\ l.snap.epoch <= object.status.epoch
      <4>1. object # None
        BY <1>0, <2>0 DEF Inv0
      <4> QED BY <1>0, <2>0, <4>1 DEF Copied
    <3>2. object.bound = lease.uid
      <4>1. l.obj.bound # None
        BY <2>0, NoneAssumption DEF LeaseRec
      <4> QED BY <1>0, <2>0, <2>3, <4>1 DEF Knows
    <3>3. /\ object.status.epoch \in {lease.epoch, lease.epoch - 1}
          /\ [epoch |-> object.status.epoch, holder |-> object.status.holder] \in granted
      BY <2>0, <2>3, <3>1, <3>2 DEF MirrorInv, MirrorFollowsLease
    <3>4. object.status.epoch \in Int /\ l.snap.epoch \in Int
      BY <2>0, <3>1, EpochInts
    <3>5. object.status.epoch = l.snap.epoch
      <4>1. object.status.epoch = l.snap.epoch \/ object.status.epoch = l.snap.epoch - 1
        BY <2>3, <3>3
      <4>2. l.snap.epoch <= object.status.epoch
        BY <3>1
      <4> QED BY SMTT(60), <3>4, <4>1, <4>2
    <3>6. object.status.holder = l.snap.holder
      <4>1. EpochOf(l.snap) \in granted
        BY <1>0, <2>0 DEF Knows
      <4> DEFINE g == EpochOf(l.snap)
                 h == [epoch |-> object.status.epoch, holder |-> object.status.holder]
      <4>2. g.epoch = h.epoch /\ g.holder = l.snap.holder /\ h.holder = object.status.holder
        BY <3>5 DEF EpochOf
      <4>3. g \in granted /\ h \in granted
        BY <3>3, <4>1
      <4> HIDE DEF g, h
      <4>4. g.holder = h.holder
        BY <4>2, <4>3 DEF AuthorityInv, OneHolderPerEpoch
      <4> QED BY <4>2, <4>4
    <3>7. new.pred # None /\ new.pred.epoch = object.status.epoch /\ new.pred.holder = object.status.holder
      <4>1. /\ controllerEpochMirrorDigest(l.obj).epoch = l.obj.status.epoch
            /\ controllerEpochMirrorDigest(l.obj).holder = l.obj.status.holder
        BY DEF controllerEpochMirrorDigest
      <4>2. controllerEpochMirrorDigest(l.obj) \in MirrorDigest
        BY <2>0, <3>1 DEF controllerEpochMirrorDigest, MirrorDigest, ObjectRec, StatusRec, LeaseRec, Shows
      <4> QED BY <2>2, <3>1, <3>5, <3>6, <4>1, <4>2, NoneAssumption DEF Shows
    <3>8. object.status.epoch = new.epoch - 1
      BY SMTT(60), <2>2, <3>4, <3>5
    <3>9. Copied(r) /\ MirrorFollowsLease'
      BY <2>0, <2>2, <2>3, <3>1, <3>3, <3>7, <3>8, ApartCopied DEF MirrorFollowsLease
    <3> QED BY <1>0, <2>0, <2>3, <3>9, MirrorFrame
  <2> QED BY <1>a, <2>0, <2>1, <2>3, ApartRecords
<1>8. CASE BeginMutation(c)
  <2>1. Apart([NoThread EXCEPT !.pc = "mutLease", !.exp = target.rv])
    BY DEF Apart, NoThread
  <2> QED BY <1>8, <1>a, <2>1 DEF BeginMutation, authority
<1>9. CASE MutLease(c)
  <2> DEFINE r == [l EXCEPT !.pc = "mutObject", !.snap = lease]
  <2>0. same /\ (Set(c, r) \/ Set(c, Idle))
    BY <1>9 DEF MutLease, authority
  <2>1. Apart(r)
    BY <1>0 DEF ThreadRec, Apart
  <2> HIDE DEF r
  <2> QED BY <1>a, <2>0, <2>1, ApartRecords
<1>10. CASE MutObject(c)
  <2> DEFINE r1 == [l EXCEPT !.pc = "mutUpdate"]
             r2 == [l EXCEPT !.pc = "mutLease", !.snap = None]
  <2>0. same /\ (Set(c, r1) \/ Set(c, r2) \/ Set(c, Idle))
    BY <1>10 DEF MutObject, authority
  <2>1. Apart(r1) /\ Apart(r2)
    BY <1>0 DEF ThreadRec, Apart
  <2> HIDE DEF r1, r2
  <2> QED BY <1>a, <2>0, <2>1, ApartRecords
<1>11. CASE MutUpdate(c)
  <2> DEFINE new == [l.snap EXCEPT !.rv = leaseRV + 1, !.token = <<c, count[c]>>]
             r1 == [l EXCEPT !.pc = "mutWrite", !.snap = new, !.tok = new.token]
             r2 == [l EXCEPT !.pc = "mutLease", !.snap = None]
  <2>0. l.snap \in LeaseRec /\ UNCHANGED <<object, granted>>
    BY <1>0, <1>11 DEF MutUpdate, At, Shape, ThreadRec, Fetched
  <2>1. \/ lease = l.snap /\ lease' = new /\ lease' # None /\ Set(c, r1)
        \/ (Set(c, r2) \/ Set(c, Idle)) /\ lease' = lease
    <3>1. leaseRV + 1 \in Nat /\ <<c, count[c]>> \in Tokens
      BY SMTT(60) DEF Tokens, Inv0, TypeOK
    <3>2. new \in LeaseRec
      BY <2>0, <3>1 DEF LeaseRec
    <3> QED BY <1>11, <3>2, NoneAssumption DEF MutUpdate
  <2>2. new.uid = l.snap.uid /\ new.epoch = l.snap.epoch /\ new.pred = l.snap.pred
    BY <2>0 DEF LeaseRec
  <2> HIDE DEF new
  <2>3. Apart(r1) /\ Apart(r2)
    BY <1>0 DEF ThreadRec, Apart
  <2> HIDE DEF r1, r2
  <2>4. CASE lease = l.snap /\ lease' = new /\ lease' # None /\ Set(c, r1)
    <3>1. lease # None
      BY <2>0, <2>4, NoneAssumption
    <3>2. lease'.uid = lease.uid /\ lease'.epoch = lease.epoch /\ lease'.pred = lease.pred
      BY <2>2, <2>4
    <3> QED BY <1>b, <2>0, <2>3, <2>4, <3>1, <3>2
  <2> QED BY <1>a, <2>0, <2>1, <2>3, <2>4, ApartRecords
<1>12. CASE MutWrite(c)
  <2> DEFINE r == [l EXCEPT !.pc = "mutRelease"]
  <2>0. Set(c, r) /\ same
    BY <1>12 DEF MutWrite, authority
  <2>1. Apart(r)
    BY <1>0 DEF ThreadRec, Apart
  <2> HIDE DEF r
  <2> QED BY <1>a, <2>0, <2>1
<1>13. CASE MutRelease(c)
  <2> DEFINE new == [l.snap EXCEPT !.rv = leaseRV + 1, !.token = None]
             r == [l EXCEPT !.snap = lease]
  <2>0. l.pc = "mutRelease" /\ l.snap \in LeaseRec /\ UNCHANGED <<object, granted>>
    BY <1>0, <1>13 DEF MutRelease, At, Shape, ThreadRec, Fetched
  <2>1. \/ lease = l.snap /\ lease' = new /\ lease' # None /\ Set(c, Idle)
        \/ (Set(c, r) \/ Set(c, Idle)) /\ lease' = lease
    <3>1. leaseRV + 1 \in Nat
      BY SMTT(60) DEF Inv0, TypeOK
    <3>2. new \in LeaseRec
      BY <2>0, <3>1 DEF LeaseRec
    <3> QED BY <1>13, <3>2, NoneAssumption DEF MutRelease
  <2>2. new.uid = l.snap.uid /\ new.epoch = l.snap.epoch /\ new.pred = l.snap.pred
    BY <2>0 DEF LeaseRec
  <2>3. Apart(r)
    BY <1>0, <2>0 DEF ThreadRec, Apart
  <2> HIDE DEF new, r
  <2>4. CASE lease = l.snap /\ lease' = new /\ lease' # None /\ Set(c, Idle)
    <3>1. lease # None
      BY <2>0, <2>4, NoneAssumption
    <3>2. lease'.uid = lease.uid /\ lease'.epoch = lease.epoch /\ lease'.pred = lease.pred
      BY <2>2, <2>4
    <3> QED BY <1>b, <2>0, <2>4, <3>1, <3>2, ApartRecords
  <2> QED BY <1>a, <2>0, <2>1, <2>3, <2>4, ApartRecords
<1> QED
  BY <1>1, <1>2, <1>3, <1>4, <1>5, <1>6, <1>7, <1>8, <1>9, <1>10, <1>11, <1>12, <1>13 DEF ControllerStep

\* At the start there is no Lease and no thread holds a copy.
LEMMA MirrorInit == Init => MirrorInv
<1> SUFFICES ASSUME Init PROVE MirrorInv
  OBVIOUS
<1>1. \A t \in Threads : Apart(th[t])
  BY ApartRecords DEF Init
<1>2. MirrorFollowsLease
  BY DEF Init, MirrorFollowsLease
<1> QED BY <1>1, <1>2, ApartCopied DEF MirrorInv

\* Every step keeps the invariant.
LEMMA MirrorNext == Inv0 /\ AuthorityInv /\ MirrorInv /\ [Next]_vars => MirrorInv'
<1> SUFFICES ASSUME Inv0, AuthorityInv, MirrorInv, [Next]_vars PROVE MirrorInv'
  OBVIOUS
<1>1. CASE \E c \in Controllers : ControllerStep(c) \/ Crash(c)
  BY <1>1, MirrorController
<1>2. ASSUME NEW t \in Readers, DrainRead(t) PROVE MirrorInv'
  <2> DEFINE n == [NoThread EXCEPT !.pc = "getLease", !.call = "drain"]
  <2>1. t \in Threads /\ Apart(n)
    BY DEF Apart, NoThread, Threads
  <2>2. Set(t, n) /\ UNCHANGED <<lease, granted, object>>
    BY <1>2 DEF DrainRead, authority
  <2> HIDE DEF n
  <2>3. Copied(n) /\ MirrorFollowsLease'
    BY <2>1, <2>2, ApartCopied DEF MirrorInv, MirrorFollowsLease
  <2> QED BY <2>1, <2>2, <2>3, MirrorFrame
<1>3. CASE \E t \in Threads : SyncStep(t)
  BY <1>3, MirrorSync
<1>e. ASSUME UNCHANGED <<object, th>>, MirrorFollowsLease' PROVE MirrorInv'
  BY <1>e DEF MirrorInv, Copied
<1>f. ASSUME UNCHANGED <<lease, granted, object>> PROVE MirrorFollowsLease'
  BY <1>f DEF MirrorInv, MirrorFollowsLease
<1>4. CASE Expire
  BY <1>4, <1>e, <1>f DEF Expire, authority
<1>5. CASE BackUpLease
  BY <1>5, <1>e, <1>f DEF BackUpLease
<1>6. CASE LoseLease
  BY <1>6, <1>e DEF LoseLease, MirrorFollowsLease
<1>7. CASE RestoreLease
  <2>1. /\ lease = None /\ backup # None /\ backup \in LeaseRec
        /\ lease' = [backup EXCEPT !.rv = leaseRV + 1, !.uid = restores]
        /\ UNCHANGED <<object, th>>
    BY <1>7 DEF RestoreLease, Inv0, TypeOK
  <2>2. lease'.uid = restores /\ restores \in Nat
    <3>1. lease'.uid = restores
      BY <2>1 DEF LeaseRec
    <3>2. restores \in Nat
      BY SMTT(60), BoundAssumption DEF Inv0, TypeOK
    <3> QED BY <3>1, <3>2
  <2>3. object # None => object.bound # restores
    <3> SUFFICES ASSUME object # None PROVE object.bound # restores
      OBVIOUS
    <3>1. object.bound # None => object.bound \in Nat /\ object.bound < restores
      BY <2>1 DEF AuthorityInv, Authority, Inv0, TypeOK, ObjectRec
    <3>2. object.bound # None => object.bound # restores
      BY SMTT(60), <2>2, <3>1
    <3>3. object.bound = None => object.bound # restores
      BY <2>2, NoneAssumption
    <3> QED BY <3>2, <3>3
  <2>4. MirrorFollowsLease'
    BY <2>1, <2>2, <2>3 DEF MirrorFollowsLease
  <2> QED BY <1>e, <2>1, <2>4
<1>8. CASE UNCHANGED vars
  BY <1>8, <1>e, <1>f DEF vars
<1> QED BY <1>1, <1>2, <1>3, <1>4, <1>5, <1>6, <1>7, <1>8 DEF Next

\* A mirror bound to the Lease shows the Lease's epoch and holder, or those of the
\* predecessor the Lease names: syncControllerEpochStatus never leaves it behind by
\* more than one epoch nor moves it back, whatever the other threads do meanwhile.
THEOREM MirrorFollows == Spec => []MirrorFollowsLease
<1>1. MirrorInv => MirrorFollowsLease
  BY DEF MirrorInv
<1> QED
  BY <1>1, TypeInit, TypeNext, AuthorityInit, AuthorityNext, MirrorInit, MirrorNext, PTL DEF Spec

----------------------------------------------------------------------------
(* The mutation interlock and the fenced record: while a mutation's lock is unexpired the
   Lease is the one it locked, the epoch does not advance past it, and a record is never
   overwritten under an earlier epoch. *)

\* What the position of controller c says of the lock: the copy that a CAS or a
\* mutation is about to replace was unlocked, a mutation's copy is of its own
\* epoch, and the Lease is the locked copy until the lock expires.
Locking(c, l) ==
    /\ l.pc \in {"casUpdate", "mutUpdate"} => ~controllerEpochMutationLock(l.snap)
    /\ l.pc \in {"mutObject", "mutUpdate", "mutWrite"} =>
          EpochOf(l.snap) = [epoch |-> fence[c], holder |-> c]
    /\ l.pc \in {"mutWrite", "mutRelease"} => l.tok = <<c, count[c]>>
    /\ l.pc = "mutWrite" =>
          /\ l.snap.token = l.tok
          /\ l.tok \notin expired /\ lease # None /\ lease.uid = l.snap.uid => lease = l.snap

\* The record has no later epoch than the mutation's fence if it still has the
\* version the mutation expects.
Current(c, l) == target.rv = l.exp => target.epoch <= fence[c]

\* That holds once the fence was checked against a mirror bound to the Lease.
Writing(c, l) ==
    /\ l.pc \in {"mutLease", "mutObject", "mutUpdate", "mutWrite"} => l.exp <= target.rv
    /\ l.pc = "mutObject" /\ object # None /\ object.bound \in {None, l.snap.uid} => Current(c, l)
    /\ l.pc \in {"mutUpdate", "mutWrite"} => Current(c, l)

InterlockInv ==
    /\ target.epoch = 0 \/ \E g \in granted : g.epoch = target.epoch
    /\ \A c \in Controllers : Locking(c, th[c]) /\ Writing(c, th[c])

\* Positions outside a mutation and a CAS.
Outside(r) == r.pc \notin MutPCs \cup {"casUpdate"}

\* After an error, between calls and after Start's decision a thread is outside both.
LEMMA OutsideRecords ==
    /\ Outside(NoThread) /\ Outside(Idle) /\ Outside(Dead) /\ Outside(Crashed)
    /\ \A t, k : Outside(Failed(t, k))
    /\ \A c, seen : Outside(Observe(c, seen))
<1>1. Outside(NoThread) /\ Outside(Idle) /\ Outside(Dead) /\ Outside(Crashed)
  BY DEF Outside, NoThread, Idle, Dead, Crashed, MutPCs
<1>2. ASSUME NEW t, NEW k PROVE Outside(Failed(t, k))
  BY DEF Outside, Failed, NoThread, Idle, Dead, MutPCs
<1>3. ASSUME NEW c, NEW seen PROVE Outside(Observe(c, seen))
  BY DEF Outside, Observe, NoThread, Idle, Dead, MutPCs
<1> QED BY <1>1, <1>2, <1>3

\* Nothing is asked of such a thread.
LEMMA OutsideSafe == ASSUME NEW c, NEW r, Outside(r) PROVE Locking(c, r) /\ Writing(c, r)
BY DEF Outside, Locking, Writing, MutPCs

\* What a step may do to the mirror's binding: bind an unbound mirror, or create
\* the mirror before anything is granted.
BindingKept ==
    \/ granted = {}
    \/ object # None /\ (object.bound = None \/ (object' # None /\ object'.bound = object.bound))

\* A step of one thread that leaves Lease, clock, counters and record alone.
LEMMA InterlockFrame ==
    ASSUME Inv0, AuthorityInv, InterlockInv, NEW t \in Threads, NEW r, Set(t, r),
           t \in Controllers => Locking(t, r)' /\ Writing(t, r)',
           UNCHANGED <<lease, expired, target, granted>>, BindingKept,
           \A c \in Controllers : c # t => fence'[c] = fence[c] /\ count'[c] = count[c]
    PROVE  InterlockInv'
<1>1. \A u \in Threads : th'[u] = IF u = t THEN r ELSE th[u]
  BY DEF Inv0, TypeOK, Set
<1>2. ASSUME NEW c \in Controllers PROVE Locking(c, th[c])' /\ Writing(c, th[c])'
  <2>1. CASE c = t
    BY <1>1, <1>2, <2>1 DEF Threads
  <2>2. CASE c # t
    <3>1. th'[c] = th[c] /\ fence'[c] = fence[c] /\ count'[c] = count[c] /\ Locking(c, th[c]) /\ Writing(c, th[c]) /\ Knows(th[c])
      BY <1>1, <1>2, <2>2 DEF Threads, InterlockInv, AuthorityInv
    <3>2. Locking(c, th[c])'
      BY <3>1 DEF Locking, controllerEpochMutationLock
    <3>3. th[c].pc = "mutObject" => granted # {}
      BY <3>1, <1>2 DEF Knows, Inv0, Shapes, Shape, Fetched, Threads
    <3>4. Writing(c, th[c])'
      BY <3>1, <3>3 DEF Writing, Current, BindingKept
    <3> QED BY <3>2, <3>4
  <2> QED BY <2>1, <2>2
<1> QED BY <1>2 DEF InterlockInv

\* Reading the epoch and synchronizing the mirror stay outside mutations and CAS
\* and keep the mirror's binding.
LEMMA SyncOutside ==
    ASSUME Inv0, AuthorityInv, NEW t \in Threads, SyncStep(t)
    PROVE  /\ \E r : Set(t, r) /\ Outside(r)
           /\ UNCHANGED <<lease, expired, target, granted, count>>
           /\ BindingKept
           /\ \A c \in Controllers : c # t => fence'[c] = fence[c]
<1> DEFINE l == th[t]
<1>0. /\ l \in ThreadRec /\ Shape(t, l) /\ fence \in [Controllers -> Nat] /\ object \in ObjectRec \cup {None}
      /\ l.obj # None => object # None
      /\ Knows(l) /\ (object = None => granted = {})
  BY DEF Inv0, Shapes, Shape, TypeOK, AuthorityInv, Authority
<1>a. SyncDone(t) => /\ \E r : Set(t, r) /\ Outside(r)
                     /\ \A c \in Controllers : c # t => fence'[c] = fence[c]
  <2> SUFFICES ASSUME SyncDone(t)
               PROVE  /\ \E r : Set(t, r) /\ Outside(r)
                      /\ \A c \in Controllers : c # t => fence'[c] = fence[c]
    OBVIOUS
  <2> DEFINE check == [l EXCEPT !.pc = "casCheck", !.obj = None, !.dec = None]
  <2>1. Outside(check)
    BY <1>0 DEF Outside, MutPCs, ThreadRec
  <2>2. Set(t, Idle) \/ Set(t, check) \/ Set(t, Observe(t, EpochOf(l.snap)))
    BY DEF SyncDone
  <2>3. \A c \in Controllers : c # t => fence'[c] = fence[c]
    BY <1>0 DEF SyncDone
  <2> HIDE DEF check
  <2> QED BY <2>1, <2>2, <2>3, OutsideRecords
<1>b. object' = object => BindingKept
  BY <1>0 DEF BindingKept
<1>c. ASSUME SyncConflict(t), l.obj # None
      PROVE  (\E r : Set(t, r) /\ Outside(r)) /\ object' = object /\ fence' = fence
  <2> DEFINE again == [l EXCEPT !.pc = "syncLease", !.obj = None, !.dec = None]
  <2>1. Outside(again)
    BY <1>0 DEF Outside, MutPCs, ThreadRec
  <2>2. Set(t, again) \/ Set(t, Failed(t, "fatal"))
    BY <1>c DEF SyncConflict
  <2> HIDE DEF again
  <2> QED BY <1>c, <2>1, <2>2, OutsideRecords DEF SyncConflict
<1>1. CASE GetLease(t)
  <2> DEFINE sync == [l EXCEPT !.pc = "syncLease", !.snap = lease]
  <2>1. Outside(sync)
    BY <1>0 DEF Outside, MutPCs, ThreadRec
  <2>2. Set(t, sync) \/ Set(t, Idle) \/ Set(t, Observe(t, None))
    BY <1>1 DEF GetLease
  <2> HIDE DEF sync
  <2> QED BY <1>1, <1>b, <2>1, <2>2, OutsideRecords DEF GetLease, authority
<1>2. CASE SyncLease(t)
  <2> DEFINE again == [NoThread EXCEPT !.pc = "getLease", !.call = l.call, !.pre = l.pre]
             step == [l EXCEPT !.pc = IF l.pc = "syncLease" THEN "syncObject" ELSE "syncMeta"]
  <2>1. Outside(again) /\ Outside(step)
    BY <1>0 DEF Outside, MutPCs, ThreadRec, NoThread
  <2>2. \/ Set(t, Observe(t, None)) \/ Set(t, Failed(t, "fatal")) \/ Set(t, Failed(t, "conflict"))
        \/ Set(t, again) \/ Set(t, step)
    BY <1>2 DEF SyncLease
  <2> HIDE DEF again, step
  <2> QED BY <1>2, <1>b, <2>1, <2>2, OutsideRecords DEF SyncLease, authority
<1>3. CASE SyncObject(t)
  <2> DEFINE d == validateControllerEpochStatusSyncState(object, l.snap)
             step == [l EXCEPT !.pc = IF d.write THEN "syncStatus" ELSE "syncRevalidate",
                               !.obj = object, !.dec = d]
  <2>1. Outside(step)
    BY <1>0 DEF Outside, MutPCs, ThreadRec
  <2>2. \/ fence' = fence /\ (Set(t, Failed(t, "fatal")) \/ Set(t, Failed(t, d.err)) \/ Set(t, step))
        \/ SyncDone(t)
    BY <1>3 DEF SyncObject
  <2> HIDE DEF d, step
  <2> QED BY <1>3, <1>a, <1>b, <2>1, <2>2, OutsideRecords DEF SyncObject, authority
<1>4. CASE SyncStatus(t)
  <2>0. l.obj # None /\ object # None
    BY <1>0, <1>4 DEF SyncStatus, At, Shape
  <2> DEFINE new == [object EXCEPT !.rv = @ + 1,
                 !.status = [epoch |-> l.snap.epoch, holder |-> l.snap.holder, lrv |-> l.snap.rv]]
             step == [l EXCEPT !.pc = "syncRevalidate", !.obj = new]
  <2>1. Outside(step)
    BY <1>0 DEF Outside, MutPCs, ThreadRec
  <2>2. SyncConflict(t) \/ (object' = new /\ ((fence' = fence /\ Set(t, step)) \/ SyncDone(t)))
    BY <1>4 DEF SyncStatus
  <2>3. new \in ObjectRec /\ new.bound = object.bound
    <3>1. object \in ObjectRec /\ object.rv + 1 \in Nat /\ l.snap \in LeaseRec
      BY SMTT(60), <1>0, <1>4, <2>0 DEF ObjectRec, SyncStatus, At, Shape, ThreadRec, Fetched, SyncPCs
    <3> QED BY <3>1 DEF ObjectRec, LeaseRec, StatusRec
  <2> HIDE DEF new, step
  <2>4. object' = new => BindingKept
    BY <2>0, <2>3, NoneAssumption DEF BindingKept
  <2> QED BY <1>4, <1>a, <1>b, <1>c, <2>0, <2>1, <2>2, <2>4, OutsideRecords DEF SyncStatus, authority
<1>5. CASE SyncMeta(t)
  <2>0. l.obj # None /\ object # None /\ l.dec # None
    BY <1>0, <1>5 DEF SyncMeta, At, Shape
  <2> DEFINE new == [object EXCEPT !.rv = @ + 1,
                      !.bound = IF l.dec.bind THEN l.snap.uid ELSE @,
                      !.marker = IF l.dec.clear THEN None ELSE @]
  <2>1. new \in ObjectRec /\ new.bound = IF l.dec.bind THEN l.snap.uid ELSE object.bound
    <3>1. object \in ObjectRec /\ object.rv + 1 \in Nat /\ l.snap \in LeaseRec
      BY SMTT(60), <1>0, <1>5, <2>0 DEF ObjectRec, SyncMeta, At, Shape, ThreadRec, Fetched, SyncPCs
    <3> QED BY <3>1 DEF ObjectRec, LeaseRec
  <2>2. SyncConflict(t) \/ (object.rv = l.obj.rv /\ object' = new /\ SyncDone(t))
    BY <1>5 DEF SyncMeta
  <2> HIDE DEF new
  <2>3. object.rv = l.obj.rv /\ object' = new => BindingKept
    BY <1>0, <2>0, <2>1, NoneAssumption DEF BindingKept, Knows
  <2> QED BY <1>5, <1>a, <1>b, <1>c, <2>0, <2>2, <2>3 DEF SyncMeta, authority
<1> QED BY <1>1, <1>2, <1>3, <1>4, <1>5 DEF SyncStep

\* A write of the Lease by controller c: the copy it replaces was absent, unlocked
\* or locked by c itself.
LEMMA InterlockLease ==
    ASSUME Inv0, AuthorityInv, InterlockInv, NEW c \in Controllers, NEW r, Set(c, r),
           Locking(c, r)', Writing(c, r)',
           UNCHANGED <<object, expired, fence, count, target>>, granted \subseteq granted',
           lease # None => \/ ~controllerEpochMutationLock(lease)
                           \/ lease.token = <<c, count[c]>>,
           lease # None => lease'.uid = lease.uid, lease = None => lease'.uid = restores
    PROVE  InterlockInv'
<1>1. \A u \in Threads : th'[u] = IF u = c THEN r ELSE th[u]
  BY DEF Inv0, TypeOK, Set
<1>2. ASSUME NEW d \in Controllers PROVE Locking(d, th[d])' /\ Writing(d, th[d])'
  <2>1. CASE d = c
    BY <1>1, <1>2, <2>1 DEF Threads
  <2>2. CASE d # c
    <3>1. th'[d] = th[d] /\ Locking(d, th[d]) /\ Writing(d, th[d]) /\ Knows(th[d]) /\ Shape(d, th[d])
      BY <1>1, <1>2, <2>2 DEF Threads, InterlockInv, AuthorityInv, Inv0, Shapes
    <3>2. Writing(d, th[d])'
      BY <3>1 DEF Writing, Current
    <3>3. th[d].pc = "mutWrite" /\ th[d].tok \notin expired => lease'.uid # th[d].snap.uid
      <4> SUFFICES ASSUME th[d].pc = "mutWrite", th[d].tok \notin expired, lease'.uid = th[d].snap.uid
                   PROVE  FALSE
        OBVIOUS
      <4>1. th[d].tok = <<d, count[d]>> /\ th[d].snap.token = th[d].tok /\ th[d].tok # None
        <5>1. <<d, count[d]>> \in Tokens
          BY <1>2 DEF Inv0, TypeOK, Tokens
        <5> QED BY <3>1, <5>1, NoneAssumption DEF Locking
      <4>2. CASE lease = None
        <5>1. th[d].snap # None /\ th[d].snap \in LeaseRec
          BY <3>1 DEF Shape, Fetched, ThreadRec
        <5> QED BY SMTT(60), <3>1, <4>2, <5>1 DEF Knows, Inv0, TypeOK, LeaseRec
      <4>3. CASE lease # None
        <5>1. lease = th[d].snap
          BY <3>1, <4>3 DEF Locking
        <5> QED BY SMTT(60), <2>2, <4>1, <4>3, <5>1 DEF controllerEpochMutationLock
      <4> QED BY <4>2, <4>3
    <3>4. Locking(d, th[d])'
      BY <3>1, <3>3 DEF Locking, controllerEpochMutationLock
    <3> QED BY <3>2, <3>4
  <2> QED BY <2>1, <2>2
<1> QED BY <1>2 DEF InterlockInv

\* Every controller step keeps the invariant.
LEMMA InterlockController ==
    ASSUME Inv0, AuthorityInv, InterlockInv, NEW c \in Controllers, ControllerStep(c)
    PROVE  InterlockInv'
<1> DEFINE l == th[c]
           same == UNCHANGED <<lease, expired, target, granted>>
           others == \A d \in Controllers : d # c => fence'[d] = fence[d] /\ count'[d] = count[d]
<1>0. /\ c \in Threads /\ l \in ThreadRec /\ Shape(c, l) /\ Knows(l) /\ Locking(c, l) /\ Writing(c, l)
      /\ object \in ObjectRec \cup {None} /\ lease \in LeaseRec \cup {None}
      /\ fence \in [Controllers -> Nat] /\ count \in [Controllers -> 0..MaxMutations]
      /\ object = None => granted = {}
      /\ target \in [rv : Nat, epoch : Nat] /\ leaseRV \in Nat
      /\ lease # None => lease.uid = restores
  BY DEF Inv0, Shapes, Shape, TypeOK, AuthorityInv, Authority, Threads, InterlockInv
<1>a. ASSUME NEW r, Set(c, r), Outside(r), same, others, BindingKept PROVE InterlockInv'
  <2>1. Locking(c, r)' /\ Writing(c, r)'
    BY <1>a DEF Outside, Locking, Writing, MutPCs
  <2> QED BY <1>0, <1>a, <2>1, InterlockFrame
<1>b. object' = object => BindingKept
  BY <1>0 DEF BindingKept
<1>1. CASE Start(c)
  <2> DEFINE r == [NoThread EXCEPT !.pc = "getLease", !.call = "start"]
  <2>1. Outside(r)
    BY DEF Outside, MutPCs, NoThread
  <2>2. Set(c, r) /\ same /\ others /\ object' = object
    BY <1>1 DEF Start, authority
  <2> HIDE DEF r
  <2> QED BY <1>a, <1>b, <2>1, <2>2
<1>2. CASE CasLease(c)
  <2> DEFINE r1 == [l EXCEPT !.pc = "syncLease", !.call = "pre", !.snap = lease]
             r2 == [l EXCEPT !.pc = "casCreateObject"]
  <2>1. Outside(r1) /\ Outside(r2)
    BY <1>0 DEF Outside, MutPCs, ThreadRec
  <2>2. /\ Set(c, r1) \/ Set(c, r2) \/ Set(c, Failed(c, "conflict"))
        /\ same /\ others /\ object' = object
    BY <1>2 DEF CasLease, authority
  <2> HIDE DEF r1, r2
  <2> QED BY <1>a, <1>b, <2>1, <2>2, OutsideRecords
<1>3. CASE CasCreateObject(c)
  <2> DEFINE r == [l EXCEPT !.pc = "casCreateLease"]
  <2>1. Outside(r)
    BY <1>0 DEF Outside, MutPCs, ThreadRec
  <2>2. /\ Set(c, r) \/ Set(c, Dead)
        /\ same /\ others /\ (object = None \/ object' = object)
    BY <1>3 DEF CasCreateObject, authority
  <2>3. BindingKept
    BY <1>0, <1>b, <2>2 DEF BindingKept
  <2> HIDE DEF r
  <2> QED BY <1>a, <2>1, <2>2, <2>3, OutsideRecords
<1>4. CASE CasCreateLease(c)
  <2> DEFINE new == [rv |-> leaseRV + 1, uid |-> restores, epoch |-> 1, holder |-> c,
                     pred |-> None, token |-> None]
             r1 == [l EXCEPT !.pc = "syncLease", !.call = "post", !.snap = new]
             r2 == [l EXCEPT !.pc = "casLease"]
  <2>1. Outside(r1) /\ Outside(r2)
    BY <1>0 DEF Outside, MutPCs, ThreadRec
  <2>2. \/ lease = None /\ lease' = new /\ granted \subseteq granted' /\ Set(c, r1)
        \/ Set(c, r2) /\ same
    BY <1>4 DEF CasCreateLease
  <2>3. UNCHANGED <<object, expired, fence, count, target>>
    BY <1>4 DEF CasCreateLease
  <2>4. CASE lease = None /\ lease' = new /\ granted \subseteq granted' /\ Set(c, r1)
    <3>1. lease'.uid = restores
      BY <2>4
    <3>2. PICK r : r = r1
      OBVIOUS
    <3>3. Locking(c, r)' /\ Writing(c, r)'
      BY <2>1, <3>2 DEF Outside, Locking, Writing, MutPCs
    <3> QED BY <2>3, <2>4, <3>1, <3>2, <3>3, InterlockLease
  <2> QED BY <1>a, <1>b, <2>1, <2>2, <2>3, <2>4
<1>5. CASE CasCheck(c)
  <2> DEFINE go == [l EXCEPT !.pc = "casUpdate", !.obj = object]
  <2>0. same /\ object' = object /\ count' = count /\ others
    BY <1>0, <1>5 DEF CasCheck, authority
  <2>1. \/ Set(c, Idle) \/ (\E k : Set(c, Failed(c, k))) \/ Set(c, Dead)
        \/ Set(c, go) /\ ~controllerEpochMutationLock(l.snap)
    BY <1>5 DEF CasCheck
  <2>2. go.pc = "casUpdate" /\ go.snap = l.snap
    BY <1>0 DEF ThreadRec
  <2> HIDE DEF go
  <2>3. CASE Set(c, go) /\ ~controllerEpochMutationLock(l.snap)
    <3>1. PICK r : r = go
      OBVIOUS
    <3>2. Locking(c, r)' /\ Writing(c, r)'
      BY <2>0, <2>2, <2>3, <3>1 DEF Locking, Writing, controllerEpochMutationLock
    <3> QED BY <1>0, <1>b, <2>0, <2>3, <3>1, <3>2, InterlockFrame
  <2> QED BY <1>a, <1>b, <2>0, <2>1, <2>3, OutsideRecords
<1>6. CASE CasUpdate(c)
  <2> DEFINE new == [rv |-> leaseRV + 1, uid |-> l.snap.uid, epoch |-> l.snap.epoch + 1, holder |-> c,
                     pred |-> controllerEpochMirrorDigest(l.obj), token |-> None]
             r1 == [l EXCEPT !.pc = "syncLease", !.call = "post", !.snap = new, !.obj = None]
  <2>1. Outside(r1)
    BY <1>0 DEF Outside, MutPCs, ThreadRec
  <2>2. \/ lease = l.snap /\ lease' = new /\ granted \subseteq granted' /\ Set(c, r1)
        \/ (\E k : Set(c, Failed(c, k))) /\ lease' = lease /\ granted' = granted
    BY <1>6 DEF CasUpdate
  <2>3. UNCHANGED <<object, expired, fence, count, target>>
    BY <1>6 DEF CasUpdate
  <2>4. l.snap # None /\ ~controllerEpochMutationLock(l.snap)
    BY <1>0, <1>6 DEF CasUpdate, At, Locking, Shape, Fetched
  <2>5. CASE lease = l.snap /\ lease' = new /\ granted \subseteq granted' /\ Set(c, r1)
    <3>1. lease'.uid = lease.uid
      BY <2>5
    <3>2. PICK r : r = r1
      OBVIOUS
    <3>3. Locking(c, r)' /\ Writing(c, r)'
      BY <2>1, <3>2 DEF Outside, Locking, Writing, MutPCs
    <3> HIDE DEF new, r1, l
    <3> QED BY <2>3, <2>4, <2>5, <3>1, <3>2, <3>3, InterlockLease
  <2> QED BY <1>a, <1>b, <2>2, <2>3, <2>5, OutsideRecords
<1>7. CASE BeginMutation(c)
  <2> DEFINE r1 == [NoThread EXCEPT !.pc = "mutLease", !.exp = target.rv]
  <2>1. r1.pc = "mutLease" /\ r1.exp = target.rv
    BY DEF NoThread
  <2>2. Set(c, r1) /\ same /\ object' = object /\ others
    BY <1>0, <1>7 DEF BeginMutation, authority
  <2> HIDE DEF r1
  <2>3. PICK r : r = r1
    OBVIOUS
  <2>4. Locking(c, r)' /\ Writing(c, r)'
    BY SMTT(60), <1>0, <2>1, <2>2, <2>3 DEF Locking, Writing
  <2> QED BY <1>0, <1>b, <2>2, <2>3, <2>4, InterlockFrame
<1>8. CASE MutLease(c)
  <2> DEFINE r1 == [l EXCEPT !.pc = "mutObject", !.snap = lease]
  <2>0. same /\ UNCHANGED <<object, fence, count>>
    BY <1>8 DEF MutLease, authority
  <2>1. \/ Set(c, r1) /\ lease # None /\ EpochOf(lease) = [epoch |-> fence[c], holder |-> c]
        \/ Set(c, Idle)
    BY <1>8 DEF MutLease
  <2>2. r1.pc = "mutObject" /\ r1.snap = lease /\ r1.exp = l.exp /\ l.exp <= target.rv
    BY <1>0, <1>8 DEF ThreadRec, Writing, MutLease, At
  <2> HIDE DEF r1
  <2>3. CASE Set(c, r1) /\ lease # None /\ EpochOf(lease) = [epoch |-> fence[c], holder |-> c]
    <3>1. lease.epoch = fence[c] /\ lease.epoch \in Nat \ {0} /\ target.epoch \in Nat
      BY SMTT(60), <1>0, <2>3, BoundAssumption DEF EpochOf, LeaseRec, Epochs
    <3>2. object # None /\ object.bound \in {None, lease.uid} => \A g \in granted : g.epoch <= lease.epoch
      <4>1. CASE object # None /\ object.bound = None
        BY SMTT(60), <3>1, <4>1 DEF AuthorityInv, Authority
      <4>2. CASE object # None /\ object.bound = lease.uid /\ object.bound # None
        BY <2>3, <4>2 DEF AuthorityInv, Authority
      <4> QED BY <4>1, <4>2
    <3>3. object # None /\ object.bound \in {None, lease.uid} => target.epoch <= fence[c]
      BY SMTT(60), <3>1, <3>2 DEF InterlockInv
    <3>4. PICK r : r = r1
      OBVIOUS
    <3>5. Locking(c, r)' /\ Writing(c, r)'
      BY <2>0, <2>2, <2>3, <3>3, <3>4 DEF Locking, Writing, Current
    <3> QED BY <1>0, <1>b, <2>0, <2>3, <3>4, <3>5, InterlockFrame
  <2> QED BY <1>a, <1>b, <2>0, <2>1, <2>3, OutsideRecords
<1>9. CASE MutObject(c)
  <2> DEFINE r1 == [l EXCEPT !.pc = "mutUpdate"]
             r2 == [l EXCEPT !.pc = "mutLease", !.snap = None]
  <2>0. same /\ UNCHANGED <<object, fence, count>> /\ l.pc = "mutObject"
    BY <1>9 DEF MutObject, authority, At
  <2>1. \/ /\ Set(c, r1) /\ ~controllerEpochMutationLock(l.snap)
           /\ object # None /\ object.bound = l.snap.uid
        \/ Set(c, r2) \/ Set(c, Idle)
    BY <1>9 DEF MutObject, validateControllerEpochObjectLeaseUID
  <2>2. r1.pc = "mutUpdate" /\ r1.snap = l.snap /\ r1.exp = l.exp
    BY <1>0 DEF ThreadRec
  <2>3. r2.pc = "mutLease" /\ r2.exp = l.exp
    BY <1>0 DEF ThreadRec
  <2> HIDE DEF r1, r2
  <2>4. CASE /\ Set(c, r1) /\ ~controllerEpochMutationLock(l.snap)
             /\ object # None /\ object.bound = l.snap.uid
    <3>1. PICK r : r = r1
      OBVIOUS
    <3>2. /\ r.pc = "mutUpdate" /\ r.snap = l.snap /\ r.exp = l.exp /\ l.exp <= target.rv
          /\ EpochOf(l.snap) = [epoch |-> fence[c], holder |-> c]
      BY <1>0, <2>0, <2>2, <3>1 DEF Locking, Writing
    <3>3. Current(c, l)
      BY <1>0, <2>0, <2>4 DEF Writing
    <3>4. Locking(c, r)'
      BY <2>0, <2>4, <3>2 DEF Locking, controllerEpochMutationLock
    <3>5. Writing(c, r)'
      BY <2>0, <3>2, <3>3 DEF Writing, Current
    <3> QED BY <1>0, <1>b, <2>0, <2>4, <3>1, <3>4, <3>5, InterlockFrame
  <2>5. CASE Set(c, r2)
    <3>1. PICK r : r = r2
      OBVIOUS
    <3>2. r.pc = "mutLease" /\ r.exp = l.exp /\ l.exp <= target.rv
      BY <1>0, <2>0, <2>3, <3>1 DEF Writing
    <3>3. Locking(c, r)'
      BY <3>2 DEF Locking
    <3>4. Writing(c, r)'
      BY <2>0, <3>2 DEF Writing
    <3> QED BY <1>0, <1>b, <2>0, <2>5, <3>1, <3>3, <3>4, InterlockFrame
  <2> QED BY <1>a, <1>b, <2>0, <2>1, <2>4, <2>5, OutsideRecords
<1>10. CASE MutUpdate(c)
  <2> DEFINE new == [l.snap EXCEPT !.rv = leaseRV + 1, !.token = <<c, count[c]>>]
             r1 == [l EXCEPT !.pc = "mutWrite", !.snap = new, !.tok = new.token]
             r2 == [l EXCEPT !.pc = "mutLease", !.snap = None]
  <2>0. /\ UNCHANGED <<object, expired, fence, count, target, granted>>
        /\ l.pc = "mutUpdate" /\ l.snap \in LeaseRec /\ l.snap # None
        /\ ~controllerEpochMutationLock(l.snap)
    BY <1>0, <1>10 DEF MutUpdate, At, Shape, Fetched, ThreadRec, Locking
  <2>1. \/ lease = l.snap /\ lease' = new /\ Set(c, r1)
        \/ (Set(c, r2) \/ Set(c, Idle)) /\ lease' = lease
    BY <1>10 DEF MutUpdate
  <2>2. new.token = <<c, count[c]>> /\ EpochOf(new) = EpochOf(l.snap) /\ new.uid = l.snap.uid
    BY <2>0 DEF LeaseRec, EpochOf
  <2> HIDE DEF new
  <2>3. r1.pc = "mutWrite" /\ r1.snap = new /\ r1.tok = new.token /\ r1.exp = l.exp
    BY <1>0 DEF ThreadRec
  <2>4. r2.pc = "mutLease" /\ r2.exp = l.exp
    BY <1>0 DEF ThreadRec
  <2> HIDE DEF r1, r2
  <2>5. CASE lease = l.snap /\ lease' = new /\ Set(c, r1)
    <3>1. PICK r : r = r1
      OBVIOUS
    <3>2. r.pc = "mutWrite" /\ r.snap = new /\ r.tok = <<c, count[c]>> /\ r.exp = l.exp
      BY <2>2, <2>3, <3>1
    <3>3. /\ EpochOf(new) = [epoch |-> fence[c], holder |-> c] /\ l.exp <= target.rv
          /\ Current(c, l)
      BY <1>0, <2>0, <2>2 DEF Locking, Writing
    <3>4. Locking(c, r)'
      BY <2>0, <2>2, <2>5, <3>2, <3>3 DEF Locking
    <3>5. Writing(c, r)'
      BY <2>0, <3>2, <3>3 DEF Writing, Current
    <3> HIDE DEF l
    <3> QED BY <2>0, <2>2, <2>5, <3>1, <3>4, <3>5, InterlockLease
  <2>6. CASE Set(c, r2) /\ lease' = lease
    <3>1. PICK r : r = r2
      OBVIOUS
    <3>2. r.pc = "mutLease" /\ r.exp = l.exp /\ l.exp <= target.rv
      BY <1>0, <2>0, <2>4, <3>1 DEF Writing
    <3>3. Locking(c, r)'
      BY <3>2 DEF Locking
    <3>4. Writing(c, r)'
      BY <2>0, <3>2 DEF Writing
    <3> QED BY <1>0, <1>b, <2>0, <2>6, <3>1, <3>3, <3>4, InterlockFrame
  <2> QED BY <1>a, <1>b, <2>0, <2>1, <2>5, <2>6, OutsideRecords
<1>11. CASE MutWrite(c)
  <2> DEFINE r1 == [l EXCEPT !.pc = "mutRelease"]
  <2>0. /\ UNCHANGED <<lease, object, expired, fence, count, granted>> /\ l.pc = "mutWrite"
        /\ l.snap # None /\ EpochOf(l.snap) \in granted
        /\ EpochOf(l.snap) = [epoch |-> fence[c], holder |-> c]
    BY <1>0, <1>11 DEF MutWrite, authority, At, Shape, Fetched, Knows, Locking
  <2>1. /\ Set(c, r1)
        /\ target' = IF target.rv = l.exp THEN [rv |-> target.rv + 1, epoch |-> fence[c]] ELSE target
    BY <1>11 DEF MutWrite
  <2>2. r1.pc = "mutRelease" /\ r1.tok = l.tok
    BY <1>0 DEF ThreadRec
  <2> HIDE DEF r1
  <2>3. target' = target \/ (target'.rv = target.rv + 1 /\ target'.epoch = fence[c])
    BY <2>1
  <2>4. target'.epoch = 0 \/ \E g \in granted' : g.epoch = target'.epoch
    BY SMTT(60), <2>0, <2>3 DEF InterlockInv
  <2>5. \A u \in Threads : th'[u] = IF u = c THEN r1 ELSE th[u]
    BY <2>1 DEF Inv0, TypeOK, Set
  <2>6. ASSUME NEW d \in Controllers PROVE Locking(d, th[d])' /\ Writing(d, th[d])'
    <3>1. CASE d = c
      BY <1>0, <2>0, <2>2, <2>5, <2>6, <3>1 DEF Locking, Writing
    <3>2. CASE d # c
      <4>1. th'[d] = th[d] /\ Locking(d, th[d]) /\ Writing(d, th[d]) /\ th[d].exp \in Nat
        BY <2>5, <2>6, <3>2 DEF Threads, InterlockInv, Inv0, TypeOK, ThreadRec
      <4>2. Locking(d, th[d])'
        BY <2>0, <4>1 DEF Locking, controllerEpochMutationLock
      <4>3. Writing(d, th[d])'
        BY SMTT(60), <1>0, <2>0, <2>3, <4>1 DEF Writing, Current
      <4> QED BY <4>2, <4>3
    <3> QED BY <3>1, <3>2
  <2> QED BY <2>4, <2>6 DEF InterlockInv
<1>12. CASE MutRelease(c)
  <2> DEFINE new == [l.snap EXCEPT !.rv = leaseRV + 1, !.token = None]
             r1 == [l EXCEPT !.snap = lease]
  <2>0. /\ UNCHANGED <<object, expired, fence, count, target, granted>>
        /\ l.pc = "mutRelease" /\ l.snap \in LeaseRec /\ l.snap # None /\ l.tok = <<c, count[c]>>
    BY <1>0, <1>12 DEF MutRelease, At, Shape, Fetched, ThreadRec, Locking
  <2>1. \/ l.snap.token = l.tok /\ lease = l.snap /\ lease' = new /\ Set(c, Idle)
        \/ (Set(c, r1) \/ Set(c, Idle)) /\ lease' = lease
    BY <1>12 DEF MutRelease
  <2>2. r1.pc = l.pc /\ r1.tok = l.tok /\ new.uid = l.snap.uid
    BY <1>0, <2>0 DEF ThreadRec, LeaseRec
  <2> HIDE DEF r1, new
  <2>3. CASE l.snap.token = l.tok /\ lease = l.snap /\ lease' = new /\ Set(c, Idle)
    <3>1. PICK r : r = Idle
      OBVIOUS
    <3>2. Locking(c, r)' /\ Writing(c, r)'
      BY <3>1 DEF Idle, NoThread, Locking, Writing
    <3> HIDE DEF l
    <3> QED BY <2>0, <2>2, <2>3, <3>1, <3>2, InterlockLease
  <2>4. CASE Set(c, r1) /\ lease' = lease
    <3>1. PICK r : r = r1
      OBVIOUS
    <3>2. Locking(c, r)' /\ Writing(c, r)'
      BY <2>0, <2>2, <3>1 DEF Locking, Writing
    <3> QED BY <1>0, <1>b, <2>0, <2>4, <3>1, <3>2, InterlockFrame
  <2> QED BY <1>a, <1>b, <2>0, <2>1, <2>3, <2>4, OutsideRecords
<1> QED BY <1>1, <1>2, <1>3, <1>4, <1>5, <1>6, <1>7, <1>8, <1>9, <1>10, <1>11, <1>12 DEF ControllerStep

\* The initial state satisfies the invariant.
LEMMA InterlockInit == Init => InterlockInv
<1> SUFFICES ASSUME Init PROVE InterlockInv
  OBVIOUS
<1>1. \A c \in Controllers : Outside(th[c])
  BY OutsideRecords DEF Init, Threads
<1> QED BY <1>1, OutsideSafe DEF Init, InterlockInv

\* Every step keeps the invariant.
LEMMA InterlockNext == Inv0 /\ AuthorityInv /\ InterlockInv /\ [Next]_vars => InterlockInv'
<1> SUFFICES ASSUME Inv0, AuthorityInv, InterlockInv, [Next]_vars PROVE InterlockInv'
  OBVIOUS
<1>0. object = None => granted = {}
  BY DEF AuthorityInv, Authority
<1>1. CASE \E c \in Controllers : ControllerStep(c)
  BY <1>1, InterlockController
<1>2. ASSUME NEW t \in Threads, NEW r, Set(t, r), Outside(r), BindingKept,
             UNCHANGED <<lease, expired, target, granted>>,
             \A c \in Controllers : c # t => fence'[c] = fence[c] /\ count'[c] = count[c]
      PROVE  InterlockInv'
  <2>1. Locking(t, r)' /\ Writing(t, r)'
    BY <1>2 DEF Outside, Locking, Writing, MutPCs
  <2> QED BY <1>2, <2>1, InterlockFrame
<1>3. ASSUME NEW c \in Controllers, Crash(c) PROVE InterlockInv'
  <2>1. BindingKept /\ c \in Threads
    BY <1>0, <1>3 DEF Crash, BindingKept, Threads
  <2> QED BY <1>2, <1>3, <2>1, OutsideRecords DEF Crash, authority
<1>4. ASSUME NEW t \in Readers, DrainRead(t) PROVE InterlockInv'
  <2> DEFINE n == [NoThread EXCEPT !.pc = "getLease", !.call = "drain"]
  <2>1. t \in Threads /\ Outside(n)
    BY DEF Outside, MutPCs, NoThread, Threads
  <2>2. /\ Set(t, n) /\ UNCHANGED <<lease, expired, target, granted>>
        /\ \A c \in Controllers : c # t => fence'[c] = fence[c] /\ count'[c] = count[c]
    BY <1>4 DEF DrainRead, authority
  <2>3. BindingKept
    BY <1>0, <1>4 DEF DrainRead, BindingKept
  <2> HIDE DEF n
  <2> QED BY <1>2, <2>1, <2>2, <2>3
<1>5. ASSUME NEW t \in Threads, SyncStep(t) PROVE InterlockInv'
  <2>1. PICK r : Set(t, r) /\ Outside(r)
    BY <1>5, SyncOutside
  <2> QED BY <1>2, <1>5, <2>1, SyncOutside
<1>6. ASSUME UNCHANGED <<th, fence, count, object, target, granted>>,
             expired \subseteq expired',
             \A c \in Controllers : th[c].pc = "mutWrite" =>
                lease' = lease \/ lease' = None \/ lease'.uid # th[c].snap.uid
      PROVE  InterlockInv'
  <2>1. ASSUME NEW c \in Controllers PROVE Locking(c, th[c])' /\ Writing(c, th[c])'
    <3>1. Locking(c, th[c]) /\ Writing(c, th[c])
      BY <2>1 DEF InterlockInv
    <3>2. Locking(c, th[c])'
      BY <1>6, <2>1, <3>1 DEF Locking, controllerEpochMutationLock
    <3>3. Writing(c, th[c])'
      BY <1>6, <3>1 DEF Writing, Current
    <3> QED BY <3>2, <3>3
  <2> QED BY <1>6, <2>1 DEF InterlockInv
<1>7. CASE Expire \/ BackUpLease \/ LoseLease
  BY <1>6, <1>7 DEF Expire, BackUpLease, LoseLease, authority
<1>8. CASE RestoreLease
  <2>1. lease = None /\ lease'.uid = restores /\ restores \in Nat
    BY SMTT(60), <1>8, BoundAssumption DEF RestoreLease, Inv0, TypeOK, LeaseRec
  <2>2. ASSUME NEW c \in Controllers, th[c].pc = "mutWrite" PROVE lease'.uid # th[c].snap.uid
    <3>1. Knows(th[c]) /\ th[c].snap # None /\ th[c].snap \in LeaseRec
      BY <2>2 DEF AuthorityInv, Inv0, Shapes, Shape, Fetched, ThreadRec, Threads
    <3> QED BY SMTT(60), <2>1, <3>1 DEF Knows, LeaseRec
  <2> QED BY <1>6, <1>8, <2>2 DEF RestoreLease
<1>9. CASE UNCHANGED vars
  BY <1>6, <1>9 DEF vars
<1> QED BY <1>1, <1>3, <1>4, <1>5, <1>7, <1>8, <1>9 DEF Next

\* requireControllerEpoch admits one mutation at a time: while its lock is
\* unexpired the Lease carries its token at its epoch, for any number of
\* controllers, crashes, takeovers and restores.
THEOREM Interlock == Spec => []InterlockExclusive
<1>1. Inv0 /\ InterlockInv => InterlockExclusive
  BY DEF InterlockInv, Locking, InterlockExclusive, At
<1> QED BY <1>1, TypeInit, TypeNext, AuthorityInit, AuthorityNext, InterlockInit, InterlockNext, PTL DEF Spec

\* A fenced write never replaces a record of a later epoch, even when it lands
\* after its lock expired and another controller took over.
THEOREM RecordMonotone == Spec => RecordEpochMonotone
<1>1. Inv0 /\ AuthorityInv /\ InterlockInv /\ [Next]_vars => [target'.epoch >= target.epoch]_vars
  <2> SUFFICES ASSUME Inv0, InterlockInv, Next PROVE target'.epoch >= target.epoch
    BY DEF Inv0, TypeOK
  <2>0. target \in [rv : Nat, epoch : Nat] /\ fence \in [Controllers -> Nat]
    BY DEF Inv0, TypeOK
  <2>1. ASSUME NEW c \in Controllers, MutWrite(c) PROVE target'.epoch >= target.epoch
    <3>1. Current(c, th[c])
      BY <2>1 DEF InterlockInv, Writing, MutWrite, At
    <3> QED BY SMTT(60), <2>0, <2>1, <3>1 DEF MutWrite, Current
  <2>2. ASSUME NEW c \in Controllers, ControllerStep(c) \/ Crash(c), ~MutWrite(c) PROVE target' = target
    <3>1. CASE Crash(c) \/ Start(c)
      BY <3>1 DEF Crash, Start
    <3>2. CASE CasLease(c) \/ CasCreateObject(c) \/ CasCreateLease(c)
      BY <3>2 DEF CasLease, CasCreateObject, CasCreateLease
    <3>3. CASE CasCheck(c) \/ CasUpdate(c)
      BY <3>3 DEF CasCheck, CasUpdate
    <3>4. CASE BeginMutation(c) \/ MutLease(c) \/ MutObject(c)
      BY <3>4 DEF BeginMutation, MutLease, MutObject
    <3>5. CASE MutUpdate(c) \/ MutRelease(c)
      BY <3>5 DEF MutUpdate, MutRelease
    <3> QED BY <2>2, <3>1, <3>2, <3>3, <3>4, <3>5 DEF ControllerStep
  <2>3. ASSUME NEW t \in Threads, SyncStep(t) PROVE target' = target
    BY <2>3 DEF SyncStep, GetLease, SyncLease, SyncObject, SyncStatus, SyncMeta
  <2>4. ASSUME \/ \E r \in Readers : DrainRead(r)
               \/ Expire \/ BackUpLease \/ LoseLease \/ RestoreLease
        PROVE  target' = target
    BY <2>4 DEF DrainRead, Expire, BackUpLease, LoseLease, RestoreLease
  <2> QED BY SMTT(60), <2>0, <2>1, <2>2, <2>3, <2>4 DEF Next
<1> QED
  BY <1>1, TypeInit, TypeNext, AuthorityInit, AuthorityNext, InterlockInit, InterlockNext, PTL
     DEF Spec, RecordEpochMonotone

\* The epoch of a Lease advances by one at a time and waits for the mutation the
\* Lease is serializing, for any number of controllers.
THEOREM AdvanceWaits == Spec => AdvanceRespectsInterlock
<1> DEFINE Advances == lease # None /\ lease' # None /\ lease'.uid = lease.uid /\ lease'.epoch # lease.epoch
           Allowed == lease'.epoch = lease.epoch + 1 /\ ~controllerEpochMutationLock(lease)
<1>1. Inv0 /\ AuthorityInv /\ InterlockInv /\ [Next]_vars => [Advances => Allowed]_vars
  <2> SUFFICES ASSUME Inv0, InterlockInv, Next, Advances PROVE Allowed
    OBVIOUS
  <2>0. lease' # lease /\ lease # None /\ lease' # None /\ lease \in LeaseRec
    BY DEF Inv0, TypeOK
  <2>1. ASSUME NEW c \in Controllers, CasUpdate(c) PROVE Allowed
    <3>1. lease = th[c].snap /\ lease'.epoch = th[c].snap.epoch + 1
      BY SMTT(60), <2>0, <2>1 DEF CasUpdate
    <3>2. ~controllerEpochMutationLock(th[c].snap)
      BY <2>1 DEF InterlockInv, Locking, CasUpdate, At
    <3> QED BY <3>1, <3>2
  <2>2. ASSUME NEW c \in Controllers, MutUpdate(c) \/ MutRelease(c) PROVE FALSE
    BY <2>0, <2>2 DEF MutUpdate, MutRelease, LeaseRec
  <2>3. ASSUME NEW c \in Controllers, ControllerStep(c) \/ Crash(c),
               ~CasUpdate(c), ~MutUpdate(c), ~MutRelease(c)
        PROVE  lease = None \/ lease' = lease
    <3>1. CASE Crash(c) \/ Start(c)
      BY <3>1 DEF Crash, Start, authority
    <3>2. CASE CasLease(c) \/ CasCreateObject(c) \/ CasCreateLease(c)
      BY <3>2 DEF CasLease, CasCreateObject, CasCreateLease, authority
    <3>3. CASE CasCheck(c) \/ BeginMutation(c)
      BY <3>3 DEF CasCheck, BeginMutation, authority
    <3>4. CASE MutLease(c) \/ MutObject(c) \/ MutWrite(c)
      BY <3>4 DEF MutLease, MutObject, MutWrite, authority
    <3> QED BY <2>3, <3>1, <3>2, <3>3, <3>4 DEF ControllerStep
  <2>4. ASSUME NEW t \in Threads, SyncStep(t) PROVE lease' = lease
    BY <2>4 DEF SyncStep, GetLease, SyncLease, SyncObject, SyncStatus, SyncMeta, authority
  <2>5. ASSUME \/ \E r \in Readers : DrainRead(r)
               \/ Expire \/ BackUpLease \/ LoseLease \/ RestoreLease
        PROVE  lease = None \/ lease' = None \/ lease' = lease
    BY <2>5 DEF DrainRead, Expire, BackUpLease, LoseLease, RestoreLease, authority
  <2> HIDE DEF Allowed, Advances
  <2> QED BY <2>0, <2>1, <2>2, <2>3, <2>4, <2>5 DEF Next
<1> QED
  BY <1>1, TypeInit, TypeNext, AuthorityInit, AuthorityNext, InterlockInit, InterlockNext, PTL
     DEF Spec, AdvanceRespectsInterlock
=============================================================================
