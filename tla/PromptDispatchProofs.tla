------------------------ MODULE PromptDispatchProofs ------------------------
(***************************************************************************)
(* The prompt is accepted at most once, a settled attempt stays settled, a *)
(* success is real and the outbox agrees: the inductive invariant of       *)
(* PromptDispatch and its proof.                                           *)
(*                                                                         *)
(* Every step of a controller but the request itself moves one controller  *)
(* and commits at most one write of the attempt (ProcStep).  A write that  *)
(* can still commit was read from the state the attempt is still in, and a *)
(* controller past its own write has outrun the ones before it, which can  *)
(* no longer read for a write.  So the only way back over the request      *)
(* boundary, from "unsent", is open to the one controller the supervisor   *)
(* would accept, and only while it has no request under way.               *)
(***************************************************************************)
EXTENDS PromptDispatch, TLAPS

\* Zenon proves every leaf that names no other backend.
USE ZenonT(60)

ProcRec == [pc : PCs, ver : 0 .. MaxVersion, boot : 0 .. MaxBoot,
            goal : Terminal \cup {"none", "Queued", "Reserved"}, rec : BOOLEAN]

----------------------------------------------------------------------------
(* The invariant. *)

\* Controllers at these steps may hold an expected version.
Writers == {"reserve", "start", "plan", "submit", "requeue", "unsent", "accept", "run",
            "settle", "succeed", "finish"}

\* The attempt states a controller with locals p reads for its write.
Writable(p, s) ==
    \/ p.pc = "reserve" /\ s = "Queued"
    \/ p.pc = "start" /\ s = "Reserved"
    \/ p.pc = "plan" /\ s = "SessionStarting"
    \/ p.pc = "submit" /\ s = "Planned"
    \/ p.pc = "requeue" /\ s \in {"SessionStarting", "Planned"}
    \/ p.pc \in {"unsent", "accept"} /\ s = "Submitting"
    \/ p.pc = "run" /\ s = "Accepted"
    \/ p.pc = "settle" /\ s \in {"Accepted", "Running"}
    \/ p.pc = "succeed" /\ s = "Settling"
    \/ p.pc = "finish" /\ s \notin Terminal

\* Past its receipt a completed prompt is being settled.
Done == {"receipt", "settle", "settling", "result", "lifecycle", "succeed", "succeeded"}
RecPCs == {"recover", "requeue", "requeued", "readmit", "settle", "succeed", "finish", "enqueue", "project", "raise"}

\* What the locals of a controller say by themselves.
Shape(p) ==
    /\ p.pc \notin Writers => p.ver = 0
    /\ p.rec => p.pc \in RecPCs
    /\ p.pc = "finish" => p.goal \in {"Failed", "Cancelled", "OutcomeUnknown"}
    /\ p.pc \in Done => p.goal = "Succeeded"
    /\ p.pc \in {"enqueue", "project"} => p.goal \in Terminal
    /\ p.pc = "readmit" => p.goal \in {"Queued", "Reserved"}

\* A write that can still commit goes over a state it was meant for.
VersionInv ==
    \A e \in Controllers :
        /\ Shape(proc[e])
        /\ proc[e].pc # "down" => e <= epoch
        /\ proc[e].ver <= att.ver
        /\ proc[e].ver = att.ver => Writable(proc[e], att.state)

\* No earlier controller holds a write that can commit.
Outrun(e) == \A d \in Controllers : d < e => proc[d].ver < att.ver

Bound == {"submit", "submitting", "send", "await", "unsent"}
Owned == {"started", "plan", "planned", "session"} \cup Bound
Sent == {"submitting", "send", "await"}

\* A controller that may take its request for unsent.
Back(e) == proc[e].pc \in {"submit", "submitting", "send", "unsent"} \/ (proc[e].pc = "await" /\ answer[e] = "limited")

\* Where the boundary stands: only the controller of the supervisor's epoch can have a
\* request accepted; while it has one under way it does not take it for unsent and the attempt
\* is past the boundary; and once a request was accepted nobody is left who could go back.
BoundaryInv ==
    /\ rt.epoch <= epoch
    /\ \A e \in Controllers : proc[e].pc \in Owned => Outrun(e)
    /\ \A e \in Controllers : proc[e].pc \in Bound => e <= rt.epoch
    /\ \A e \in Controllers : e = rt.epoch /\ proc[e].pc \in Sent => att.state \notin PreSubmission
    /\ \A r \in net : r.from <= rt.epoch /\ Outrun(r.from)
    /\ \A r \in net : r.from = rt.epoch => att.state \notin PreSubmission /\ ~Back(r.from)
    /\ \A r, s \in net : r.from = rt.epoch /\ s.from = rt.epoch => r = s
    /\ accepts <= 1
    /\ accepts > 0 =>
        /\ att.state \notin PreSubmission
        /\ \A r \in net : r.from < rt.epoch
        /\ \A e \in Controllers : Back(e) => e < rt.epoch /\ proc[e].ver < att.ver

Heard == {"accept", "run", "running", "stream"}
Kept == {"lifecycle", "succeed", "succeeded"}

\* What the controllers, the journal and the attempt say has happened, has.
EvidenceInv ==
    /\ \A e \in Controllers :
        /\ answer[e] = "accepted" => accepts > 0
        /\ proc[e].pc \in Heard \cup Done => accepts > 0
        /\ proc[e].pc \in Done \ {"receipt"} => receipt
        /\ proc[e].pc \in Kept => result
        /\ proc[e].pc = "settle" /\ proc[e].rec => result
    /\ journal # "none" => accepts > 0
    /\ result => receipt
    /\ att.state \in {"Accepted", "Running", "Settling", "Succeeded"} => accepts > 0
    /\ att.state \in {"Settling", "Succeeded"} => receipt
    /\ att.state = "Succeeded" => result

Past == Sent \cup {"broken"} \cup Heard

\* The outbox and the Task tell what the attempt says, as long as only the controller of the
\* open epoch has written it; ahead of that, what this controller is about to tell.
ProjectionInv ==
    /\ task.outcome # "none" => task.outcome = proj
    /\ \A e \in Controllers : proc[e].pc = "project" => proj = proc[e].goal
    /\ ~att.late =>
        /\ proj # "none" => proj = att.state
        /\ proc[epoch].pc \in Past => att.state \in Submitted
        /\ proc[epoch].pc = "finish" /\ proc[epoch].goal = "OutcomeUnknown" => att.state \in Submitted
        /\ proc[epoch].pc = "succeeded" => att.state = "Succeeded"
        /\ proc[epoch].pc = "enqueue" => att.state = proc[epoch].goal

DispatchInv == TypeOK /\ VersionInv /\ BoundaryInv /\ EvidenceInv /\ ProjectionInv

----------------------------------------------------------------------------
(* Steps. *)

\* Only controller e moves.
Moves(e) ==
    /\ proc[e].pc # "down" /\ proc' \in [Controllers -> ProcRec]
    /\ \A d \in Controllers : d # e => proc'[d] = proc[d]

\* What goto, settleOn, drop and abandon do, and a read for a write.
Goes(e, pc) == Moves(e) /\ proc'[e].pc = pc /\ proc'[e].ver = 0 /\ proc'[e].goal = proc[e].goal /\ proc'[e].rec = proc[e].rec
Settles(e, goal) == Moves(e) /\ proc'[e].pc = "finish" /\ proc'[e].ver = 0 /\ proc'[e].goal = goal /\ proc'[e].rec = proc[e].rec
Leaves(e) ==
    /\ Moves(e) /\ proc'[e].ver = 0
    /\ \/ proc'[e].pc = "idle" /\ ~proc'[e].rec
       \/ proc[e].pc \in {"accept", "run", "running"} /\ proc'[e].pc = "broken" /\ proc'[e].rec = proc[e].rec
Reads(e) ==
    /\ Moves(e) /\ e = epoch /\ proc'[e].ver = att.ver /\ Writable(proc[e], att.state)
    /\ proc'[e].pc = proc[e].pc /\ proc'[e].goal = proc[e].goal /\ proc'[e].rec = proc[e].rec

AttRec == [state : States, ver : 1 .. MaxVersion, late : BOOLEAN]

\* The write controller e has read for commits.
Commits(e) ==
    /\ att.ver = proc[e].ver /\ proc[e].pc \in Writers /\ proc'[e].ver = 0
    /\ att' \in AttRec /\ att'.ver = att.ver + 1 /\ (att'.late <=> att.late \/ e # epoch)
    /\ att'.state \in PreSubmission => proc[e].pc \in {"reserve", "start", "plan", "requeue", "unsent"}
    /\ att'.state = "Accepted" => proc[e].pc = "accept"
    /\ att'.state = "Running" => proc[e].pc = "run"
    /\ att'.state = "Settling" => proc[e].pc = "settle"
    /\ att'.state = "Succeeded" => proc[e].pc = "succeed"

\* The locals after a step are in shape, and a version is one just read.
LocalFlow(e) ==
    /\ Moves(e) /\ Shape(proc'[e])
    /\ \/ proc'[e].ver = 0
       \/ proc'[e] = proc[e] /\ att' = att
       \/ e = epoch /\ att' = att /\ proc'[e].ver = att.ver /\ Writable(proc'[e], att.state)

\* How a controller gets to the steps the invariant speaks of.
BoundaryFlow(e) ==
    /\ proc'[e].pc \in Owned => proc[e].pc \in Owned \/ att' # att
    /\ proc'[e].pc \in Bound => proc[e].pc \in Bound \/ e = rt.epoch
    /\ proc'[e].pc \in Sent => proc[e].pc \in Sent \/ att'.state \notin PreSubmission
    /\ Back(e)' => Back(e) \/ att.state \in PreSubmission
EvidenceFlow(e) ==
    /\ proc'[e].pc \in Heard \cup Done => proc[e].pc \in Heard \cup Done \/ answer[e] = "accepted" \/ journal # "none"
    /\ proc'[e].pc \in Done \ {"receipt"} => proc[e].pc \in Done \ {"receipt"} \/ receipt'
    /\ proc'[e].pc \in Kept => proc[e].pc \in Kept \/ result' \/ (proc[e].pc = "settle" /\ proc[e].rec)
    /\ proc'[e].pc = "settle" /\ proc'[e].rec => (proc[e].pc = "settle" /\ proc[e].rec) \/ result'
ProjectionFlow(e) ==
    /\ proc'[e].pc = "project" => (proc[e].pc = "project" /\ proc'[e].goal = proc[e].goal) \/ proj' = proc'[e].goal
    /\ proc'[e].pc \in Past => (proc[e].pc \in Past /\ att' = att) \/ att'.state \in Submitted
    /\ proc'[e].pc = "finish" /\ proc'[e].goal = "OutcomeUnknown" =>
        \/ proc[e].pc = "finish" /\ proc[e].goal = "OutcomeUnknown" /\ att' = att
        \/ proc[e].pc \in Past /\ att' = att
        \/ att'.state \in Submitted
    /\ proc'[e].pc = "succeeded" => (proc[e].pc = "succeeded" /\ att' = att) \/ att'.state = "Succeeded"
    /\ proc'[e].pc = "enqueue" =>
        \/ att'.state = proc'[e].goal
        \/ proc[e].pc = "enqueue" /\ proc'[e].goal = proc[e].goal /\ att' = att
        \/ proc[e].pc = "succeeded" /\ proc'[e].goal = proc[e].goal /\ att' = att
        \/ proc[e].pc = "finish" /\ proc[e].goal = "OutcomeUnknown" /\ att.state \notin Submitted /\ att' = att
Flows(e) == LocalFlow(e) /\ BoundaryFlow(e) /\ EvidenceFlow(e) /\ ProjectionFlow(e)

\* What else a step of a controller other than the request may change.
AttStep(e) == att' = att \/ Commits(e)
Still ==
    /\ epoch' = epoch /\ net' = net /\ answer' = answer /\ accepts' = accepts
    /\ rt'.epoch = rt.epoch /\ rt'.boot = rt.boot
Records(e) ==
    /\ journal' # "none" => journal # "none" \/ answer[e] = "accepted" \/ proc[e].pc \in Heard \cup Done
    /\ result' => result \/ receipt \/ proc[e].pc \in Done \ {"receipt"}
    /\ (result => result') /\ (receipt => receipt') /\ (journal # "none" => journal' # "none")
Tells(e) ==
    /\ proj' = proj \/ (proj = "none" /\ e = epoch /\ proc[e].pc = "enqueue" /\ proj' = proc[e].goal)
    /\ task'.outcome \in {task.outcome, proj} \/ (proc[e].pc = "project" /\ task'.outcome = proc[e].goal)

ProcStep(e) == Still /\ AttStep(e) /\ Records(e) /\ Tells(e) /\ Flows(e)

----------------------------------------------------------------------------
(* What the process operators do. *)

\* The type invariant gives the locals their record type.
LEMMA ProcType == TypeOK => proc \in [Controllers -> ProcRec]
BY DEF TypeOK, ProcRec

\* drop gives up: the controller is idle again and holds no version.
LEMMA DropIs ==
    ASSUME TypeOK, NEW e \in Controllers, proc[e].pc # "down", drop(e)
    PROVE  Leaves(e)
<1>1. Idle \in ProcRec /\ Idle.pc = "idle" /\ Idle.ver = 0 /\ ~Idle.rec
  BY SMTT(60), DispatchAssumption DEF Idle, ProcRec, PCs
<1>2. proc \in [Controllers -> ProcRec] /\ proc' = [proc EXCEPT ![e] = Idle]
  BY ProcType DEF drop
<1> HIDE DEF Idle
<1>3. Moves(e) /\ proc'[e] = Idle
  BY <1>1, <1>2 DEF Moves
<1> QED BY <1>1, <1>3 DEF Leaves

\* Writing the locals of one controller.
LEMMA WriteIs ==
    ASSUME TypeOK, NEW e \in Controllers, proc[e].pc # "down", NEW x \in ProcRec, proc' = [proc EXCEPT ![e] = x]
    PROVE  Moves(e) /\ proc'[e] = x
BY ProcType DEF Moves

\* Writing one field of a controller's locals.
SetPc(f, e, x) == [f EXCEPT ![e].pc = x]
SetVer(f, e, x) == [f EXCEPT ![e].ver = x]
SetGoal(f, e, x) == [f EXCEPT ![e].goal = x]
SetRec(f, e, x) == [f EXCEPT ![e].rec = x]
SetBoot(f, e, x) == [f EXCEPT ![e].boot = x]

\* The locals of the controllers after a write to those of controller e.
Wrote(f, g, e) == g \in [Controllers -> ProcRec] /\ \A d \in Controllers : d # e => g[d] = f[d]

\* Writing the position changes nothing else.
LEMMA SetPcIs ==
    ASSUME NEW f \in [Controllers -> ProcRec], NEW e \in Controllers, NEW x \in PCs
    PROVE  /\ Wrote(f, SetPc(f, e, x), e) /\ SetPc(f, e, x)[e].pc = x
           /\ SetPc(f, e, x)[e].ver = f[e].ver /\ SetPc(f, e, x)[e].goal = f[e].goal /\ SetPc(f, e, x)[e].rec = f[e].rec
<1> DEFINE p == f[e]
           q == [p EXCEPT !.pc = x]
           g == [f EXCEPT ![e] = q]
<1>1. p \in ProcRec /\ SetPc(f, e, x) = g
  BY DEF SetPc
<1> HIDE DEF p
<1>2. q \in ProcRec /\ q.pc = x /\ q.ver = p.ver /\ q.goal = p.goal /\ q.rec = p.rec
  BY <1>1 DEF ProcRec
<1> HIDE DEF q
<1>3. Wrote(f, g, e) /\ g[e] = q
  BY <1>2 DEF Wrote
<1> HIDE DEF g
<1> QED BY <1>1, <1>2, <1>3 DEF p

\* Writing the expected version changes nothing else.
LEMMA SetVerIs ==
    ASSUME NEW f \in [Controllers -> ProcRec], NEW e \in Controllers, NEW x \in 0 .. MaxVersion
    PROVE  /\ Wrote(f, SetVer(f, e, x), e) /\ SetVer(f, e, x)[e].ver = x
           /\ SetVer(f, e, x)[e].pc = f[e].pc /\ SetVer(f, e, x)[e].goal = f[e].goal /\ SetVer(f, e, x)[e].rec = f[e].rec
<1> DEFINE p == f[e]
           q == [p EXCEPT !.ver = x]
           g == [f EXCEPT ![e] = q]
<1>1. p \in ProcRec /\ SetVer(f, e, x) = g
  BY DEF SetVer
<1> HIDE DEF p
<1>2. q \in ProcRec /\ q.ver = x /\ q.pc = p.pc /\ q.goal = p.goal /\ q.rec = p.rec
  BY <1>1 DEF ProcRec
<1> HIDE DEF q
<1>3. Wrote(f, g, e) /\ g[e] = q
  BY <1>2 DEF Wrote
<1> HIDE DEF g
<1> QED BY <1>1, <1>2, <1>3 DEF p

\* Writing the outcome to settle on changes nothing else.
LEMMA SetGoalIs ==
    ASSUME NEW f \in [Controllers -> ProcRec], NEW e \in Controllers, NEW x \in Terminal \cup {"none", "Queued", "Reserved"}
    PROVE  /\ Wrote(f, SetGoal(f, e, x), e) /\ SetGoal(f, e, x)[e].goal = x
           /\ SetGoal(f, e, x)[e].pc = f[e].pc /\ SetGoal(f, e, x)[e].ver = f[e].ver /\ SetGoal(f, e, x)[e].rec = f[e].rec
<1> DEFINE p == f[e]
           q == [p EXCEPT !.goal = x]
           g == [f EXCEPT ![e] = q]
<1>1. p \in ProcRec /\ SetGoal(f, e, x) = g
  BY DEF SetGoal
<1> HIDE DEF p
<1>2. q \in ProcRec /\ q.goal = x /\ q.pc = p.pc /\ q.ver = p.ver /\ q.rec = p.rec
  BY <1>1 DEF ProcRec
<1> HIDE DEF q
<1>3. Wrote(f, g, e) /\ g[e] = q
  BY <1>2 DEF Wrote
<1> HIDE DEF g
<1> QED BY <1>1, <1>2, <1>3 DEF p

\* Writing the recovery mark changes nothing else.
LEMMA SetRecIs ==
    ASSUME NEW f \in [Controllers -> ProcRec], NEW e \in Controllers, NEW x \in BOOLEAN
    PROVE  /\ Wrote(f, SetRec(f, e, x), e) /\ SetRec(f, e, x)[e].rec = x
           /\ SetRec(f, e, x)[e].pc = f[e].pc /\ SetRec(f, e, x)[e].ver = f[e].ver /\ SetRec(f, e, x)[e].goal = f[e].goal
<1> DEFINE p == f[e]
           q == [p EXCEPT !.rec = x]
           g == [f EXCEPT ![e] = q]
<1>1. p \in ProcRec /\ SetRec(f, e, x) = g
  BY DEF SetRec
<1> HIDE DEF p
<1>2. q \in ProcRec /\ q.rec = x /\ q.pc = p.pc /\ q.ver = p.ver /\ q.goal = p.goal
  BY <1>1 DEF ProcRec
<1> HIDE DEF q
<1>3. Wrote(f, g, e) /\ g[e] = q
  BY <1>2 DEF Wrote
<1> HIDE DEF g
<1> QED BY <1>1, <1>2, <1>3 DEF p

\* Writing the runtime instance changes no field the invariant speaks of.
LEMMA SetBootIs ==
    ASSUME NEW f \in [Controllers -> ProcRec], NEW e \in Controllers, NEW x \in 0 .. MaxBoot
    PROVE  /\ Wrote(f, SetBoot(f, e, x), e) /\ SetBoot(f, e, x)[e].rec = f[e].rec
           /\ SetBoot(f, e, x)[e].pc = f[e].pc /\ SetBoot(f, e, x)[e].ver = f[e].ver /\ SetBoot(f, e, x)[e].goal = f[e].goal
<1> DEFINE p == f[e]
           q == [p EXCEPT !.boot = x]
           g == [f EXCEPT ![e] = q]
<1>1. p \in ProcRec /\ SetBoot(f, e, x) = g
  BY DEF SetBoot
<1> HIDE DEF p
<1>2. q \in ProcRec /\ q.rec = p.rec /\ q.pc = p.pc /\ q.ver = p.ver /\ q.goal = p.goal
  BY <1>1 DEF ProcRec
<1> HIDE DEF q
<1>3. Wrote(f, g, e) /\ g[e] = q
  BY <1>2 DEF Wrote
<1> HIDE DEF g
<1> QED BY <1>1, <1>2, <1>3 DEF p

\* goto moves on without a version, and to idle it leaves recovery.
LEMMA GotoIs ==
    ASSUME TypeOK, NEW e \in Controllers, NEW pc \in PCs, proc[e].pc # "down", goto(e, pc)
    PROVE  IF pc = "idle" THEN Leaves(e) ELSE Goes(e, pc)
<1>1. CASE pc = "idle"
  BY <1>1, DropIs DEF goto
<1>2. CASE pc # "idle"
  <2> DEFINE f == SetPc(proc, e, pc)
  <2>1. proc \in [Controllers -> ProcRec] /\ 0 \in 0 .. MaxVersion
    BY SMTT(60), ProcType, DispatchAssumption
  <2>2. proc' = SetVer(f, e, 0)
    BY <1>2 DEF goto, SetPc, SetVer
  <2>3. Wrote(proc, f, e) /\ f[e].pc = pc /\ f[e].goal = proc[e].goal /\ f[e].rec = proc[e].rec
    BY <2>1, SetPcIs
  <2> HIDE DEF f
  <2>5. f \in [Controllers -> ProcRec] /\ 0 \in 0 .. MaxVersion
    BY <2>1, <2>3 DEF Wrote
  <2>4. Wrote(f, proc', e) /\ proc'[e].ver = 0 /\ proc'[e].pc = f[e].pc /\ proc'[e].goal = f[e].goal /\ proc'[e].rec = f[e].rec
    BY <2>2, <2>5, SetVerIs
  <2> QED BY <1>2, <2>3, <2>4 DEF Goes, Moves, Wrote
<1> QED BY <1>1, <1>2

\* settleOn goes to the settling write with its outcome.
LEMMA SettleIs ==
    ASSUME TypeOK, NEW e \in Controllers, NEW goal \in Terminal, proc[e].pc # "down", settleOn(e, goal)
    PROVE  Settles(e, goal)
<1> DEFINE f == SetPc(proc, e, "finish")
           g == SetVer(f, e, 0)
<1>1. proc \in [Controllers -> ProcRec] /\ 0 \in 0 .. MaxVersion /\ "finish" \in PCs /\ goal \in Terminal \cup {"none", "Queued", "Reserved"}
  BY SMTT(60), ProcType, DispatchAssumption DEF PCs
<1>2. proc' = SetGoal(g, e, goal)
  BY DEF settleOn, SetPc, SetVer, SetGoal
<1>3. Wrote(proc, f, e) /\ f[e].pc = "finish" /\ f[e].rec = proc[e].rec
  BY <1>1, SetPcIs
<1> HIDE DEF f
<1>6. f \in [Controllers -> ProcRec] /\ 0 \in 0 .. MaxVersion
  BY <1>1, <1>3 DEF Wrote
<1>4. Wrote(f, g, e) /\ g[e].ver = 0 /\ g[e].pc = f[e].pc /\ g[e].rec = f[e].rec
  BY <1>6, SetVerIs
<1> HIDE DEF g
<1>7. g \in [Controllers -> ProcRec] /\ goal \in Terminal \cup {"none", "Queued", "Reserved"}
  BY <1>1, <1>4 DEF Wrote
<1>5. Wrote(g, proc', e) /\ proc'[e].goal = goal /\ proc'[e].pc = g[e].pc /\ proc'[e].ver = g[e].ver /\ proc'[e].rec = g[e].rec
  BY <1>2, <1>7, SetGoalIs
<1> QED BY <1>3, <1>4, <1>5 DEF Settles, Moves, Wrote

\* A position and an outcome written in one step.
LEMMA PcGoal ==
    ASSUME TypeOK, NEW e \in Controllers, NEW q \in PCs, NEW x \in Terminal \cup {"none", "Queued", "Reserved"}, proc[e].pc # "down",
           proc' = SetGoal(SetPc(proc, e, q), e, x)
    PROVE  Moves(e) /\ proc'[e].pc = q /\ proc'[e].ver = proc[e].ver /\ proc'[e].goal = x /\ proc'[e].rec = proc[e].rec
<1> DEFINE f == SetPc(proc, e, q)
           g == SetGoal(f, e, x)
<1>1. Wrote(proc, f, e) /\ f[e].pc = q /\ f[e].ver = proc[e].ver /\ f[e].goal = proc[e].goal /\ f[e].rec = proc[e].rec
  BY ProcType, SetPcIs
<1> HIDE DEF f
<1>3. f \in [Controllers -> ProcRec]
  BY <1>1 DEF Wrote
<1>4. Wrote(f, g, e) /\ g[e].pc = f[e].pc /\ g[e].ver = f[e].ver /\ g[e].goal = x /\ g[e].rec = f[e].rec
  BY <1>3, SetGoalIs
<1>5. proc' = g
  BY DEF f, g
<1> HIDE DEF g
<1> QED BY <1>1, <1>4, <1>5 DEF Moves, Wrote

\* A position and a version written in one step.
LEMMA PcVer ==
    ASSUME TypeOK, NEW e \in Controllers, NEW q \in PCs, NEW x \in 0 .. MaxVersion, proc[e].pc # "down",
           proc' = SetVer(SetPc(proc, e, q), e, x)
    PROVE  Moves(e) /\ proc'[e].pc = q /\ proc'[e].ver = x /\ proc'[e].goal = proc[e].goal /\ proc'[e].rec = proc[e].rec
<1> DEFINE f == SetPc(proc, e, q)
           g == SetVer(f, e, x)
<1>1. Wrote(proc, f, e) /\ f[e].pc = q /\ f[e].ver = proc[e].ver /\ f[e].goal = proc[e].goal /\ f[e].rec = proc[e].rec
  BY ProcType, SetPcIs
<1> HIDE DEF f
<1>3. f \in [Controllers -> ProcRec]
  BY <1>1 DEF Wrote
<1>4. Wrote(f, g, e) /\ g[e].pc = f[e].pc /\ g[e].ver = x /\ g[e].goal = f[e].goal /\ g[e].rec = f[e].rec
  BY <1>3, SetVerIs
<1>5. proc' = g
  BY DEF f, g
<1> HIDE DEF g
<1> QED BY <1>1, <1>4, <1>5 DEF Moves, Wrote

\* A position and the recovery mark written in one step.
LEMMA PcRec ==
    ASSUME TypeOK, NEW e \in Controllers, NEW q \in PCs, NEW x \in BOOLEAN, proc[e].pc # "down",
           proc' = SetRec(SetPc(proc, e, q), e, x)
    PROVE  Moves(e) /\ proc'[e].pc = q /\ proc'[e].ver = proc[e].ver /\ proc'[e].goal = proc[e].goal /\ proc'[e].rec = x
<1> DEFINE f == SetPc(proc, e, q)
           g == SetRec(f, e, x)
<1>1. Wrote(proc, f, e) /\ f[e].pc = q /\ f[e].ver = proc[e].ver /\ f[e].goal = proc[e].goal /\ f[e].rec = proc[e].rec
  BY ProcType, SetPcIs
<1> HIDE DEF f
<1>3. f \in [Controllers -> ProcRec]
  BY <1>1 DEF Wrote
<1>4. Wrote(f, g, e) /\ g[e].pc = f[e].pc /\ g[e].ver = f[e].ver /\ g[e].goal = f[e].goal /\ g[e].rec = x
  BY <1>3, SetRecIs
<1>5. proc' = g
  BY DEF f, g
<1> HIDE DEF g
<1> QED BY <1>1, <1>4, <1>5 DEF Moves, Wrote

\* A position, a version and an outcome written in one step.
LEMMA PcVerGoal ==
    ASSUME TypeOK, NEW e \in Controllers, NEW q \in PCs, NEW v \in 0 .. MaxVersion,
           NEW x \in Terminal \cup {"none", "Queued", "Reserved"}, proc[e].pc # "down",
           proc' = SetGoal(SetVer(SetPc(proc, e, q), e, v), e, x)
    PROVE  Moves(e) /\ proc'[e].pc = q /\ proc'[e].ver = v /\ proc'[e].goal = x /\ proc'[e].rec = proc[e].rec
<1> DEFINE f == SetPc(proc, e, q)
           g == SetVer(f, e, v)
           h == SetGoal(g, e, x)
<1>1. Wrote(proc, f, e) /\ f[e].pc = q /\ f[e].rec = proc[e].rec
  BY ProcType, SetPcIs
<1> HIDE DEF f
<1>3. f \in [Controllers -> ProcRec]
  BY <1>1 DEF Wrote
<1>4. Wrote(f, g, e) /\ g[e].pc = f[e].pc /\ g[e].ver = v /\ g[e].rec = f[e].rec
  BY <1>3, SetVerIs
<1> HIDE DEF g
<1>5. g \in [Controllers -> ProcRec]
  BY <1>4 DEF Wrote
<1>6. Wrote(g, h, e) /\ h[e].pc = g[e].pc /\ h[e].ver = g[e].ver /\ h[e].goal = x /\ h[e].rec = g[e].rec
  BY <1>5, SetGoalIs
<1>7. proc' = h
  BY DEF f, g, h
<1> HIDE DEF h
<1> QED BY <1>1, <1>4, <1>6, <1>7 DEF Moves, Wrote

\* abandon gives up, or after the request keeps the outcome open.
LEMMA AbandonIs ==
    ASSUME TypeOK, NEW e \in Controllers, proc[e].pc # "down", abandon(e)
    PROVE  Leaves(e)
<1>1. CASE proc[e].pc \in {"accept", "run", "running"}
  <2>1. goto(e, "broken") /\ "broken" \in PCs /\ "broken" # "idle"
    BY <1>1 DEF abandon, PCs
  <2>2. Goes(e, "broken")
    BY <2>1, GotoIs
  <2> QED BY <1>1, <2>2 DEF Goes, Leaves
<1>2. CASE proc[e].pc \notin {"accept", "run", "running"}
  BY <1>2, DropIs DEF abandon
<1> QED BY <1>1, <1>2

----------------------------------------------------------------------------
(* The common ways a step ends. *)

\* Handling of the Task ends, or its stream does.
LEMMA LeaveFlow ==
    ASSUME VersionInv, NEW e \in Controllers, Leaves(e),
           proc[e].pc \in {"accept", "run", "running"} => att' = att \/ att'.state \in Submitted
    PROVE  Flows(e)
<1>1. Moves(e) /\ proc'[e].ver = 0 /\ Shape(proc[e])
  BY DEF Leaves, VersionInv
<1>2. CASE proc'[e].pc = "idle" /\ ~proc'[e].rec
  <2>1. LocalFlow(e)
    BY SMTT(60), <1>1, <1>2 DEF LocalFlow, Shape, Writers, RecPCs, Done
  <2>2. BoundaryFlow(e)
    BY SMTT(60), <1>2 DEF BoundaryFlow, Owned, Bound, Sent, Back
  <2>3. EvidenceFlow(e)
    BY SMTT(60), <1>2 DEF EvidenceFlow, Heard, Done, Kept
  <2>4. ProjectionFlow(e)
    BY SMTT(60), <1>2 DEF ProjectionFlow, Past, Sent, Heard
  <2> QED BY <2>1, <2>2, <2>3, <2>4 DEF Flows
<1>3. CASE proc[e].pc \in {"accept", "run", "running"} /\ proc'[e].pc = "broken" /\ proc'[e].rec = proc[e].rec
  <2>1. LocalFlow(e)
    BY SMTT(60), <1>1, <1>3 DEF LocalFlow, Shape, Writers, RecPCs, Done
  <2>2. BoundaryFlow(e)
    BY SMTT(60), <1>3 DEF BoundaryFlow, Owned, Bound, Sent, Back
  <2>3. EvidenceFlow(e)
    BY SMTT(60), <1>3 DEF EvidenceFlow, Heard, Done, Kept
  <2>4. ProjectionFlow(e)
    BY SMTT(60), <1>3 DEF ProjectionFlow, Past, Sent, Heard
  <2> QED BY <2>1, <2>2, <2>3, <2>4 DEF Flows
<1> QED BY <1>2, <1>3 DEF Leaves

\* The attempt is to be settled without a completion.
LEMMA SettleFlow ==
    ASSUME VersionInv, NEW e \in Controllers, NEW goal \in {"Failed", "Cancelled", "OutcomeUnknown"}, Settles(e, goal),
           att' = att, goal = "OutcomeUnknown" => proc[e].pc \in Past \/ att.state \in Submitted
    PROVE  Flows(e)
<1>1. Moves(e) /\ proc'[e].ver = 0 /\ proc'[e].pc = "finish" /\ proc'[e].goal = goal
  BY DEF Settles
<1>2. LocalFlow(e)
  BY SMTT(60), <1>1 DEF LocalFlow, Shape, Writers, RecPCs, Done
<1>3. BoundaryFlow(e)
  BY SMTT(60), <1>1 DEF BoundaryFlow, Owned, Bound, Sent, Back
<1>4. EvidenceFlow(e)
  BY SMTT(60), <1>1 DEF EvidenceFlow, Heard, Done, Kept
<1>5. ProjectionFlow(e)
  BY SMTT(60), <1>1 DEF ProjectionFlow, Past, Sent, Heard
<1> QED BY <1>2, <1>3, <1>4, <1>5 DEF Flows

\* A controller has read the attempt for a write.
LEMMA ReadFlow ==
    ASSUME VersionInv, NEW e \in Controllers, Reads(e), att' = att, answer' = answer
    PROVE  Flows(e)
<1>1. /\ Moves(e) /\ e = epoch /\ proc'[e].ver = att.ver /\ Writable(proc[e], att.state) /\ Shape(proc[e])
      /\ proc'[e].pc = proc[e].pc /\ proc'[e].goal = proc[e].goal /\ proc'[e].rec = proc[e].rec
  BY DEF Reads, VersionInv
<1>2. proc[e].pc \in Writers
  BY SMTT(60), <1>1 DEF Writable, Writers
<1>3. LocalFlow(e)
  BY <1>1, <1>2 DEF LocalFlow, Shape, Writable
<1>4. BoundaryFlow(e)
  BY <1>1 DEF BoundaryFlow, Back
<1>5. EvidenceFlow(e)
  BY <1>1 DEF EvidenceFlow
<1>6. ProjectionFlow(e)
  BY <1>1 DEF ProjectionFlow
<1> QED BY <1>3, <1>4, <1>5, <1>6 DEF Flows

\* The fault budget stays within its bound.
LEMMA FaultType ==
    ASSUME TypeOK, Fault \/ faults' = faults
    PROVE  faults' \in 0 .. MaxFaults
<1>1. faults \in 0 .. MaxFaults /\ (faults' = faults \/ (faults < MaxFaults /\ faults' = faults + 1))
  BY DEF Fault, TypeOK
<1> QED BY SMTT(60), <1>1, DispatchAssumption

TaskRec == [state : States, epoch : Controllers, outcome : Terminal \cup {"none"}]
RtRec == [boot : 1 .. MaxBoot, epoch : Controllers, prompt : {"idle", "running", "completed", "failed", "cancelled"}]
Journals == {"none", "accepted", "completed", "failed", "cancelled", "unknown"}

\* The type invariant, component by component.
LEMMA Types ==
    TypeOK <=> /\ epoch \in Controllers /\ att \in AttRec /\ task \in TaskRec
               /\ proj \in Terminal \cup {"none"}
               /\ delivered \in BOOLEAN /\ receipt \in BOOLEAN /\ result \in BOOLEAN /\ cancel \in BOOLEAN
               /\ journal \in Journals /\ rt \in RtRec /\ net \subseteq [from : Controllers, boot : 0 .. MaxBoot]
               /\ answer \in [Controllers -> {"none", "accepted", "limited", "refused", "rejected"}]
               /\ accepts \in Nat /\ faults \in 0 .. MaxFaults /\ proc \in [Controllers -> ProcRec]
BY DEF TypeOK, AttRec, TaskRec, Journals, RtRec, ProcRec

\* A step of a controller, put together from its parts.
LEMMA WholeStep ==
    ASSUME TypeOK, NEW e \in Controllers, Flows(e), AttStep(e), Still, Records(e), Tells(e), cancel' = cancel,
           faults' \in 0 .. MaxFaults, task' \in TaskRec, proj' \in Terminal \cup {"none"}, rt' \in RtRec,
           delivered' \in BOOLEAN, receipt' \in BOOLEAN, result' \in BOOLEAN, journal' \in Journals
    PROVE  TypeOK' /\ ProcStep(e)
<1>1. proc' \in [Controllers -> ProcRec] /\ att' \in AttRec
  BY Types DEF Flows, LocalFlow, Moves, AttStep, Commits
<1>2. epoch' = epoch /\ net' = net /\ answer' = answer /\ accepts' = accepts
  BY DEF Still
<1>3. TypeOK'
  BY <1>1, <1>2 DEF TypeOK, AttRec, TaskRec, Journals, RtRec, ProcRec
<1> QED BY <1>3 DEF ProcStep

\* A step that touches only the locals, the attempt and the Task's execution state.
Frame == UNCHANGED <<epoch, outboxVars, recordVars, cancel, runtimeVars>>

\* A step that touches only the attempt, the Task and its own locals.
LEMMA FrameStep ==
    ASSUME TypeOK, NEW e \in Controllers, Flows(e), AttStep(e), Frame, faults' \in 0 .. MaxFaults,
           task' \in TaskRec, task'.outcome = task.outcome
    PROVE  TypeOK' /\ ProcStep(e)
<1>1. /\ epoch' = epoch /\ proj' = proj /\ delivered' = delivered /\ receipt' = receipt /\ result' = result
      /\ journal' = journal /\ cancel' = cancel /\ rt' = rt /\ net' = net /\ answer' = answer /\ accepts' = accepts
  BY DEF Frame, outboxVars, recordVars, runtimeVars
<1>2. Still /\ Records(e) /\ Tells(e)
  BY <1>1 DEF Still, Records, Tells
<1>3. proj' \in Terminal \cup {"none"} /\ rt' \in RtRec /\ delivered' \in BOOLEAN /\ receipt' \in BOOLEAN /\ result' \in BOOLEAN /\ journal' \in Journals
  BY <1>1, Types
<1> QED BY <1>1, <1>2, <1>3, WholeStep

\* Reading the attempt for a write takes its version.
LEMMA ReadIs ==
    ASSUME TypeOK, NEW e \in Controllers, proc[e].pc # "down", e = epoch, Writable(proc[e], att.state),
           proc' = SetVer(proc, e, att.ver)
    PROVE  Reads(e)
<1>1. proc \in [Controllers -> ProcRec] /\ att.ver \in 0 .. MaxVersion
  <2>1. att \in [state : States, ver : 1 .. MaxVersion, late : BOOLEAN]
    BY DEF TypeOK
  <2> QED BY SMTT(60), <2>1, ProcType
<1>2. /\ Wrote(proc, proc', e) /\ proc'[e].ver = att.ver /\ proc'[e].pc = proc[e].pc
      /\ proc'[e].goal = proc[e].goal /\ proc'[e].rec = proc[e].rec
  BY <1>1, SetVerIs
<1> QED BY <1>2 DEF Reads, Moves, Wrote

\* The read before a write ends the handling, fixes a version, or finds the target reached.
LEMMA ReadEnds ==
    ASSUME TypeOK, VersionInv, NEW e \in Controllers, proc[e].pc # "down", NEW from, NEW to, NEW next \in PCs,
           next # "idle", ReadForTransition(e, from, to, next), answer' = answer,
           \A s \in from : Writable(proc[e], s)
    PROVE  att' = att /\ faults' = faults /\ (Flows(e) \/ (Goes(e, next) /\ att.state = to))
<1>1. att' = att /\ faults' = faults
  BY DEF ReadForTransition
<1>2. CASE att.state = to /\ goto(e, next)
  BY <1>1, <1>2, GotoIs
<1>3. CASE abandon(e)
  BY <1>1, <1>3, AbandonIs, LeaveFlow
<1>4. CASE att.state \in from /\ e = epoch /\ proc' = [proc EXCEPT ![e].ver = att.ver]
  <2>1. Reads(e)
    BY <1>4, ReadIs DEF SetVer
  <2> QED BY <1>1, <2>1, ReadFlow
<1> QED BY <1>2, <1>3, <1>4 DEF ReadForTransition

\* The states a controller at p may write.
Target(p, to) ==
    /\ p \in Writers /\ to \in States
    /\ to \in PreSubmission => p \in {"reserve", "start", "plan", "requeue", "unsent"}
    /\ to = "Accepted" <=> p = "accept"
    /\ to = "Running" <=> p = "run"
    /\ to = "Settling" => p = "settle"
    /\ to = "Succeeded" => p = "succeed"

\* The compare-and-swap ends the handling, or the target is reached.
LEMMA CommitEnds ==
    ASSUME TypeOK, VersionInv, NEW e \in Controllers, proc[e].pc # "down", NEW to, NEW next \in PCs,
           next # "idle", CommitTransition(e, to, next), Target(proc[e].pc, to)
    PROVE  AttStep(e) /\ faults' \in 0 .. MaxFaults /\ (Flows(e) \/ (Goes(e, next) /\ att'.state = to /\ att' # att))
<1>1. faults' \in 0 .. MaxFaults
  BY FaultType DEF CommitTransition
<1>2. CASE /\ CanCommit(e) /\ att' = [state |-> to, ver |-> att.ver + 1, late |-> att.late \/ e # epoch]
           /\ goto(e, next) \/ abandon(e)
  <2>1. att \in AttRec /\ att.ver \in 1 .. MaxVersion /\ att.late \in BOOLEAN /\ to \in States /\ proc[e].pc \in Writers
    BY DEF TypeOK, AttRec, Target
  <2>2. att.ver = proc[e].ver /\ att.ver + 1 \in 1 .. MaxVersion /\ att.ver + 1 # att.ver
    BY SMTT(60), <1>2, <2>1, DispatchAssumption DEF CanCommit
  <2>3. /\ att' \in AttRec /\ att'.state = to /\ att'.ver = att.ver + 1 /\ att' # att
        /\ (att'.late <=> att.late \/ e # epoch)
    <3> DEFINE l == att.late \/ e # epoch
               v == att.ver + 1
    <3>1. att' = [state |-> to, ver |-> v, late |-> l] /\ l \in BOOLEAN /\ v \in 1 .. MaxVersion
      BY <1>2, <2>1, <2>2
    <3>2. v # att.ver
      BY <2>2
    <3> HIDE DEF v
    <3>3. att' \in AttRec /\ att'.state = to /\ att'.ver = v /\ att'.late = l
      <4> HIDE DEF l
      <4> QED BY <2>1, <3>1 DEF AttRec
    <3> QED BY <3>2, <3>3 DEF v
  <2>4. Goes(e, next) \/ Leaves(e)
    BY <1>2, GotoIs, AbandonIs
  <2>5. proc'[e].ver = 0
    BY <2>4 DEF Goes, Leaves
  <2>6. Commits(e)
    BY <2>1, <2>2, <2>3, <2>5 DEF Commits, Target
  <2>7. ASSUME Leaves(e) PROVE Flows(e)
    <3>1. proc[e].pc \in {"accept", "run", "running"} => att'.state \in Submitted
      BY SMTT(60), <2>1, <2>3 DEF Target, Writers, Submitted
    <3> QED BY <2>7, <3>1, LeaveFlow
  <2> QED BY <1>1, <2>3, <2>4, <2>6, <2>7 DEF AttStep
<1>3. CASE abandon(e) /\ att' = att
  <2>1. Flows(e)
    BY <1>3, AbandonIs, LeaveFlow
  <2> QED BY <1>1, <1>3, <2>1 DEF AttStep
<1> QED BY <1>2, <1>3 DEF CommitTransition

----------------------------------------------------------------------------
(* The ways from one step to the next. *)

\* Where a controller goes once its write has reached the state s.
Lands(e, s, q) ==
    \/ proc[e].pc = "reserve" /\ s = "Reserved" /\ q = "reserved"
    \/ proc[e].pc = "start" /\ s = "SessionStarting" /\ q = "started" /\ att' # att
    \/ proc[e].pc = "plan" /\ s = "Planned" /\ q = "planned"
    \/ proc[e].pc = "submit" /\ s = "Submitting" /\ q = "submitting"
    \/ proc[e].pc \in {"requeue", "unsent"} /\ s = "Reserved" /\ q = "requeued"
    \/ proc[e].pc = "accept" /\ s = "Accepted" /\ q = "run"
    \/ proc[e].pc = "run" /\ s = "Running" /\ q = "running"
    \/ proc[e].pc = "settle" /\ s = "Settling" /\ q = IF proc[e].rec THEN "succeed" ELSE "settling"
    \/ proc[e].pc = "succeed" /\ s = "Succeeded" /\ q = IF proc[e].rec THEN "enqueue" ELSE "succeeded"
    \/ proc[e].pc = "finish" /\ s = proc[e].goal /\ q = "enqueue"
    \/ proc[e].pc = "finish" /\ s = "SubmittedUnknown" /\ q = "finish"

\* After a commit, or on finding it done, a controller goes where the new state lets it.
LEMMA LandFlow ==
    ASSUME TypeOK, VersionInv, NEW e \in Controllers, NEW q, Goes(e, q), Lands(e, att'.state, q)
    PROVE  Flows(e)
<1>1. Moves(e) /\ proc'[e].pc = q /\ proc'[e].ver = 0 /\ proc'[e].goal = proc[e].goal /\ proc'[e].rec = proc[e].rec /\ Shape(proc[e])
  BY DEF Goes, VersionInv
<1>2. LocalFlow(e)
  BY SMTT(60), <1>1 DEF LocalFlow, Shape, Lands, Writers, RecPCs, Done, Terminal
<1>3. BoundaryFlow(e)
  BY SMTT(60), <1>1 DEF BoundaryFlow, Lands, Owned, Bound, Sent, Back, PreSubmission
<1>4. EvidenceFlow(e)
  BY SMTT(60), <1>1 DEF EvidenceFlow, Lands, Heard, Done, Kept
<1>5. ProjectionFlow(e)
  BY SMTT(60), <1>1 DEF ProjectionFlow, Shape, Lands, Past, Sent, Heard, Done, Submitted
<1> QED BY <1>2, <1>3, <1>4, <1>5 DEF Flows

\* Where a controller goes without a write.
Hops(e, q) ==
    \/ proc[e].pc = "idle" /\ q = "reserve"
    \/ proc[e].pc = "reserve" /\ q = "requeue"
    \/ proc[e].pc = "reserved" /\ q = "start"
    \/ proc[e].pc = "started" /\ q = "plan"
    \/ proc[e].pc = "planned" /\ q = "session"
    \/ proc[e].pc = "session" /\ q = "requeue"
    \/ proc[e].pc = "session" /\ q = "submit" /\ e = rt.epoch /\ att.state \in PreSubmission
    \/ proc[e].pc = "submitting" /\ q = "send"
    \/ proc[e].pc = "send" /\ q = "unsent"
    \/ proc[e].pc = "await" /\ q \in {"send", "unsent"} /\ answer[e] = "limited"
    \/ proc[e].pc = "await" /\ q = "accept" /\ answer[e] = "accepted"
    \/ proc[e].pc \in {"await", "stream"} /\ q = "broken"
    \/ proc[e].pc = "running" /\ q = "stream"
    \/ proc[e].pc = "settling" /\ q = "result"
    \/ proc[e].pc = "result" /\ q = "lifecycle" /\ result'
    \/ proc[e].pc = "lifecycle" /\ q = "succeed"
    \/ proc[e].pc = "succeeded" /\ q = "enqueue"
    \/ proc[e].pc = "finish" /\ q = "enqueue" /\ proc[e].goal = "OutcomeUnknown" /\ att.state \notin Submitted
    \/ proc[e].pc = "enqueue" /\ q = "project" /\ proj' = proc[e].goal
    \/ proc[e].pc \in {"project", "recover"} /\ q = "raise"

\* A controller that goes on without writing.
LEMMA HopFlow ==
    ASSUME TypeOK, VersionInv, NEW e \in Controllers, NEW q, Goes(e, q), att' = att, Hops(e, q)
    PROVE  Flows(e)
<1>1. Moves(e) /\ proc'[e].pc = q /\ proc'[e].ver = 0 /\ proc'[e].goal = proc[e].goal /\ proc'[e].rec = proc[e].rec /\ Shape(proc[e])
  BY DEF Goes, VersionInv
<1>2. LocalFlow(e)
  BY SMTT(60), <1>1 DEF LocalFlow, Shape, Hops, Writers, RecPCs, Done, Terminal
<1>3. BoundaryFlow(e)
  BY SMTT(60), <1>1 DEF BoundaryFlow, Hops, Owned, Bound, Sent, Back
<1>4. EvidenceFlow(e)
  BY SMTT(60), <1>1 DEF EvidenceFlow, Hops, Heard, Done, Kept
<1>5. ProjectionFlow(e)
  BY SMTT(60), <1>1 DEF ProjectionFlow, Shape, Hops, Past, Sent, Heard, Done, Submitted
<1> QED BY <1>2, <1>3, <1>4, <1>5 DEF Flows

\* Where a controller goes with a new goal g.
Turns(e, q, g) ==
    \/ proc[e].pc = "stream" /\ q = "receipt" /\ g = "Succeeded"
    \/ proc[e].pc = "recover" /\ q = "readmit" /\ g \in {"Queued", "Reserved"}
    \/ proc[e].pc = "recover" /\ q = "succeed" /\ g = "Succeeded" /\ journal # "none" /\ receipt' /\ result'
    \/ proc[e].pc \in {"idle", "recover"} /\ q = "enqueue" /\ g = att.state /\ g \in Terminal

\* A controller that takes a new goal.
LEMMA TurnFlow ==
    ASSUME TypeOK, VersionInv, NEW e \in Controllers, NEW q, NEW g, att' = att, Turns(e, q, g),
           Moves(e), proc'[e].pc = q, proc'[e].ver = proc[e].ver, proc'[e].goal = g, proc'[e].rec = proc[e].rec
    PROVE  Flows(e)
<1>1. Shape(proc[e])
  BY DEF VersionInv
<1>2. LocalFlow(e)
  BY SMTT(60), <1>1 DEF LocalFlow, Shape, Turns, Writers, RecPCs, Done, Terminal
<1>3. BoundaryFlow(e)
  BY SMTT(60) DEF BoundaryFlow, Turns, Owned, Bound, Sent, Back
<1>4. EvidenceFlow(e)
  BY SMTT(60) DEF EvidenceFlow, Turns, Heard, Done, Kept
<1>5. ProjectionFlow(e)
  BY SMTT(60) DEF ProjectionFlow, Turns, Past, Sent, Heard
<1> QED BY <1>2, <1>3, <1>4, <1>5 DEF Flows

\* Where a controller goes with the version it has just read, and the goal g.
Picks(e, q, g) ==
    \/ proc[e].pc = "receipt" /\ q = "settle" /\ att.state = "Running" /\ g = proc[e].goal /\ receipt'
    \/ /\ proc[e].pc = "recover" /\ q = "settle" /\ att.state \in {"Accepted", "Running"} /\ g = "Succeeded"
       /\ journal # "none" /\ receipt' /\ result'
    \/ proc[e].pc = "recover" /\ q = "requeue" /\ att.state \in {"SessionStarting", "Planned"} /\ g = proc[e].goal

\* A controller that goes on with a version it has just read.
LEMMA PickFlow ==
    ASSUME TypeOK, VersionInv, NEW e \in Controllers, NEW q, NEW g, att' = att, Picks(e, q, g), e = epoch,
           Moves(e), proc'[e].pc = q, proc'[e].ver = att.ver, proc'[e].goal = g, proc'[e].rec = proc[e].rec
    PROVE  Flows(e)
<1>1. Shape(proc[e])
  BY DEF VersionInv
<1>2. LocalFlow(e)
  BY SMTT(60), <1>1 DEF LocalFlow, Shape, Picks, Writable, Writers, RecPCs, Done, Terminal
<1>3. BoundaryFlow(e)
  BY SMTT(60) DEF BoundaryFlow, Picks, Owned, Bound, Sent, Back
<1>4. EvidenceFlow(e)
  BY SMTT(60), <1>1 DEF EvidenceFlow, Picks, Shape, RecPCs, Heard, Done, Kept
<1>5. ProjectionFlow(e)
  BY SMTT(60) DEF ProjectionFlow, Picks, Past, Sent, Heard
<1> QED BY <1>2, <1>3, <1>4, <1>5 DEF Flows

\* A step of something else than the dispatch of this Task.
LEMMA StayFlow ==
    ASSUME TypeOK, VersionInv, NEW e \in Controllers, proc[e].pc # "down", proc' = proc, att' = att, answer' = answer
    PROVE  Flows(e)
<1>1. Moves(e) /\ proc'[e] = proc[e] /\ Shape(proc[e])
  BY ProcType DEF Moves, VersionInv
<1>2. LocalFlow(e)
  BY <1>1 DEF LocalFlow
<1>3. BoundaryFlow(e)
  BY <1>1 DEF BoundaryFlow, Back
<1>4. EvidenceFlow(e)
  BY <1>1 DEF EvidenceFlow
<1>5. ProjectionFlow(e)
  BY <1>1 DEF ProjectionFlow
<1> QED BY <1>2, <1>3, <1>4, <1>5 DEF Flows

----------------------------------------------------------------------------
(* The steps of a controller. *)

\* A read for a write or the write, with the step it leads to.
Transition(e, from, to, next) == ReadForTransition(e, from, to, next) \/ CommitTransition(e, to, next)

\* A transition: a read for the write, or the compare-and-swap itself.
LEMMA TransitionStep ==
    ASSUME TypeOK, VersionInv, NEW e \in Controllers, NEW from, NEW to, NEW next \in PCs, next # "idle", proc[e].pc # "down",
           Transition(e, from, to, next), Frame, task' = task,
           Target(proc[e].pc, to), \A s \in from : Writable(proc[e], s),
           (att' # att \/ (att.state = to /\ proc[e].ver = 0)) => Lands(e, to, next)
    PROVE  TypeOK' /\ ProcStep(e)
<1>1. answer' = answer /\ task' \in TaskRec /\ task'.outcome = task.outcome /\ faults \in 0 .. MaxFaults
  BY DEF Frame, runtimeVars, TypeOK, TaskRec
<1>2. CASE ReadForTransition(e, from, to, next)
  <2>1. att' = att /\ faults' = faults /\ (Flows(e) \/ (Goes(e, next) /\ att.state = to)) /\ proc[e].ver = 0
    BY <1>1, <1>2, ReadEnds DEF ReadForTransition
  <2>2. Flows(e)
    BY <2>1, LandFlow
  <2> QED BY <1>1, <2>1, <2>2, FrameStep DEF AttStep
<1>3. CASE CommitTransition(e, to, next)
  <2>1. AttStep(e) /\ faults' \in 0 .. MaxFaults /\ (Flows(e) \/ (Goes(e, next) /\ att'.state = to /\ att' # att))
    BY <1>3, CommitEnds
  <2>2. Flows(e)
    BY <2>1, LandFlow
  <2> QED BY <1>1, <2>1, <2>2, FrameStep
<1> QED BY <1>2, <1>3 DEF Transition

\* patchExecution and patchReserved: the Task's execution state, and then the next step.
LEMMA PatchStep ==
    ASSUME TypeOK, VersionInv, NEW e \in Controllers, NEW next \in PCs, proc[e].pc # "down", Frame, att' = att,
           \/ goto(e, next) /\ faults' = faults /\ task' \in TaskRec /\ task'.outcome = task.outcome
           \/ (abandon(e) \/ drop(e)) /\ Fault /\ task' = task,
           next # "idle" => Hops(e, next)
    PROVE  TypeOK' /\ ProcStep(e)
<1>1. task' \in TaskRec /\ task'.outcome = task.outcome
  BY DEF TypeOK, TaskRec
<1>2. faults' \in 0 .. MaxFaults
  BY FaultType
<1>3. Leaves(e) \/ (Goes(e, next) /\ Hops(e, next))
  BY GotoIs, AbandonIs, DropIs
<1>4. Flows(e)
  BY <1>3, LeaveFlow, HopFlow
<1> QED BY <1>1, <1>2, <1>4, FrameStep DEF AttStep

\* The writes that lead to the next step.
LEMMA WriteSteps ==
    ASSUME TypeOK, VersionInv, NEW e \in Controllers,
           StartSession(e) \/ Plan(e) \/ Submit(e) \/ requeuePreSubmissionTask(e) \/ Accept(e) \/ Run(e) \/ Settle(e) \/ Succeed(e)
    PROVE  TypeOK' /\ ProcStep(e)
<1> DEFINE Goal(from, to, next) ==
             /\ next \in PCs /\ next # "idle" /\ proc[e].pc # "down" /\ Target(proc[e].pc, to)
             /\ Transition(e, from, to, next) /\ Frame /\ task' = task
             /\ \A s \in from : Writable(proc[e], s)
             /\ (att' # att \/ (att.state = to /\ proc[e].ver = 0)) => Lands(e, to, next)
<1>0. ASSUME NEW from, NEW to, NEW next, Goal(from, to, next)
      PROVE  TypeOK' /\ ProcStep(e)
  BY <1>0, TransitionStep
<1>1. CASE StartSession(e)
  <2>1. proc[e].pc = "start" /\ Frame /\ task' = task /\ (proc[e].ver = 0 => att.state = "Reserved")
        /\ Transition(e, {"Reserved"}, "SessionStarting", "started")
    BY <1>1 DEF StartSession, transitionAttempt, Frame, Transition
  <2>2. "started" \in PCs /\ Target("start", "SessionStarting")
    BY SMTT(60) DEF PCs, Target, Writers, States, PreSubmission, Submitted, Terminal
  <2>3. Goal({"Reserved"}, "SessionStarting", "started")
    BY <2>1, <2>2 DEF Writable, Lands
  <2> HIDE DEF Goal
  <2> QED BY <1>0, <2>3
<1>2. CASE Plan(e)
  <2>1. proc[e].pc = "plan" /\ Frame /\ task' = task /\ Transition(e, {"SessionStarting"}, "Planned", "planned")
    BY <1>2 DEF Plan, transitionAttempt, Frame, Transition
  <2>2. "planned" \in PCs /\ Target("plan", "Planned")
    BY SMTT(60) DEF PCs, Target, Writers, States, PreSubmission, Submitted, Terminal
  <2>3. Goal({"SessionStarting"}, "Planned", "planned")
    BY <2>1, <2>2 DEF Writable, Lands
  <2> HIDE DEF Goal
  <2> QED BY <1>0, <2>3
<1>3. CASE Submit(e)
  <2>1. proc[e].pc = "submit" /\ Frame /\ task' = task /\ Transition(e, {"Planned"}, "Submitting", "submitting")
    BY <1>3 DEF Submit, transitionAttempt, Frame, Transition
  <2>2. "submitting" \in PCs /\ Target("submit", "Submitting")
    BY SMTT(60) DEF PCs, Target, Writers, States, PreSubmission, Submitted, Terminal
  <2>3. Goal({"Planned"}, "Submitting", "submitting")
    BY <2>1, <2>2 DEF Writable, Lands
  <2> HIDE DEF Goal
  <2> QED BY <1>0, <2>3
<1>4. CASE requeuePreSubmissionTask(e)
  <2>1. proc[e].pc = "requeue" /\ Frame /\ task' = task /\ Transition(e, {"SessionStarting", "Planned"}, "Reserved", "requeued")
    BY <1>4 DEF requeuePreSubmissionTask, Frame, Transition
  <2>2. "requeued" \in PCs /\ Target("requeue", "Reserved")
    BY SMTT(60) DEF PCs, Target, Writers, States, PreSubmission, Submitted, Terminal
  <2>3. Goal({"SessionStarting", "Planned"}, "Reserved", "requeued")
    BY <2>1, <2>2 DEF Writable, Lands
  <2> HIDE DEF Goal
  <2> QED BY <1>0, <2>3
<1>5. CASE Accept(e)
  <2>1. proc[e].pc = "accept" /\ Frame /\ task' = task /\ Transition(e, {"Submitting"}, "Accepted", "run")
    BY <1>5 DEF Accept, transitionAttempt, Frame, Transition
  <2>2. "run" \in PCs /\ Target("accept", "Accepted")
    BY SMTT(60) DEF PCs, Target, Writers, States, PreSubmission, Submitted, Terminal
  <2>3. Goal({"Submitting"}, "Accepted", "run")
    BY <2>1, <2>2 DEF Writable, Lands
  <2> HIDE DEF Goal
  <2> QED BY <1>0, <2>3
<1>6. CASE Run(e)
  <2>1. proc[e].pc = "run" /\ Frame /\ task' = task /\ Transition(e, {"Accepted"}, "Running", "running")
    BY <1>6 DEF Run, transitionAttempt, Frame, Transition
  <2>2. "running" \in PCs /\ Target("run", "Running")
    BY SMTT(60) DEF PCs, Target, Writers, States, PreSubmission, Submitted, Terminal
  <2>3. Goal({"Accepted"}, "Running", "running")
    BY <2>1, <2>2 DEF Writable, Lands
  <2> HIDE DEF Goal
  <2> QED BY <1>0, <2>3
<1>7. CASE Settle(e)
  <2> DEFINE q == IF proc[e].rec THEN "succeed" ELSE "settling"
  <2>1. proc[e].pc = "settle" /\ Frame /\ task' = task /\ Transition(e, {}, "Settling", q)
    BY <1>7 DEF Settle, Frame, Transition
  <2>2. q \in PCs /\ q # "idle" /\ Target("settle", "Settling")
    BY SMTT(60) DEF PCs, Target, Writers, States, PreSubmission, Submitted, Terminal
  <2>3. Lands(e, "Settling", q)
    BY <2>1 DEF Lands
  <2> HIDE DEF q
  <2>4. Goal({}, "Settling", q)
    BY <2>1, <2>2, <2>3
  <2> HIDE DEF Goal
  <2> QED BY <1>0, <2>4
<1>8. CASE Succeed(e)
  <2> DEFINE q == IF proc[e].rec THEN "enqueue" ELSE "succeeded"
  <2>1. proc[e].pc = "succeed" /\ Frame /\ task' = task /\ Transition(e, {"Settling"}, "Succeeded", q)
    BY <1>8 DEF Succeed, transitionAttempt, Frame, Transition
  <2>2. q \in PCs /\ q # "idle" /\ Target("succeed", "Succeeded")
    BY SMTT(60) DEF PCs, Target, Writers, States, PreSubmission, Submitted, Terminal
  <2>3. Lands(e, "Succeeded", q)
    BY <2>1 DEF Lands
  <2> HIDE DEF q
  <2>4. Goal({"Settling"}, "Succeeded", q)
    BY <2>1, <2>2, <2>3 DEF Writable
  <2> HIDE DEF Goal
  <2> QED BY <1>0, <2>4
<1> QED BY <1>1, <1>2, <1>3, <1>4, <1>5, <1>6, <1>7, <1>8

\* Patches of the Task's execution state.
TaskAt(st) == [task EXCEPT !.state = st]
TaskUnder(st, e) == [task EXCEPT !.state = st, !.epoch = e]

\* The Task after a status patch.
LEMMA TaskAtIs ==
    ASSUME TypeOK, NEW st \in States, NEW e \in Controllers
    PROVE  /\ TaskAt(st) \in TaskRec /\ TaskAt(st).outcome = task.outcome
           /\ TaskUnder(st, e) \in TaskRec /\ TaskUnder(st, e).outcome = task.outcome
<1> DEFINE a == [task EXCEPT !.state = st]
           b == [a EXCEPT !.epoch = e]
<1>1. task \in TaskRec /\ TaskAt(st) = a /\ TaskUnder(st, e) = b
  BY Types DEF TaskAt, TaskUnder
<1>2. a \in TaskRec /\ a.outcome = task.outcome
  BY <1>1 DEF TaskRec
<1> HIDE DEF a
<1>3. b \in TaskRec /\ b.outcome = task.outcome
  BY <1>2 DEF TaskRec
<1> HIDE DEF b
<1> QED BY <1>1, <1>2, <1>3

\* The Task patches that follow the attempt's transitions.
LEMMA PatchSteps ==
    ASSUME TypeOK, VersionInv, NEW e \in Controllers,
           \/ Reserved(e) \/ SessionStarted(e) \/ Planned(e) \/ Submitting(e) \/ Requeued(e)
           \/ Running(e) \/ Settling(e) \/ Succeeded(e) \/ Readmit(e)
    PROVE  TypeOK' /\ ProcStep(e)
<1>0. ASSUME NEW here, NEW st \in States, NEW next \in PCs, here # "down", next # "idle" => Hops(e, next),
             patchExecution(e, here, st, next)
      PROVE  TypeOK' /\ ProcStep(e)
  <2>1. /\ proc[e].pc # "down" /\ Frame /\ att' = att
        /\ \/ goto(e, next) /\ faults' = faults /\ task' = TaskAt(st)
           \/ abandon(e) /\ Fault /\ task' = task
    BY <1>0 DEF patchExecution, Frame, TaskAt
  <2> QED BY <1>0, <2>1, TaskAtIs, PatchStep
<1>a. ASSUME NEW here, NEW st \in States, NEW next \in PCs, here # "down", next # "idle" => Hops(e, next),
             patchReserved(e, here, st, next)
      PROVE  TypeOK' /\ ProcStep(e)
  <2>1. /\ proc[e].pc # "down" /\ Frame /\ att' = att
        /\ \/ goto(e, next) /\ faults' = faults /\ task' = TaskUnder(st, e)
           \/ drop(e) /\ Fault /\ task' = task
    BY <1>a DEF patchReserved, Frame, TaskUnder
  <2> QED BY <1>a, <2>1, TaskAtIs, PatchStep
<1>1. CASE Reserved(e)
  <2>1. patchReserved(e, "reserved", "Reserved", "start") /\ Hops(e, "start")
    BY <1>1 DEF Reserved, patchReserved, Hops
  <2>2. "Reserved" \in States /\ "start" \in PCs
    BY DEF States, PreSubmission, PCs
  <2> QED BY <1>a, <2>1, <2>2
<1>2. CASE Requeued(e)
  <2>1. patchReserved(e, "requeued", "Reserved", "idle")
    BY <1>2 DEF Requeued
  <2>2. "Reserved" \in States /\ "idle" \in PCs
    BY DEF States, PreSubmission, PCs
  <2> QED BY <1>a, <2>1, <2>2
<1>3. CASE Readmit(e)
  <2>1. patchReserved(e, "readmit", proc[e].goal, "idle") /\ proc[e].pc = "readmit"
    BY <1>3 DEF Readmit, patchReserved
  <2>2. proc[e].goal \in States /\ "idle" \in PCs
    BY <2>1 DEF VersionInv, Shape, States, PreSubmission, PCs
  <2> QED BY <1>a, <2>1, <2>2
<1>4. CASE SessionStarted(e)
  <2>1. patchExecution(e, "started", "SessionStarting", "plan") /\ Hops(e, "plan")
    BY <1>4 DEF SessionStarted, patchExecution, Hops
  <2>2. "SessionStarting" \in States /\ "plan" \in PCs
    BY DEF States, PreSubmission, Submitted, Terminal, PCs
  <2> QED BY <1>0, <2>1, <2>2
<1>5. CASE Planned(e)
  <2>1. patchExecution(e, "planned", "Planned", "session") /\ Hops(e, "session")
    BY <1>5 DEF Planned, patchExecution, Hops
  <2>2. "Planned" \in States /\ "session" \in PCs
    BY DEF States, PreSubmission, Submitted, Terminal, PCs
  <2> QED BY <1>0, <2>1, <2>2
<1>6. CASE Submitting(e)
  <2>1. patchExecution(e, "submitting", "Submitting", "send") /\ Hops(e, "send")
    BY <1>6 DEF Submitting, patchExecution, Hops
  <2>2. "Submitting" \in States /\ "send" \in PCs
    BY DEF States, PreSubmission, Submitted, Terminal, PCs
  <2> QED BY <1>0, <2>1, <2>2
<1>7. CASE Running(e)
  <2>1. patchExecution(e, "running", "Running", "stream") /\ Hops(e, "stream")
    BY <1>7 DEF Running, patchExecution, Hops
  <2>2. "Running" \in States /\ "stream" \in PCs
    BY DEF States, PreSubmission, Submitted, Terminal, PCs
  <2> QED BY <1>0, <2>1, <2>2
<1>8. CASE Settling(e)
  <2>1. patchExecution(e, "settling", "Settling", "result") /\ Hops(e, "result")
    BY <1>8 DEF Settling, patchExecution, Hops
  <2>2. "Settling" \in States /\ "result" \in PCs
    BY DEF States, PreSubmission, Submitted, Terminal, PCs
  <2> QED BY <1>0, <2>1, <2>2
<1>9. CASE Succeeded(e)
  <2>1. patchExecution(e, "succeeded", "Succeeded", "enqueue") /\ Hops(e, "enqueue")
    BY <1>9 DEF Succeeded, patchExecution, Hops
  <2>2. "Succeeded" \in States /\ "enqueue" \in PCs
    BY DEF States, PreSubmission, Submitted, Terminal, PCs
  <2> QED BY <1>0, <2>1, <2>2
<1> QED BY <1>1, <1>2, <1>3, <1>4, <1>5, <1>6, <1>7, <1>8, <1>9

\* The writes with a choice before them.
LEMMA ReserveStep ==
    ASSUME TypeOK, VersionInv, NEW e \in Controllers, Reserve(e)
    PROVE  TypeOK' /\ ProcStep(e)
<1>1. proc[e].pc = "reserve" /\ Frame /\ task' = task
  BY DEF Reserve, Frame
<1>2. CASE att' = att /\ faults' = faults /\ (goto(e, "requeue") \/ drop(e))
  <2>1. task' \in TaskRec /\ task'.outcome = task.outcome /\ faults' \in 0 .. MaxFaults
    BY <1>1, <1>2, Types
  <2>2. "requeue" \in PCs /\ Hops(e, "requeue")
    BY <1>1 DEF PCs, Hops
  <2>3. Leaves(e) \/ Goes(e, "requeue")
    BY <1>1, <1>2, <2>2, GotoIs, DropIs
  <2>4. Flows(e)
    BY <1>2, <2>2, <2>3, LeaveFlow, HopFlow
  <2> QED BY <1>1, <1>2, <2>1, <2>4, FrameStep DEF AttStep
<1>3. CASE Transition(e, {"Queued"}, "Reserved", "reserved")
  <2>1. "reserved" \in PCs /\ Target(proc[e].pc, "Reserved") /\ Lands(e, "Reserved", "reserved")
    BY SMTT(60), <1>1 DEF PCs, Target, Writers, States, PreSubmission, Submitted, Terminal, Lands
  <2>2. \A s \in {"Queued"} : Writable(proc[e], s)
    BY <1>1 DEF Writable
  <2> QED BY SMTT(60), <1>1, <1>3, <2>1, <2>2, TransitionStep
<1> QED BY <1>2, <1>3 DEF Reserve, Transition

\* requeueProvenNotAccepted puts the attempt back before the boundary.
LEMMA UnsentStep ==
    ASSUME TypeOK, VersionInv, NEW e \in Controllers, requeueProvenNotAccepted(e)
    PROVE  TypeOK' /\ ProcStep(e)
<1>1. proc[e].pc = "unsent" /\ Frame /\ task' = task
  BY DEF requeueProvenNotAccepted, Frame
<1>2. CASE att' = att /\ faults' = faults /\ (drop(e) \/ (att.state = "Submitting" /\ e = epoch /\ proc' = [proc EXCEPT ![e].ver = att.ver]))
  <2>1. task' \in TaskRec /\ task'.outcome = task.outcome /\ faults' \in 0 .. MaxFaults /\ answer' = answer
    BY <1>1, <1>2, Types DEF Frame, runtimeVars
  <2>2. Leaves(e) \/ Reads(e)
    <3>1. Writable(proc[e], "Submitting")
      BY <1>1 DEF Writable
    <3> QED BY <1>1, <1>2, <3>1, DropIs, ReadIs DEF SetVer
  <2>3. Flows(e)
    BY <1>2, <2>1, <2>2, LeaveFlow, ReadFlow
  <2> QED BY <1>1, <1>2, <2>1, <2>3, FrameStep DEF AttStep
<1>3. CASE Transition(e, {}, "Reserved", "requeued")
  <2>1. "requeued" \in PCs /\ Target(proc[e].pc, "Reserved") /\ Lands(e, "Reserved", "requeued")
    BY SMTT(60), <1>1 DEF PCs, Target, Writers, States, PreSubmission, Submitted, Terminal, Lands
  <2> QED BY SMTT(60), <1>1, <1>3, <2>1, TransitionStep
<1> QED BY <1>2, <1>3 DEF requeueProvenNotAccepted, Transition

\* A step that leaves the attempt and the Task alone.
LEMMA QuietStep ==
    ASSUME TypeOK, NEW e \in Controllers, Flows(e), Frame, task' = task, att' = att, Fault \/ faults' = faults
    PROVE  TypeOK' /\ ProcStep(e)
<1>1. task' \in TaskRec /\ task'.outcome = task.outcome
  BY Types
<1> QED BY <1>1, FaultType, FrameStep DEF AttStep

\* From a settled attempt no transition leads on; from one that is past the boundary a
\* transition leads to what persistOutcomeUnknown writes.
LEMMA Transitions ==
    /\ \A s \in Terminal : promptExecutionTransitions[s] = {}
    /\ "SubmittedUnknown" \in promptExecutionTransitions["Submitting"]
    /\ \A s \in Submitted \ {"Submitting"} : "OutcomeUnknown" \in promptExecutionTransitions[s]
BY SMTT(60) DEF promptExecutionTransitions, States, PreSubmission, Submitted, Terminal

\* The settling write of a failed, cancelled or unknown outcome.
LEMMA FinishStep ==
    ASSUME TypeOK, VersionInv, NEW e \in Controllers, Finish(e)
    PROVE  TypeOK' /\ ProcStep(e)
<1> DEFINE to == FinishTarget(e)
           next == IF to = "SubmittedUnknown" THEN "finish" ELSE "enqueue"
<1>1. /\ proc[e].pc = "finish" /\ Frame /\ task' = task /\ proc[e].goal \in {"Failed", "Cancelled", "OutcomeUnknown"}
      /\ att.state \in States /\ answer' = answer
  BY Types DEF Finish, Frame, VersionInv, Shape, AttRec, runtimeVars
<1>2. "enqueue" \in PCs /\ "finish" \in PCs
  BY DEF PCs
<1>3. CASE to \in promptExecutionTransitions[att.state] /\ e = epoch /\ proc' = [proc EXCEPT ![e].ver = att.ver] /\ att' = att /\ faults' = faults
  <2>1. Writable(proc[e], att.state)
    BY <1>1, <1>3, Transitions DEF Writable
  <2>2. Reads(e)
    BY <1>1, <1>3, <2>1, ReadIs DEF SetVer
  <2> QED BY <1>1, <1>3, <2>2, ReadFlow, QuietStep
<1>4. CASE drop(e) /\ att' = att /\ faults' = faults
  BY <1>1, <1>4, DropIs, LeaveFlow, QuietStep
<1>5. CASE /\ to \notin promptExecutionTransitions[att.state]
           /\ att.state = proc[e].goal \/ proc[e].goal = "OutcomeUnknown"
           /\ goto(e, "enqueue") /\ att' = att /\ faults' = faults
  <2>1. Goes(e, "enqueue")
    BY <1>1, <1>2, <1>5, GotoIs
  <2>2. CASE att.state = proc[e].goal
    <3>1. Lands(e, att'.state, "enqueue")
      BY <1>1, <1>5, <2>2 DEF Lands
    <3> QED BY <1>1, <1>5, <2>1, <3>1, LandFlow, QuietStep
  <2>3. CASE att.state # proc[e].goal
    <3>1. proc[e].goal = "OutcomeUnknown" /\ att.state \notin Submitted
      BY <1>5, <2>3, Transitions DEF FinishTarget
    <3>2. Hops(e, "enqueue")
      BY <1>1, <3>1 DEF Hops
    <3> QED BY <1>1, <1>5, <2>1, <3>2, HopFlow, QuietStep
  <2> QED BY <2>2, <2>3
<1>6. CASE CommitTransition(e, to, next)
  <2>1. to \in {"Failed", "Cancelled", "OutcomeUnknown", "SubmittedUnknown"} /\ (to # "SubmittedUnknown" => to = proc[e].goal)
    BY <1>1 DEF FinishTarget
  <2> HIDE DEF to
  <2>2. next \in PCs /\ next # "idle" /\ Lands(e, to, next)
    BY SMTT(60), <1>1, <2>1 DEF PCs, Lands
  <2>3. Target(proc[e].pc, to)
    BY SMTT(60), <1>1, <2>1 DEF Target, Writers, States, PreSubmission, Submitted, Terminal
  <2> HIDE DEF next
  <2>4. Transition(e, {}, to, next)
    BY <1>6 DEF Transition
  <2> QED BY SMTT(60), <1>1, <2>2, <2>3, <2>4, TransitionStep
<1> QED BY <1>3, <1>4, <1>5, <1>6 DEF Finish

\* The steps up to the request that only move on, give up or settle.
LEMMA PickUpStep ==
    ASSUME TypeOK, VersionInv, NEW e \in Controllers, PickUp(e)
    PROVE  TypeOK' /\ ProcStep(e)
<1>1. /\ proc[e].pc = "idle" /\ Frame /\ task' = task /\ att' = att /\ faults' = faults
      /\ settleOn(e, "Cancelled") \/ goto(e, "reserve")
  BY DEF PickUp, Frame
<1>2. "reserve" \in PCs /\ "Cancelled" \in Terminal /\ Hops(e, "reserve")
  BY <1>1 DEF PCs, Terminal, Hops
<1>3. Settles(e, "Cancelled") \/ Goes(e, "reserve")
  BY <1>1, <1>2, SettleIs, GotoIs
<1>4. Flows(e)
  BY <1>1, <1>2, <1>3, SettleFlow, HopFlow
<1> QED BY <1>1, <1>4, QuietStep

\* Creating the runtime session, or failing to.
LEMMA CreateSessionStep ==
    ASSUME TypeOK, VersionInv, NEW e \in Controllers, CreateSession(e)
    PROVE  TypeOK' /\ ProcStep(e)
<1>1. /\ proc[e].pc = "session" /\ Frame /\ task' = task /\ att' = att /\ (Fault \/ faults' = faults)
      /\ \/ settleOn(e, "Cancelled") \/ settleOn(e, "Failed") \/ drop(e) \/ goto(e, "requeue")
         \/ rt.epoch = e /\ att.state = "Planned" /\ proc' = [proc EXCEPT ![e].pc = "submit", ![e].boot = rt.boot]
  BY DEF CreateSession, Frame
<1>2. "requeue" \in PCs /\ "submit" \in PCs /\ "Cancelled" \in Terminal /\ "Failed" \in Terminal /\ Hops(e, "requeue")
  BY <1>1 DEF PCs, Terminal, Hops
<1>3. CASE settleOn(e, "Cancelled") \/ settleOn(e, "Failed") \/ drop(e) \/ goto(e, "requeue")
  <2>1. Settles(e, "Cancelled") \/ Settles(e, "Failed") \/ Leaves(e) \/ Goes(e, "requeue")
    BY <1>1, <1>2, <1>3, SettleIs, DropIs, GotoIs
  <2>2. Flows(e)
    BY <1>1, <1>2, <2>1, SettleFlow, LeaveFlow, HopFlow
  <2> QED BY <1>1, <2>2, QuietStep
<1>4. CASE rt.epoch = e /\ att.state = "Planned" /\ proc' = [proc EXCEPT ![e].pc = "submit", ![e].boot = rt.boot]
  <2> DEFINE f == SetPc(proc, e, "submit")
  <2>1. proc \in [Controllers -> ProcRec] /\ rt.boot \in 0 .. MaxBoot
    <3>1. rt \in RtRec /\ proc \in [Controllers -> ProcRec]
      BY Types
    <3> QED BY SMTT(60), <3>1 DEF RtRec
  <2>2. proc' = SetBoot(f, e, rt.boot)
    BY <1>4 DEF SetPc, SetBoot
  <2>3. Wrote(proc, f, e) /\ f[e].pc = "submit" /\ f[e].ver = proc[e].ver /\ f[e].goal = proc[e].goal /\ f[e].rec = proc[e].rec
    BY <1>2, <2>1, SetPcIs
  <2> HIDE DEF f
  <2>4. f \in [Controllers -> ProcRec]
    BY <2>3 DEF Wrote
  <2>5. /\ Wrote(f, proc', e) /\ proc'[e].pc = f[e].pc /\ proc'[e].ver = f[e].ver
        /\ proc'[e].goal = f[e].goal /\ proc'[e].rec = f[e].rec
    BY <2>1, <2>2, <2>4, SetBootIs
  <2>6. proc[e].ver = 0
    BY SMTT(60), <1>1 DEF VersionInv, Shape, Writers
  <2>7. Goes(e, "submit")
    BY <1>1, <2>3, <2>5, <2>6 DEF Goes, Moves, Wrote
  <2>8. Hops(e, "submit")
    BY <1>1, <1>4 DEF Hops, PreSubmission
  <2> QED BY <1>1, <2>7, <2>8, HopFlow, QuietStep
<1> QED BY <1>1, <1>3, <1>4

\* A failed verification, a request that was not sent, a broken stream.
LEMMA MoveSteps ==
    ASSUME TypeOK, VersionInv, NEW e \in Controllers, VerifyFails(e) \/ SendUnsent(e) \/ StreamBreaks(e)
    PROVE  TypeOK' /\ ProcStep(e)
<1>0. "unsent" \in PCs /\ "broken" \in PCs /\ "Cancelled" \in Terminal /\ "Failed" \in Terminal
  BY DEF PCs, Terminal
<1>1. CASE VerifyFails(e)
  <2>1. proc[e].pc = "start" /\ Frame /\ task' = task /\ att' = att /\ faults' = faults /\ drop(e)
    BY <1>1 DEF VerifyFails, Frame
  <2> QED BY <2>1, DropIs, LeaveFlow, QuietStep
<1>2. CASE SendUnsent(e)
  <2>1. /\ proc[e].pc = "send" /\ Frame /\ task' = task /\ att' = att /\ (Fault \/ faults' = faults)
        /\ settleOn(e, "Cancelled") \/ settleOn(e, "Failed") \/ goto(e, "unsent")
    BY <1>2 DEF SendUnsent, Frame
  <2>2. Settles(e, "Cancelled") \/ Settles(e, "Failed") \/ Goes(e, "unsent")
    BY <1>0, <2>1, SettleIs, GotoIs
  <2>3. Hops(e, "unsent")
    BY <2>1 DEF Hops
  <2>4. Flows(e)
    BY <2>1, <2>2, <2>3, SettleFlow, HopFlow
  <2> QED BY <2>1, <2>4, QuietStep
<1>3. CASE StreamBreaks(e)
  <2>1. proc[e].pc \in {"await", "stream"} /\ Frame /\ task' = task /\ att' = att /\ faults' = faults /\ goto(e, "broken")
    BY <1>3 DEF StreamBreaks, Frame
  <2>2. Goes(e, "broken") /\ Hops(e, "broken")
    BY <1>0, <2>1, GotoIs DEF Hops
  <2> QED BY <2>1, <2>2, HopFlow, QuietStep
<1> QED BY <1>1, <1>2, <1>3

\* A step that leaves the attempt, the Task and the outbox alone, and may change the records.
LEMMA RecordStep ==
    ASSUME TypeOK, NEW e \in Controllers, Flows(e), Still, Records(e), UNCHANGED <<att, task, outboxVars, cancel>>,
           Fault \/ faults' = faults, rt' \in RtRec,
           receipt' \in BOOLEAN, result' \in BOOLEAN, journal' \in Journals
    PROVE  TypeOK' /\ ProcStep(e)
<1>1. /\ task' \in TaskRec /\ task' = task /\ proj' \in Terminal \cup {"none"} /\ proj' = proj /\ delivered' \in BOOLEAN
      /\ att' = att /\ cancel' = cancel
  BY Types DEF outboxVars
<1>2. AttStep(e) /\ Tells(e)
  BY <1>1 DEF AttStep, Tells
<1> QED BY <1>1, <1>2, FaultType, WholeStep

\* The answer to the request, as the controller sees it.
LEMMA AnswerStep ==
    ASSUME TypeOK, VersionInv, NEW e \in Controllers, ObserveAnswer(e)
    PROVE  TypeOK' /\ ProcStep(e)
<1>1. /\ proc[e].pc = "await" /\ UNCHANGED <<epoch, att, task, outboxVars, cancel>> /\ receipt' = receipt /\ result' = result
      /\ UNCHANGED runtimeVars /\ faults' = faults
  BY DEF ObserveAnswer
<1>2. Still /\ rt' \in RtRec /\ receipt' \in BOOLEAN /\ result' \in BOOLEAN /\ att' = att
  BY <1>1, Types DEF Still, runtimeVars
<1>3. "accept" \in PCs /\ "send" \in PCs /\ "unsent" \in PCs /\ "broken" \in PCs /\ "Cancelled" \in Terminal /\ "Failed" \in Terminal
  BY DEF PCs, Terminal
<1>4. CASE answer[e] = "accepted" /\ appendAccepted /\ goto(e, "accept")
  <2>1. Goes(e, "accept") /\ Hops(e, "accept")
    BY <1>1, <1>3, <1>4, GotoIs DEF Hops
  <2>2. journal' \in Journals /\ Records(e)
    BY <1>1, <1>4, Types DEF appendAccepted, Journals, Records
  <2>3. Flows(e)
    BY <1>2, <2>1, HopFlow
  <2> QED BY <1>1, <1>2, <2>2, <2>3, RecordStep
<1>5. CASE /\ journal' = journal
           /\ \/ answer[e] = "limited" /\ (goto(e, "send") \/ goto(e, "unsent"))
              \/ settleOn(e, "Cancelled") \/ settleOn(e, "Failed") \/ goto(e, "broken")
  <2>1. (answer[e] = "limited" /\ (Goes(e, "send") \/ Goes(e, "unsent"))) \/ Settles(e, "Cancelled") \/ Settles(e, "Failed") \/ Goes(e, "broken")
    BY <1>1, <1>3, <1>5, GotoIs, SettleIs
  <2>2. Hops(e, "broken") /\ (answer[e] = "limited" => Hops(e, "send") /\ Hops(e, "unsent"))
    BY <1>1 DEF Hops
  <2>3. Flows(e)
    BY <1>2, <2>1, <2>2, HopFlow, SettleFlow
  <2>4. journal' \in Journals /\ Records(e)
    BY <1>1, <1>5, Types DEF Records
  <2> QED BY <1>1, <1>2, <2>3, <2>4, RecordStep
<1> QED BY <1>4, <1>5 DEF ObserveAnswer

\* handlePromptStreamError: the outcome is unknown unless a cancellation learns it.
LEMMA StreamErrorStep ==
    ASSUME TypeOK, VersionInv, NEW e \in Controllers, handlePromptStreamError(e)
    PROVE  TypeOK' /\ ProcStep(e)
<1>1. /\ proc[e].pc = "broken" /\ UNCHANGED <<epoch, att, task, outboxVars, cancel>> /\ receipt' = receipt /\ result' = result
      /\ UNCHANGED <<net, answer, accepts>> /\ att' = att
  BY DEF handlePromptStreamError
<1>2. proc[e].pc \in Past /\ receipt' \in BOOLEAN /\ result' \in BOOLEAN
  BY <1>1, Types DEF Past
<1>3. ASSUME NEW goal \in {"Failed", "Cancelled", "OutcomeUnknown"}, settleOn(e, goal), rt' \in RtRec, rt'.epoch = rt.epoch, rt'.boot = rt.boot,
             Fault \/ faults' = faults, journal' \in Journals, journal' = "none" <=> journal = "none"
      PROVE  TypeOK' /\ ProcStep(e)
  <2>1. goal \in Terminal
    BY <1>3 DEF Terminal
  <2>2. Flows(e)
    BY <1>1, <1>2, <1>3, <2>1, SettleIs, SettleFlow
  <2>3. Still /\ Records(e)
    BY <1>1, <1>3 DEF Still, Records
  <2> QED BY <1>1, <1>2, <1>3, <2>2, <2>3, RecordStep
<1>4. rt \in RtRec /\ journal \in Journals
  BY Types
<1>5. CASE appendTerminalIfAccepted("unknown") /\ settleOn(e, "OutcomeUnknown") /\ UNCHANGED <<rt, faults>>
  <2>1. journal' \in Journals /\ (journal' = "none" <=> journal = "none")
    BY <1>4, <1>5 DEF appendTerminalIfAccepted, Journals
  <2> QED BY <1>3, <1>4, <1>5, <2>1
<1>6. CASE settleOn(e, "Failed") /\ Fault /\ UNCHANGED <<journal, rt>>
  BY <1>3, <1>4, <1>6
<1>7. CASE /\ cancel /\ Reachable(e) /\ rt.prompt # "idle"
           /\ LET settled == IF rt.prompt = "running" THEN "cancelled" ELSE rt.prompt
              IN /\ rt' = [rt EXCEPT !.prompt = settled]
                 /\ appendTerminalIfAccepted(settled)
                 /\ settleOn(e, CASE settled = "cancelled" -> "Cancelled"
                                  [] settled = "failed"    -> "Failed"
                                  [] OTHER                 -> "OutcomeUnknown")
           /\ UNCHANGED faults
  <2> DEFINE settled == IF rt.prompt = "running" THEN "cancelled" ELSE rt.prompt
             goal == CASE settled = "cancelled" -> "Cancelled"
                       [] settled = "failed"    -> "Failed"
                       [] OTHER                 -> "OutcomeUnknown"
  <2>1. settled \in {"completed", "failed", "cancelled"}
    BY <1>4, <1>7 DEF RtRec
  <2>2. rt' = [rt EXCEPT !.prompt = settled] /\ appendTerminalIfAccepted(settled) /\ settleOn(e, goal) /\ faults' = faults
    BY <1>7
  <2> HIDE DEF settled
  <2>3. goal \in {"Failed", "Cancelled", "OutcomeUnknown"}
    BY SMTT(60), <2>1
  <2> HIDE DEF goal
  <2>4. rt' \in RtRec /\ rt'.epoch = rt.epoch /\ rt'.boot = rt.boot
    BY <1>4, <2>1, <2>2 DEF RtRec
  <2>5. journal' \in Journals /\ (journal' = "none" <=> journal = "none")
    BY <1>4, <2>1, <2>2 DEF appendTerminalIfAccepted, Journals
  <2> QED BY <1>3, <2>2, <2>3, <2>4, <2>5
<1> QED BY <1>5, <1>6, <1>7 DEF handlePromptStreamError

\* The terminal event of the stream.
LEMMA TerminalStep ==
    ASSUME TypeOK, VersionInv, NEW e \in Controllers, ObserveTerminal(e)
    PROVE  TypeOK' /\ ProcStep(e)
<1>1. /\ proc[e].pc = "stream" /\ UNCHANGED <<epoch, att, task, outboxVars, cancel>> /\ receipt' = receipt /\ result' = result
      /\ UNCHANGED runtimeVars /\ att' = att
  BY DEF ObserveTerminal
<1>2. Still /\ rt' \in RtRec /\ receipt' \in BOOLEAN /\ result' \in BOOLEAN /\ journal \in Journals /\ proc[e].pc \in Heard
  BY <1>1, Types DEF Still, runtimeVars, Heard
<1>3. "receipt" \in PCs /\ "Cancelled" \in Terminal /\ "Failed" \in Terminal /\ "Succeeded" \in Terminal
  BY DEF PCs, Terminal
<1>4. CASE proc' = [proc EXCEPT ![e].pc = "receipt", ![e].goal = "Succeeded"] /\ UNCHANGED <<journal, faults>>
  <2>1. proc' = SetGoal(SetPc(proc, e, "receipt"), e, "Succeeded") /\ "Succeeded" \in Terminal \cup {"none", "Queued", "Reserved"}
    BY <1>3, <1>4 DEF SetGoal, SetPc
  <2>2. /\ Moves(e) /\ proc'[e].pc = "receipt" /\ proc'[e].ver = proc[e].ver
        /\ proc'[e].goal = "Succeeded" /\ proc'[e].rec = proc[e].rec
    BY <1>1, <1>3, <2>1, PcGoal
  <2>3. Turns(e, "receipt", "Succeeded")
    BY <1>1 DEF Turns
  <2>4. Flows(e)
    BY <1>1, <2>2, <2>3, TurnFlow
  <2>5. Records(e) /\ journal' \in Journals
    BY <1>1, <1>2, <1>4 DEF Records
  <2> QED BY <1>1, <1>2, <1>4, <2>4, <2>5, RecordStep
<1>5. CASE rt.prompt \in {"failed", "cancelled"} /\ (settleOn(e, "Failed") \/ settleOn(e, "Cancelled")) /\ journal' \in {journal, rt.prompt}
           /\ (Fault \/ faults' = faults)
  <2>1. Settles(e, "Failed") \/ Settles(e, "Cancelled")
    BY <1>1, <1>3, <1>5, SettleIs
  <2>2. Flows(e)
    BY <1>1, <2>1, SettleFlow
  <2>3. Records(e) /\ journal' \in Journals
    BY <1>1, <1>2, <1>5 DEF Records, Journals
  <2> QED BY <1>1, <1>2, <1>5, <2>2, <2>3, RecordStep
<1> QED BY <1>4, <1>5 DEF ObserveTerminal

\* The completion receipt is saved, or the save fails.
LEMMA ReceiptStep ==
    ASSUME TypeOK, VersionInv, NEW e \in Controllers, SaveReceipt(e)
    PROVE  TypeOK' /\ ProcStep(e)
<1>1. /\ proc[e].pc = "receipt" /\ UNCHANGED <<epoch, att, task, outboxVars, cancel>> /\ result' = result /\ journal' = journal
      /\ UNCHANGED runtimeVars /\ att' = att /\ (Fault \/ faults' = faults) /\ (receipt' = receipt \/ receipt')
  BY DEF SaveReceipt
<1>2. Still /\ rt' \in RtRec /\ result' \in BOOLEAN /\ journal' \in Journals /\ att.ver \in 0 .. MaxVersion
  <2>1. Still /\ rt' \in RtRec /\ result' \in BOOLEAN /\ journal' \in Journals /\ att \in AttRec
    BY <1>1, Types DEF Still, runtimeVars
  <2>2. att.ver \in 0 .. MaxVersion
    BY SMTT(60), <2>1 DEF AttRec
  <2> QED BY <2>1, <2>2
<1>3. Records(e) /\ receipt' \in BOOLEAN
  <2>1. receipt' \in BOOLEAN
    BY Types DEF SaveReceipt
  <2>2. receipt => receipt'
    BY DEF SaveReceipt
  <2>3. result' = result /\ journal' = journal
    BY <1>1
  <2>4. (result' => result) /\ (result => result')
    BY <2>3
  <2>5. Records(e)
    BY <2>2, <2>3, <2>4 DEF Records
  <2> QED BY <2>1, <2>5
<1>4. CASE drop(e)
  BY <1>1, <1>2, <1>3, <1>4, DropIs, LeaveFlow, RecordStep
<1>5. CASE receipt' /\ att.state = "Running" /\ e = epoch /\ proc' = [proc EXCEPT ![e].pc = "settle", ![e].ver = att.ver]
  <2>1. proc' = SetVer(SetPc(proc, e, "settle"), e, att.ver) /\ "settle" \in PCs
    BY <1>5 DEF SetVer, SetPc, PCs
  <2>2. /\ Moves(e) /\ proc'[e].pc = "settle" /\ proc'[e].ver = att.ver
        /\ proc'[e].goal = proc[e].goal /\ proc'[e].rec = proc[e].rec
    BY <1>1, <1>2, <2>1, PcVer
  <2>3. Picks(e, "settle", proc[e].goal)
    BY <1>1, <1>5 DEF Picks
  <2>4. Flows(e)
    BY <1>1, <1>5, <2>2, <2>3, PickFlow
  <2> QED BY <1>1, <1>2, <1>3, <2>4, RecordStep
<1> QED BY <1>4, <1>5 DEF SaveReceipt

\* The result is saved and the journal completed.
LEMMA ResultSteps ==
    ASSUME TypeOK, VersionInv, NEW e \in Controllers, SaveResult(e) \/ JournalCompleted(e)
    PROVE  TypeOK' /\ ProcStep(e)
<1>1. /\ UNCHANGED <<epoch, att, task, outboxVars, cancel>> /\ receipt' = receipt /\ UNCHANGED runtimeVars /\ att' = att
      /\ (Fault \/ faults' = faults)
  BY DEF SaveResult, JournalCompleted
<1>2. Still /\ rt' \in RtRec /\ receipt' \in BOOLEAN /\ journal \in Journals /\ result \in BOOLEAN
  BY <1>1, Types DEF Still, runtimeVars
<1>3. "lifecycle" \in PCs /\ "succeed" \in PCs /\ "Failed" \in Terminal
  BY DEF PCs, Terminal
<1>4. CASE SaveResult(e)
  <2>1. proc[e].pc = "result" /\ journal' = journal /\ result' \in BOOLEAN /\ (result => result')
        /\ ((result' /\ goto(e, "lifecycle")) \/ settleOn(e, "Failed") \/ drop(e))
    BY <1>2, <1>4 DEF SaveResult
  <2>2. (result' /\ Goes(e, "lifecycle")) \/ Settles(e, "Failed") \/ Leaves(e)
    BY <1>3, <2>1, GotoIs, SettleIs, DropIs
  <2>3. result' => Hops(e, "lifecycle")
    BY <2>1 DEF Hops
  <2>4. Flows(e)
    BY <1>1, <2>2, <2>3, HopFlow, SettleFlow, LeaveFlow
  <2>5. Records(e) /\ journal' \in Journals
    BY SMTT(60), <1>1, <1>2, <2>1 DEF Records, Done
  <2> QED BY <1>1, <1>2, <2>1, <2>4, <2>5, RecordStep
<1>5. CASE JournalCompleted(e)
  <2>1. proc[e].pc = "lifecycle" /\ result' = result /\ journal' \in {journal, "completed"}
        /\ (goto(e, "succeed") \/ settleOn(e, "Failed"))
    BY <1>5 DEF JournalCompleted
  <2>2. Goes(e, "succeed") \/ Settles(e, "Failed")
    BY <1>3, <2>1, GotoIs, SettleIs
  <2>3. Hops(e, "succeed")
    BY <2>1 DEF Hops
  <2>4. Flows(e)
    BY <1>1, <2>2, <2>3, HopFlow, SettleFlow
  <2>5. Records(e) /\ journal' \in Journals /\ result' \in BOOLEAN
    BY <1>1, <1>2, <2>1 DEF Records, Done, Journals
  <2> QED BY <1>1, <1>2, <2>4, <2>5, RecordStep
<1> QED BY <1>4, <1>5

----------------------------------------------------------------------------
(* The projection. *)

\* A step that leaves the attempt and the records alone.
LEMMA TellStep ==
    ASSUME TypeOK, NEW e \in Controllers, Flows(e), Tells(e), UNCHANGED <<epoch, att, recordVars, cancel, runtimeVars>>,
           Fault \/ faults' = faults, task' \in TaskRec, proj' \in Terminal \cup {"none"}, delivered' \in BOOLEAN
    PROVE  TypeOK' /\ ProcStep(e)
<1>1. /\ epoch' = epoch /\ att' = att /\ receipt' = receipt /\ result' = result /\ journal' = journal /\ cancel' = cancel
      /\ rt' = rt /\ net' = net /\ answer' = answer /\ accepts' = accepts
  BY DEF recordVars, runtimeVars
<1>2. Still /\ AttStep(e) /\ Records(e)
  BY <1>1 DEF Still, AttStep, Records
<1>3. rt' \in RtRec /\ receipt' \in BOOLEAN /\ result' \in BOOLEAN /\ journal' \in Journals
  BY <1>1, Types
<1> QED BY <1>1, <1>2, <1>3, FaultType, WholeStep

\* The projection enters the outbox once.
LEMMA EnqueueStep ==
    ASSUME TypeOK, VersionInv, NEW e \in Controllers, EnqueueProjection(e)
    PROVE  TypeOK' /\ ProcStep(e)
<1>1. /\ proc[e].pc = "enqueue" /\ UNCHANGED <<epoch, att, recordVars, cancel, runtimeVars>> /\ att' = att
      /\ task' = task /\ delivered' = delivered /\ (Fault \/ faults' = faults)
      /\ proj' = proj \/ (proj = "none" /\ e = epoch /\ proj' = proc[e].goal)
      /\ (goto(e, "project") /\ proj' = proc[e].goal) \/ drop(e)
  BY DEF EnqueueProjection
<1>2. proc[e].goal \in Terminal /\ "project" \in PCs
  BY <1>1 DEF VersionInv, Shape, PCs
<1>3. task' \in TaskRec /\ delivered' \in BOOLEAN /\ proj' \in Terminal \cup {"none"}
  BY <1>1, <1>2, Types
<1>4. (Goes(e, "project") /\ proj' = proc[e].goal) \/ Leaves(e)
  BY <1>1, <1>2, GotoIs, DropIs
<1>5. proj' = proc[e].goal => Hops(e, "project")
  BY <1>1 DEF Hops
<1>6. Flows(e)
  BY <1>1, <1>4, <1>5, HopFlow, LeaveFlow
<1>7. Tells(e)
  BY <1>1 DEF Tells
<1> QED BY <1>1, <1>3, <1>6, <1>7, TellStep

\* What the terminal projection writes to the Task.
TaskTold(st) == [task EXCEPT !.state = st, !.outcome = st]

\* The Task after the projection is applied.
LEMMA TaskToldIs ==
    ASSUME TypeOK, NEW st \in Terminal
    PROVE  TaskTold(st) \in TaskRec /\ TaskTold(st).outcome = st
<1> DEFINE a == [task EXCEPT !.state = st]
           b == [a EXCEPT !.outcome = st]
<1>1. task \in TaskRec /\ st \in States /\ st \in Terminal \cup {"none"} /\ TaskTold(st) = b
  BY Types DEF TaskTold, States
<1>2. a \in TaskRec
  BY <1>1 DEF TaskRec
<1> HIDE DEF a
<1>3. b \in TaskRec /\ b.outcome = st
  BY <1>1, <1>2 DEF TaskRec
<1> HIDE DEF b
<1> QED BY <1>1, <1>3

\* The projection reaches the Task, from the controller or from the outbox.
LEMMA ProjectSteps ==
    ASSUME TypeOK, VersionInv, NEW e \in Controllers, ProjectTask(e) \/ DeliverProjection(e)
    PROVE  TypeOK' /\ ProcStep(e)
<1>1. UNCHANGED <<epoch, att, recordVars, cancel, runtimeVars>> /\ att' = att /\ answer' = answer /\ proj' = proj /\ (Fault \/ faults' = faults)
  BY DEF ProjectTask, DeliverProjection, outboxVars, runtimeVars
<1>2. task \in TaskRec /\ proj \in Terminal \cup {"none"} /\ delivered \in BOOLEAN
  BY Types
<1>3. CASE ProjectTask(e)
  <2>1. /\ proc[e].pc = "project" /\ delivered' = delivered /\ (task' = TaskTold(proc[e].goal) \/ task' = task)
        /\ goto(e, "raise") \/ drop(e)
    BY <1>3 DEF ProjectTask, TaskTold, outboxVars
  <2>2. proc[e].goal \in Terminal /\ "raise" \in PCs /\ Hops(e, "raise")
    BY <2>1 DEF VersionInv, Shape, PCs, Hops
  <2>3. task' \in TaskRec /\ (task'.outcome = task.outcome \/ task'.outcome = proc[e].goal)
    BY <1>2, <2>1, <2>2, TaskToldIs
  <2>4. Goes(e, "raise") \/ Leaves(e)
    BY <2>1, <2>2, GotoIs, DropIs
  <2>5. Flows(e)
    BY <1>1, <2>1, <2>2, <2>4, HopFlow, LeaveFlow
  <2>6. Tells(e)
    BY <1>1, <2>1, <2>3 DEF Tells
  <2> QED BY <1>1, <1>2, <2>1, <2>3, <2>5, <2>6, TellStep
<1>4. CASE DeliverProjection(e)
  <2>1. proc[e].pc # "down" /\ proj # "none" /\ task' = TaskTold(proj) /\ delivered' \in BOOLEAN /\ proc' = proc
    BY <1>2, <1>4 DEF DeliverProjection, TaskTold
  <2>2. proj \in Terminal
    BY <1>2, <2>1
  <2>3. task' \in TaskRec /\ task'.outcome = proj
    BY <2>1, <2>2, TaskToldIs
  <2>4. Flows(e)
    BY <1>1, <2>1, StayFlow
  <2>5. Tells(e)
    BY <1>1, <2>3 DEF Tells
  <2> QED BY <1>1, <1>2, <2>1, <2>3, <2>4, <2>5, TellStep
<1> QED BY <1>3, <1>4

----------------------------------------------------------------------------
(* Recovery. *)

\* The Task's epoch is set; everything else of it stays.
TaskOf(x) == [task EXCEPT !.epoch = x]

\* The Task taken over by another epoch.
LEMMA TaskOfIs ==
    ASSUME TypeOK, NEW x \in Controllers
    PROVE  TaskOf(x) \in TaskRec /\ TaskOf(x).outcome = task.outcome
<1>1. task \in TaskRec
  BY Types
<1> QED BY <1>1 DEF TaskOf, TaskRec

\* Recovery picks up a Task of an earlier epoch, re-stamps it or finds it settled.
LEMMA StampSteps ==
    ASSUME TypeOK, VersionInv, NEW e \in Controllers, RecoverStale(e) \/ RaiseEpoch(e) \/ RecoverTerminal(e)
    PROVE  TypeOK' /\ ProcStep(e)
<1>1. Frame /\ att' = att /\ answer' = answer /\ faults' = faults
  BY DEF RecoverStale, RaiseEpoch, RecoverTerminal, Frame, runtimeVars
<1>2. task \in TaskRec /\ task.epoch \in Controllers /\ faults' \in 0 .. MaxFaults
  BY <1>1, Types DEF TaskRec
<1>3. CASE RecoverStale(e)
  <2>1. proc[e].pc = "idle" /\ task' = task /\ proc' = SetRec(SetPc(proc, e, "recover"), e, TRUE) /\ "recover" \in PCs
    BY <1>3 DEF RecoverStale, SetRec, SetPc, PCs
  <2>2. /\ Moves(e) /\ proc'[e].pc = "recover" /\ proc'[e].ver = proc[e].ver
        /\ proc'[e].goal = proc[e].goal /\ proc'[e].rec
    BY <2>1, PcRec
  <2>3. Shape(proc[e])
    BY DEF VersionInv
  <2>4. LocalFlow(e)
    <3>1. proc'[e].ver = 0 /\ proc'[e].pc = "recover"
      BY <2>1, <2>2, <2>3 DEF Shape, Writers
    <3>2. Shape(proc'[e])
      BY <3>1 DEF Shape, RecPCs, Done
    <3> QED BY <2>2, <3>1, <3>2 DEF LocalFlow
  <2>5. BoundaryFlow(e) /\ ProjectionFlow(e)
    <3>1. proc'[e].pc = "recover"
      BY <2>2
    <3> QED BY SMTT(60), <3>1 DEF BoundaryFlow, ProjectionFlow, Owned, Bound, Sent, Back, Past, Heard
  <2>6. EvidenceFlow(e)
    BY <2>2 DEF EvidenceFlow, Heard, Done, Kept
  <2>7. Flows(e)
    BY <2>4, <2>5, <2>6 DEF Flows
  <2> QED BY <1>1, <2>1, <2>7, QuietStep
<1>4. CASE RaiseEpoch(e)
  <2> DEFINE x == IF task.epoch < e THEN e ELSE task.epoch
  <2>1. proc[e].pc = "raise" /\ drop(e) /\ task' = TaskOf(x) /\ x \in Controllers
    BY <1>2, <1>4 DEF RaiseEpoch, TaskOf
  <2> HIDE DEF x
  <2>2. task' \in TaskRec /\ task'.outcome = task.outcome
    BY <2>1, TaskOfIs
  <2>3. Flows(e)
    BY <1>1, <2>1, DropIs, LeaveFlow
  <2> QED BY <1>1, <1>2, <2>2, <2>3, FrameStep DEF AttStep
<1>5. CASE RecoverTerminal(e)
  <2>1. proc[e].pc = "idle"
    BY <1>5 DEF RecoverTerminal
  <2>2. CASE att.state = "Succeeded" /\ proc' = [proc EXCEPT ![e].pc = "enqueue", ![e].goal = "Succeeded"] /\ task' = task
    <3>1. /\ proc' = SetGoal(SetPc(proc, e, "enqueue"), e, "Succeeded") /\ "enqueue" \in PCs
          /\ "Succeeded" \in Terminal \cup {"none", "Queued", "Reserved"} /\ "Succeeded" \in Terminal
      BY <2>2 DEF SetGoal, SetPc, PCs, Terminal
    <3>2. /\ Moves(e) /\ proc'[e].pc = "enqueue" /\ proc'[e].ver = proc[e].ver
          /\ proc'[e].goal = "Succeeded" /\ proc'[e].rec = proc[e].rec
      BY <2>1, <3>1, PcGoal
    <3>3. Turns(e, "enqueue", "Succeeded")
      BY <2>1, <2>2, <3>1 DEF Turns
    <3>4. Flows(e)
      BY <1>1, <3>2, <3>3, TurnFlow
    <3> QED BY <1>1, <2>2, <3>4, QuietStep
  <2>3. CASE task' = [task EXCEPT !.epoch = e] /\ proc' = proc
    <3>1. task' \in TaskRec /\ task'.outcome = task.outcome
      BY <2>3, TaskOfIs DEF TaskOf
    <3>2. Flows(e)
      BY <1>1, <2>1, <2>3, StayFlow
    <3> QED BY <1>1, <1>2, <3>1, <3>2, FrameStep DEF AttStep
  <2> QED BY <1>5, <2>2, <2>3 DEF RecoverTerminal
<1> QED BY <1>3, <1>4, <1>5

\* What the records prove of a completed prompt.
LEMMA CompletedIs ==
    ASSUME EvidenceInv, Evidence \in {"completed", "receipt"}, att.state \in {"Accepted", "Running", "Settling"}
    PROVE  journal # "none" /\ receipt
<1>1. (journal = "completed" /\ result) \/ (journal = "accepted" /\ receipt)
  BY SMTT(60) DEF Evidence
<1>2. result => receipt
  BY DEF EvidenceInv
<1> QED BY <1>1, <1>2

\* recoverStaleTask, by the state of the attempt and the journal.
LEMMA RecoverStep ==
    ASSUME TypeOK, VersionInv, EvidenceInv, NEW e \in Controllers, recoverStaleTask(e)
    PROVE  TypeOK' /\ ProcStep(e)
<1>1. /\ proc[e].pc = "recover" /\ UNCHANGED <<epoch, att, task, outboxVars, cancel>> /\ receipt' = receipt
      /\ UNCHANGED runtimeVars /\ faults' = faults /\ att' = att
  BY DEF recoverStaleTask
<1>2. /\ Still /\ rt' \in RtRec /\ receipt' \in BOOLEAN /\ journal \in Journals /\ result \in BOOLEAN
      /\ att.state \in States /\ att.ver \in 0 .. MaxVersion
  <2>1. Still /\ rt' \in RtRec /\ receipt' \in BOOLEAN /\ journal \in Journals /\ result \in BOOLEAN /\ att \in AttRec
    BY <1>1, Types DEF Still, runtimeVars
  <2>2. att.state \in States /\ att.ver \in 0 .. MaxVersion
    BY SMTT(60), <2>1 DEF AttRec
  <2> QED BY <2>1, <2>2
<1>3. ASSUME Flows(e), result' = result, journal' = journal
      PROVE  TypeOK' /\ ProcStep(e)
  <2>1. (result' => result) /\ (result => result') /\ (receipt => receipt')
    BY <1>1, <1>3
  <2>2. Records(e) /\ result' \in BOOLEAN /\ journal' \in Journals
    BY <1>2, <1>3, <2>1 DEF Records
  <2> QED BY <1>1, <1>2, <1>3, <2>2, RecordStep
<1>4. CASE /\ att.state \in {"Queued", "Reserved"} /\ UNCHANGED <<result, journal>>
           /\ proc' = [proc EXCEPT ![e].pc = "readmit", ![e].goal = att.state]
  <2>1. /\ proc' = SetGoal(SetPc(proc, e, "readmit"), e, att.state) /\ "readmit" \in PCs
        /\ att.state \in Terminal \cup {"none", "Queued", "Reserved"}
    BY <1>4 DEF SetGoal, SetPc, PCs
  <2>2. /\ Moves(e) /\ proc'[e].pc = "readmit" /\ proc'[e].ver = proc[e].ver
        /\ proc'[e].goal = att.state /\ proc'[e].rec = proc[e].rec
    BY <1>1, <2>1, PcGoal
  <2>3. Turns(e, "readmit", att.state)
    BY <1>1, <1>4 DEF Turns
  <2>4. Flows(e)
    BY <1>1, <2>2, <2>3, TurnFlow
  <2> QED BY <1>3, <1>4, <2>4
<1>5. CASE drop(e) /\ UNCHANGED <<result, journal>>
  BY <1>1, <1>3, <1>5, DropIs, LeaveFlow
<1>6. CASE /\ att.state \in {"SessionStarting", "Planned"} /\ e = epoch /\ UNCHANGED <<result, journal>>
           /\ proc' = [proc EXCEPT ![e].pc = "requeue", ![e].ver = att.ver]
  <2>1. proc' = SetVer(SetPc(proc, e, "requeue"), e, att.ver) /\ "requeue" \in PCs
    BY <1>6 DEF SetVer, SetPc, PCs
  <2>2. /\ Moves(e) /\ proc'[e].pc = "requeue" /\ proc'[e].ver = att.ver
        /\ proc'[e].goal = proc[e].goal /\ proc'[e].rec = proc[e].rec
    BY <1>1, <1>2, <2>1, PcVer
  <2>3. Picks(e, "requeue", proc[e].goal)
    BY <1>1, <1>6 DEF Picks
  <2>4. Flows(e)
    BY <1>1, <1>6, <2>2, <2>3, PickFlow
  <2> QED BY <1>3, <1>6, <2>4
<1>7. CASE RecoverSubmitted(e)
  <2> DEFINE completed == Evidence \in {"completed", "receipt"} /\ att.state \in {"Accepted", "Running", "Settling"}
  <2>0. att.state \in Submitted
    BY <1>7 DEF RecoverSubmitted
  <2>1. CASE /\ completed /\ result' = TRUE /\ journal' = "completed"
    <3>1. journal # "none" /\ receipt /\ receipt' /\ result'
      BY <1>1, <2>1, CompletedIs
    <3>2. Records(e) /\ result' \in BOOLEAN /\ journal' \in Journals
      BY <2>1, <3>1 DEF Records, Journals
    <3>3. "Succeeded" \in Terminal \cup {"none", "Queued", "Reserved"} /\ "succeed" \in PCs /\ "settle" \in PCs
      BY DEF Terminal, PCs
    <3>4. CASE proc' = [proc EXCEPT ![e].pc = "succeed", ![e].goal = "Succeeded"]
      <4>1. proc' = SetGoal(SetPc(proc, e, "succeed"), e, "Succeeded")
        BY <3>4 DEF SetGoal, SetPc
      <4>2. /\ Moves(e) /\ proc'[e].pc = "succeed" /\ proc'[e].ver = proc[e].ver
            /\ proc'[e].goal = "Succeeded" /\ proc'[e].rec = proc[e].rec
        BY <1>1, <3>3, <4>1, PcGoal
      <4>3. Turns(e, "succeed", "Succeeded")
        BY <1>1, <3>1 DEF Turns
      <4>4. Flows(e)
        BY <1>1, <4>2, <4>3, TurnFlow
      <4> QED BY <1>1, <1>2, <3>2, <4>4, RecordStep
    <3>5. CASE /\ att.state # "Settling" /\ e = epoch
               /\ proc' = [proc EXCEPT ![e].pc = "settle", ![e].ver = att.ver, ![e].goal = "Succeeded"]
      <4>1. PICK q, x : q = "settle" /\ x = "Succeeded"
        OBVIOUS
      <4>0. /\ q \in PCs /\ x \in Terminal \cup {"none", "Queued", "Reserved"}
            /\ att.ver \in 0 .. MaxVersion /\ proc[e].pc # "down"
        BY <1>1, <1>2, <3>3, <4>1
      <4>a. proc' = SetGoal(SetVer(SetPc(proc, e, q), e, att.ver), e, x)
        BY <3>5, <4>1 DEF SetGoal, SetVer, SetPc
      <4>b. Moves(e) /\ proc'[e].pc = q /\ proc'[e].ver = att.ver /\ proc'[e].goal = x /\ proc'[e].rec = proc[e].rec
        BY <4>0, <4>a, PcVerGoal
      <4>2. /\ Moves(e) /\ proc'[e].pc = "settle" /\ proc'[e].ver = att.ver
            /\ proc'[e].goal = "Succeeded" /\ proc'[e].rec = proc[e].rec
        BY <4>1, <4>b
      <4>3. Picks(e, "settle", "Succeeded")
        BY <1>1, <2>1, <3>1, <3>5 DEF Picks
      <4>4. Flows(e)
        BY <1>1, <3>5, <4>2, <4>3, PickFlow
      <4> QED BY <1>1, <1>2, <3>2, <4>4, RecordStep
    <3>6. CASE drop(e)
      <4>1. Flows(e)
        BY <1>1, <3>6, DropIs, LeaveFlow
      <4> QED BY <1>1, <1>2, <3>2, <4>1, RecordStep
    <3> QED BY <1>7, <2>1, <3>4, <3>5, <3>6 DEF RecoverSubmitted
  <2>2. CASE ~completed
    <3> DEFINE goal == CASE Evidence = "failed"    -> "Failed"
                         [] Evidence = "cancelled" -> "Cancelled"
                         [] OTHER                  -> "OutcomeUnknown"
    <3>1. settleOn(e, goal) /\ appendTerminalIfAccepted("unknown") /\ result' = result
      BY <1>7, <2>2 DEF RecoverSubmitted
    <3>2. goal \in {"Failed", "Cancelled", "OutcomeUnknown"} /\ goal \in Terminal
      BY SMTT(60) DEF Terminal
    <3> HIDE DEF goal
    <3>3. Settles(e, goal)
      BY <1>1, <3>1, <3>2, SettleIs
    <3>4. Flows(e)
      BY <1>1, <2>0, <3>2, <3>3, SettleFlow
    <3>5. journal' \in Journals /\ (journal' # "none" <=> journal # "none")
      BY <1>2, <3>1 DEF appendTerminalIfAccepted, Journals
    <3>6. (result' => result) /\ (result => result') /\ (receipt => receipt') /\ result' \in BOOLEAN
      BY <1>1, <1>2, <3>1
    <3>7. Records(e)
      BY <3>5, <3>6 DEF Records
    <3> QED BY <1>1, <1>2, <3>4, <3>5, <3>6, <3>7, RecordStep
  <2> QED BY <1>7, <2>1, <2>2 DEF RecoverSubmitted
<1>8. CASE goto(e, "raise") /\ UNCHANGED <<result, journal>>
  <2>1. "raise" \in PCs /\ Hops(e, "raise")
    BY <1>1 DEF PCs, Hops
  <2>2. Flows(e)
    BY <1>1, <1>8, <2>1, GotoIs, HopFlow
  <2> QED BY <1>3, <1>8, <2>2
<1>9. CASE /\ att.state \in Terminal /\ UNCHANGED <<result, journal>>
           /\ proc' = [proc EXCEPT ![e].pc = "enqueue", ![e].goal = att.state]
  <2>1. /\ proc' = SetGoal(SetPc(proc, e, "enqueue"), e, att.state) /\ "enqueue" \in PCs
        /\ att.state \in Terminal \cup {"none", "Queued", "Reserved"}
    BY <1>9 DEF SetGoal, SetPc, PCs
  <2>2. /\ Moves(e) /\ proc'[e].pc = "enqueue" /\ proc'[e].ver = proc[e].ver
        /\ proc'[e].goal = att.state /\ proc'[e].rec = proc[e].rec
    BY <1>1, <2>1, PcGoal
  <2>3. Turns(e, "enqueue", att.state)
    BY <1>1, <1>9 DEF Turns
  <2>4. Flows(e)
    BY <1>1, <2>2, <2>3, TurnFlow
  <2> QED BY <1>3, <1>9, <2>4
<1> QED BY <1>4, <1>5, <1>6, <1>7, <1>8, <1>9 DEF recoverStaleTask

\* Every step of a controller but the request itself.
LEMMA ControllerStep ==
    ASSUME TypeOK, VersionInv, EvidenceInv, NEW e \in Controllers, Step(e), ~SendPrompt(e)
    PROVE  TypeOK' /\ ProcStep(e)
<1>1. CASE Dispatch(e)
  BY <1>1, WriteSteps, PatchSteps, ReserveStep, UnsentStep, PickUpStep, CreateSessionStep, MoveSteps,
     AnswerStep, StreamErrorStep, TerminalStep DEF Dispatch
<1>2. CASE Settlement(e)
  BY <1>2, WriteSteps, PatchSteps, FinishStep, ReceiptStep, ResultSteps, EnqueueStep, ProjectSteps DEF Settlement
<1>3. CASE Recovery(e)
  BY <1>3, PatchSteps, StampSteps, RecoverStep DEF Recovery
<1> QED BY <1>1, <1>2, <1>3 DEF Step

----------------------------------------------------------------------------
(* A step of a controller preserves the invariant. *)

\* The integers of the state.
LEMMA Numbers ==
    ASSUME TypeOK
    PROVE  /\ epoch \in Int /\ rt.epoch \in Int /\ rt.epoch \in Controllers /\ accepts \in Nat
           /\ att.ver \in Int /\ att.ver >= 1
           /\ \A e \in Controllers : e \in Int /\ proc[e].ver \in Int /\ proc[e].ver >= 0
           /\ \A r \in net : r.from \in Controllers
<1>1. epoch \in Controllers /\ att \in AttRec /\ rt \in RtRec /\ accepts \in Nat
  BY Types
<1>2. \A e \in Controllers : proc[e] \in ProcRec
  BY Types
<1>3. net \subseteq [from : Controllers, boot : 0 .. MaxBoot]
  BY Types
<1>4. MaxEpoch \in Nat /\ MaxVersion \in Nat
  BY DispatchAssumption
<1>5. epoch \in Int /\ rt.epoch \in Controllers /\ rt.epoch \in Int /\ att.ver \in Int /\ att.ver >= 1
  BY SMTT(60), <1>1, <1>4 DEF AttRec, RtRec, Controllers
<1>6. \A e \in Controllers : e \in Int /\ proc[e].ver \in Int /\ proc[e].ver >= 0
  BY SMTT(60), <1>2, <1>4 DEF ProcRec, Controllers
<1>7. \A r \in net : r.from \in Controllers
  BY <1>3
<1> QED BY <1>1, <1>5, <1>6, <1>7

\* What a commit leaves of the versions.
LEMMA CommitVersions ==
    ASSUME TypeOK, VersionInv, NEW e \in Controllers, Commits(e), Moves(e)
    PROVE  \A d \in Controllers : proc'[d].ver < att'.ver
<1>1. /\ att'.ver = att.ver + 1 /\ proc'[e].ver = 0 /\ att.ver \in Int /\ att.ver >= 1
      /\ \A d \in Controllers : proc[d].ver \in Int /\ proc[d].ver <= att.ver
  BY Numbers DEF Commits, VersionInv
<1>2. \A d \in Controllers : d # e => proc'[d].ver = proc[d].ver
  BY DEF Moves
<1> QED BY SMTT(60), <1>1, <1>2

\* A controller's step keeps the expected versions right.
LEMMA VersionStep ==
    ASSUME TypeOK, VersionInv, NEW e \in Controllers, ProcStep(e)
    PROVE  VersionInv'
<1>1. Moves(e) /\ Shape(proc'[e]) /\ epoch' = epoch /\ (att' = att \/ Commits(e))
  BY DEF ProcStep, Flows, LocalFlow, Still, AttStep
<1> SUFFICES ASSUME NEW d \in Controllers
             PROVE  /\ Shape(proc'[d])
                    /\ proc'[d].pc # "down" => d <= epoch'
                    /\ proc'[d].ver <= att'.ver
                    /\ proc'[d].ver = att'.ver => Writable(proc'[d], att'.state)
  BY DEF VersionInv
<1>2. Shape(proc'[d]) /\ (proc'[d].pc # "down" => d <= epoch')
  <2>1. CASE d = e
    BY <1>1, <2>1 DEF VersionInv, Moves
  <2>2. CASE d # e
    <3>1. proc'[d] = proc[d]
      BY <1>1, <2>2 DEF Moves
    <3> QED BY <1>1, <3>1 DEF VersionInv
  <2> QED BY <2>1, <2>2
<1>3. CASE Commits(e)
  <2>1. proc'[d].ver < att'.ver /\ att'.ver \in Int /\ proc'[d].ver \in Int
    <3>1. att'.ver \in Int
      BY SMTT(60), <1>3, Numbers DEF Commits
    <3>2. proc'[d].ver \in Int
      <4>1. CASE d = e
        BY SMTT(60), <1>3, <4>1 DEF Commits
      <4>2. CASE d # e
        BY <1>1, <4>2, Numbers DEF Moves
      <4> QED BY <4>1, <4>2
    <3> QED BY <1>1, <1>3, <3>1, <3>2, CommitVersions
  <2>2. proc'[d].ver <= att'.ver /\ proc'[d].ver # att'.ver
    BY SMTT(60), <2>1
  <2> QED BY <1>2, <2>2
<1>4. CASE att' = att
  <2>1. CASE d # e
    <3>1. proc'[d] = proc[d]
      BY <1>1, <2>1 DEF Moves
    <3> QED BY <1>2, <1>4, <3>1 DEF VersionInv
  <2>2. CASE d = e /\ proc'[e].ver = 0
    <3>1. 0 <= att.ver /\ 0 # att.ver
      BY SMTT(60), Numbers
    <3> QED BY <1>2, <1>4, <2>2, <3>1
  <2>3. CASE d = e /\ proc'[e] = proc[e]
    BY <1>2, <1>4, <2>3 DEF VersionInv
  <2>4. CASE d = e /\ proc'[e].ver = att.ver /\ Writable(proc'[e], att.state)
    <3>1. att.ver <= att.ver
      BY SMTT(60), Numbers
    <3> QED BY <1>2, <1>4, <2>4, <3>1
  <2> QED BY <2>1, <2>2, <2>3, <2>4 DEF ProcStep, Flows, LocalFlow
<1> QED BY <1>1, <1>3, <1>4

\* A controller that has outrun the earlier ones stays ahead of them, because only the
\* controller of the open epoch can read for a write.
LEMMA OutrunStep ==
    ASSUME TypeOK, VersionInv, NEW e \in Controllers, ProcStep(e),
           NEW d \in Controllers, d <= epoch, Outrun(d) \/ att' # att
    PROVE  Outrun(d)'
<1>1. Moves(e) /\ (att' = att \/ Commits(e))
  BY DEF ProcStep, Flows, LocalFlow, AttStep
<1>2. CASE Commits(e)
  BY <1>1, <1>2, CommitVersions DEF Outrun
<1>3. CASE att' = att
  <2> SUFFICES ASSUME NEW c \in Controllers, c < d
               PROVE  proc'[c].ver < att'.ver
    BY DEF Outrun
  <2>1. proc[c].ver < att.ver
    BY <1>3 DEF Outrun
  <2>2. CASE c # e
    BY <1>1, <1>3, <2>1, <2>2 DEF Moves
  <2>3. CASE c = e
    <3>1. e # epoch /\ 0 < att.ver
      BY SMTT(60), <2>3, Numbers
    <3>2. proc'[e].ver = 0 \/ proc'[e] = proc[e]
      BY <3>1 DEF ProcStep, Flows, LocalFlow
    <3> QED BY <1>3, <2>1, <2>3, <3>1, <3>2
  <2> QED BY <2>2, <2>3
<1> QED BY <1>1, <1>2, <1>3

\* The only write back over the boundary is the one of a proven unsent request.
LEMMA CommitBack ==
    ASSUME TypeOK, VersionInv, BoundaryInv, NEW e \in Controllers, ProcStep(e),
           att.state \notin PreSubmission, att'.state \in PreSubmission
    PROVE  /\ proc[e].pc = "unsent" /\ proc[e].ver = att.ver /\ e <= rt.epoch
           /\ Back(e) /\ Commits(e)
<1>1. Commits(e)
  BY DEF ProcStep, AttStep
<1>2. proc[e].pc \in {"reserve", "start", "plan", "requeue", "unsent"} /\ proc[e].ver = att.ver
  BY <1>1 DEF Commits
<1>3. Writable(proc[e], att.state)
  BY <1>2 DEF VersionInv
<1>4. proc[e].pc = "unsent"
  BY SMTT(60), <1>2, <1>3 DEF Writable, PreSubmission
<1>5. e <= rt.epoch
  BY <1>4 DEF BoundaryInv, Bound
<1> QED BY <1>1, <1>2, <1>4, <1>5 DEF Back

\* A controller's step keeps the request boundary.
LEMMA BoundaryStep ==
    ASSUME TypeOK, VersionInv, BoundaryInv, NEW e \in Controllers, ProcStep(e)
    PROVE  BoundaryInv'
<1>1. /\ Moves(e) /\ (att' = att \/ Commits(e)) /\ epoch' = epoch /\ net' = net /\ answer' = answer /\ accepts' = accepts
      /\ rt'.epoch = rt.epoch /\ BoundaryFlow(e)
  BY DEF ProcStep, Flows, LocalFlow, AttStep, Still
<1>2. \A d \in Controllers : d # e => proc'[d] = proc[d] /\ (Back(d)' <=> Back(d))
  <2> SUFFICES ASSUME NEW d \in Controllers, d # e
               PROVE  proc'[d] = proc[d] /\ (Back(d)' <=> Back(d))
    OBVIOUS
  <2>1. proc'[d] = proc[d]
    BY <1>1 DEF Moves
  <2> QED BY <1>1, <2>1 DEF Back
<1>3. rt'.epoch <= epoch'
  BY <1>1 DEF BoundaryInv
<1>4. \A d \in Controllers : proc'[d].pc \in Owned => Outrun(d)'
  <2> SUFFICES ASSUME NEW d \in Controllers, proc'[d].pc \in Owned
               PROVE  Outrun(d)'
    OBVIOUS
  <2>1. d <= epoch
    <3>1. CASE d = e
      BY <1>1, <3>1 DEF Moves, VersionInv
    <3>2. CASE d # e
      <4>1. proc[d].pc # "down"
        BY <1>2, <3>2 DEF Owned, Bound
      <4> QED BY <4>1 DEF VersionInv
    <3> QED BY <3>1, <3>2
  <2>2. Outrun(d) \/ att' # att
    BY <1>1, <1>2 DEF BoundaryInv, BoundaryFlow
  <2> QED BY <2>1, <2>2, OutrunStep
<1>5. \A d \in Controllers : proc'[d].pc \in Bound => d <= rt'.epoch
  <2> SUFFICES ASSUME NEW d \in Controllers, proc'[d].pc \in Bound
               PROVE  d <= rt.epoch
    BY <1>1
  <2>1. proc[d].pc \in Bound \/ d = rt.epoch
    BY <1>1, <1>2 DEF BoundaryFlow
  <2>2. rt.epoch <= rt.epoch
    BY SMTT(60), Numbers
  <2> QED BY <2>1, <2>2 DEF BoundaryInv
<1>6. \A d \in Controllers : d = rt'.epoch /\ proc'[d].pc \in Sent => att'.state \notin PreSubmission
  <2> SUFFICES ASSUME NEW d \in Controllers, d = rt.epoch, proc'[d].pc \in Sent, att'.state \in PreSubmission
               PROVE  FALSE
    BY <1>1
  <2>1. proc[d].pc \in Sent
    BY <1>1, <1>2 DEF BoundaryFlow
  <2>2. att.state \notin PreSubmission /\ Outrun(d)
    BY <2>1 DEF BoundaryInv, Owned, Bound, Sent
  <2>3. proc[e].pc = "unsent" /\ proc[e].ver = att.ver /\ e <= rt.epoch
    BY <2>2, CommitBack
  <2>4. e # d
    BY <2>1, <2>3 DEF Sent
  <2>5. e < d
    BY SMTT(60), <2>3, <2>4, Numbers
  <2>6. proc[e].ver < att.ver
    BY <2>2, <2>5 DEF Outrun
  <2> QED BY SMTT(60), <2>3, <2>6, Numbers
<1>7. \A r \in net' : r.from <= rt'.epoch /\ Outrun(r.from)'
  <2> SUFFICES ASSUME NEW r \in net
               PROVE  r.from <= rt.epoch /\ Outrun(r.from)'
    BY <1>1
  <2>1. r.from \in Controllers /\ r.from <= rt.epoch /\ Outrun(r.from) /\ rt.epoch <= epoch
    BY Numbers DEF BoundaryInv
  <2>2. r.from <= epoch
    BY SMTT(60), <2>1, Numbers
  <2> QED BY <2>1, <2>2, OutrunStep
<1>8. \A r \in net' : r.from = rt'.epoch => att'.state \notin PreSubmission /\ ~Back(r.from)'
  <2> SUFFICES ASSUME NEW r \in net, r.from = rt.epoch
               PROVE  att'.state \notin PreSubmission /\ ~Back(r.from)'
    BY <1>1
  <2>1. r.from \in Controllers /\ Outrun(r.from) /\ att.state \notin PreSubmission /\ ~Back(r.from)
    BY Numbers DEF BoundaryInv
  <2>2. ~Back(r.from)'
    <3>1. CASE r.from = e
      BY <1>1, <2>1, <3>1 DEF BoundaryFlow
    <3>2. CASE r.from # e
      BY <1>2, <2>1, <3>2
    <3> QED BY <3>1, <3>2
  <2>3. ASSUME att'.state \in PreSubmission PROVE FALSE
    <3>1. proc[e].ver = att.ver /\ e <= rt.epoch /\ Back(e)
      BY <2>1, <2>3, CommitBack
    <3>2. e # r.from
      BY <2>1, <3>1
    <3>3. e < r.from
      BY SMTT(60), <3>1, <3>2, Numbers
    <3>4. proc[e].ver < att.ver
      BY <2>1, <3>3 DEF Outrun
    <3> QED BY SMTT(60), <3>1, <3>4, Numbers
  <2> QED BY <2>2, <2>3
<1>9. \A r, s \in net' : r.from = rt'.epoch /\ s.from = rt'.epoch => r = s
  BY <1>1 DEF BoundaryInv
<1>10. accepts' <= 1
  BY <1>1 DEF BoundaryInv
<1>11. ASSUME accepts' > 0
       PROVE  /\ att'.state \notin PreSubmission
              /\ \A r \in net' : r.from < rt'.epoch
              /\ \A d \in Controllers : Back(d)' => d < rt'.epoch /\ proc'[d].ver < att'.ver
  <2>1. /\ att.state \notin PreSubmission
        /\ \A r \in net : r.from < rt.epoch
        /\ \A d \in Controllers : Back(d) => d < rt.epoch /\ proc[d].ver < att.ver
    BY <1>1, <1>11 DEF BoundaryInv
  <2>2. ASSUME att'.state \in PreSubmission PROVE FALSE
    <3>1. proc[e].ver = att.ver /\ Back(e)
      BY <2>1, <2>2, CommitBack
    <3>2. proc[e].ver < att.ver
      BY <2>1, <3>1
    <3> QED BY SMTT(60), <3>1, <3>2, Numbers
  <2>3. ASSUME NEW d \in Controllers, Back(d)'
        PROVE  d < rt'.epoch /\ proc'[d].ver < att'.ver
    <3>1. Back(d)
      BY <1>1, <1>2, <2>1, <2>3 DEF BoundaryFlow
    <3>2. d < rt.epoch /\ proc[d].ver < att.ver
      BY <2>1, <3>1
    <3>3. CASE Commits(e)
      BY <1>1, <3>2, <3>3, CommitVersions
    <3>4. CASE att' = att
      <4>1. d # epoch /\ 0 < att.ver
        BY SMTT(60), <3>2, Numbers DEF BoundaryInv
      <4>2. proc'[d].ver = 0 \/ proc'[d] = proc[d]
        BY <1>2, <4>1 DEF ProcStep, Flows, LocalFlow
      <4> QED BY <1>1, <3>2, <3>4, <4>1, <4>2
    <3> QED BY <1>1, <3>3, <3>4
  <2> QED BY <1>1, <2>1, <2>2, <2>3
<1> QED BY <1>3, <1>4, <1>5, <1>6, <1>7, <1>8, <1>9, <1>10, <1>11 DEF BoundaryInv

\* A controller's step claims nothing that has not happened.
LEMMA EvidenceStep ==
    ASSUME TypeOK, VersionInv, EvidenceInv, NEW e \in Controllers, ProcStep(e)
    PROVE  EvidenceInv'
<1>1. /\ Moves(e) /\ (att' = att \/ Commits(e)) /\ answer' = answer /\ accepts' = accepts
      /\ EvidenceFlow(e) /\ Records(e)
  BY DEF ProcStep, Flows, LocalFlow, AttStep, Still
<1>2. (receipt => receipt') /\ (result => result')
  BY <1>1 DEF Records
<1>3. \A d \in Controllers :
        /\ answer'[d] = "accepted" => accepts' > 0
        /\ proc'[d].pc \in Heard \cup Done => accepts' > 0
        /\ proc'[d].pc \in Done \ {"receipt"} => receipt'
        /\ proc'[d].pc \in Kept => result'
        /\ proc'[d].pc = "settle" /\ proc'[d].rec => result'
  <2> SUFFICES ASSUME NEW d \in Controllers
               PROVE  /\ answer'[d] = "accepted" => accepts' > 0
                      /\ proc'[d].pc \in Heard \cup Done => accepts' > 0
                      /\ proc'[d].pc \in Done \ {"receipt"} => receipt'
                      /\ proc'[d].pc \in Kept => result'
                      /\ proc'[d].pc = "settle" /\ proc'[d].rec => result'
    OBVIOUS
  <2>0. /\ answer[d] = "accepted" => accepts > 0
        /\ proc[d].pc \in Heard \cup Done => accepts > 0
        /\ proc[d].pc \in Done \ {"receipt"} => receipt
        /\ proc[d].pc \in Kept => result
        /\ proc[d].pc = "settle" /\ proc[d].rec => result
        /\ journal # "none" => accepts > 0
    BY DEF EvidenceInv
  <2>1. CASE d = e
    BY <1>1, <1>2, <2>0, <2>1 DEF EvidenceFlow
  <2>2. CASE d # e
    <3>1. proc'[d] = proc[d]
      BY <1>1, <2>2 DEF Moves
    <3> QED BY <1>1, <1>2, <2>0, <3>1
  <2> QED BY <2>1, <2>2
<1>4. journal' # "none" => accepts' > 0
  BY <1>1 DEF Records, EvidenceInv
<1>5. result' => receipt'
  BY <1>1, <1>2 DEF Records, EvidenceInv
<1>6. /\ att'.state \in {"Accepted", "Running", "Settling", "Succeeded"} => accepts' > 0
      /\ att'.state \in {"Settling", "Succeeded"} => receipt'
      /\ att'.state = "Succeeded" => result'
  <2>1. CASE att' = att
    BY <1>1, <1>2, <2>1 DEF EvidenceInv
  <2>2. CASE Commits(e)
    <3>1. /\ att'.state = "Accepted" => proc[e].pc = "accept"
          /\ att'.state = "Running" => proc[e].pc = "run"
          /\ att'.state = "Settling" => proc[e].pc = "settle"
          /\ att'.state = "Succeeded" => proc[e].pc = "succeed"
      BY <2>2 DEF Commits
    <3>2. /\ proc[e].pc \in {"accept", "run", "settle", "succeed"} => accepts > 0
          /\ proc[e].pc \in {"settle", "succeed"} => receipt
          /\ proc[e].pc = "succeed" => result
      BY DEF EvidenceInv, Heard, Done, Kept
    <3> QED BY <1>1, <1>2, <3>1, <3>2
  <2> QED BY <1>1, <2>1, <2>2
<1> QED BY <1>3, <1>4, <1>5, <1>6 DEF EvidenceInv

\* No write is committed over a settled attempt.
LEMMA SettledKept ==
    ASSUME TypeOK, VersionInv, NEW e \in Controllers, Commits(e)
    PROVE  att.state \notin Terminal
<1>1. Writable(proc[e], att.state)
  BY DEF Commits, VersionInv
<1> QED BY SMTT(60), <1>1 DEF Writable, Terminal

\* A controller's step keeps the outbox and the Task in agreement with the attempt.
LEMMA ProjectionStep ==
    ASSUME TypeOK, VersionInv, ProjectionInv, NEW e \in Controllers, ProcStep(e)
    PROVE  ProjectionInv'
<1>1. Moves(e) /\ (att' = att \/ Commits(e)) /\ epoch' = epoch /\ ProjectionFlow(e) /\ Tells(e)
  BY DEF ProcStep, Flows, LocalFlow, AttStep, Still
<1>2. epoch \in Controllers /\ proj \in Terminal \cup {"none"} /\ "none" \notin Terminal
  BY Types DEF Terminal
<1>3. task'.outcome # "none" => task'.outcome = proj'
  BY <1>1 DEF Tells, ProjectionInv
<1>4. \A d \in Controllers : proc'[d].pc = "project" => proj' = proc'[d].goal
  <2> SUFFICES ASSUME NEW d \in Controllers, proc'[d].pc = "project"
               PROVE  proj' = proc'[d].goal
    OBVIOUS
  <2>1. ASSUME proc[d].pc = "project", proc'[d].goal = proc[d].goal
        PROVE  proj' = proc'[d].goal
    <3>1. proj = proc[d].goal /\ proc[d].goal \in Terminal
      BY <2>1 DEF ProjectionInv, VersionInv, Shape
    <3>2. proj' = proj
      BY <1>1, <1>2, <3>1 DEF Tells
    <3> QED BY <2>1, <3>1, <3>2
  <2>2. CASE d = e
    BY <1>1, <2>1, <2>2 DEF ProjectionFlow
  <2>3. CASE d # e
    <3>1. proc'[d] = proc[d]
      BY <1>1, <2>3 DEF Moves
    <3> QED BY <2>1, <3>1
  <2> QED BY <2>2, <2>3
<1>5. ASSUME ~att'.late
      PROVE  /\ proj' # "none" => proj' = att'.state
             /\ proc'[epoch'].pc \in Past => att'.state \in Submitted
             /\ proc'[epoch'].pc = "finish" /\ proc'[epoch'].goal = "OutcomeUnknown" => att'.state \in Submitted
             /\ proc'[epoch'].pc = "succeeded" => att'.state = "Succeeded"
             /\ proc'[epoch'].pc = "enqueue" => att'.state = proc'[epoch'].goal
  <2>1. ~att.late /\ (att' = att \/ (Commits(e) /\ e = epoch))
    BY <1>1, <1>5 DEF Commits
  <2>2. /\ proj # "none" => proj = att.state
        /\ proc[epoch].pc \in Past => att.state \in Submitted
        /\ proc[epoch].pc = "finish" /\ proc[epoch].goal = "OutcomeUnknown" => att.state \in Submitted
        /\ proc[epoch].pc = "succeeded" => att.state = "Succeeded"
        /\ proc[epoch].pc = "enqueue" => att.state = proc[epoch].goal
    BY <2>1 DEF ProjectionInv
  <2>3. proj' # "none" => proj' = att'.state
    <3>1. CASE proj' = proj
      <4>1. CASE att' = att
        BY <2>2, <3>1, <4>1
      <4>2. CASE Commits(e)
        BY <1>2, <2>2, <3>1, <4>2, SettledKept
      <4> QED BY <1>1, <4>1, <4>2
    <3>2. CASE e = epoch /\ proc[e].pc = "enqueue" /\ proj' = proc[e].goal
      <4>1. att' = att
        BY <1>1, <3>2 DEF Commits, Writers
      <4> QED BY <2>2, <3>2, <4>1
    <3> QED BY <1>1, <3>1, <3>2 DEF Tells
  <2>4. CASE e = epoch
    <3>1. proc'[e].pc \in Past => att'.state \in Submitted
      BY <1>1, <2>2, <2>4 DEF ProjectionFlow
    <3>2. proc'[e].pc = "finish" /\ proc'[e].goal = "OutcomeUnknown" => att'.state \in Submitted
      BY <1>1, <2>2, <2>4 DEF ProjectionFlow
    <3>3. proc'[e].pc = "succeeded" => att'.state = "Succeeded"
      BY <1>1, <2>2, <2>4 DEF ProjectionFlow
    <3>4. proc'[e].pc = "enqueue" => att'.state = proc'[e].goal
      <4>1. Shape(proc[e])
        BY DEF VersionInv
      <4>2. proc[e].pc = "succeeded" => proc[e].goal = "Succeeded"
        BY <4>1 DEF Shape, Done
      <4> QED BY <1>1, <2>2, <2>4, <4>2 DEF ProjectionFlow
    <3> QED BY <1>1, <2>3, <2>4, <3>1, <3>2, <3>3, <3>4
  <2>5. CASE e # epoch
    <3>1. proc'[epoch] = proc[epoch] /\ att' = att
      BY <1>1, <1>2, <2>1, <2>5 DEF Moves
    <3> QED BY <1>1, <2>2, <2>3, <3>1
  <2> QED BY <2>4, <2>5
<1> QED BY <1>3, <1>4, <1>5 DEF ProjectionInv

----------------------------------------------------------------------------
(* The request and the environment. *)

\* The request is under way: it comes from the controller that is sending, which has outrun
\* the earlier ones and gives up taking it for unsent.
LEMMA SendStep ==
    ASSUME DispatchInv, NEW e \in Controllers, SendPrompt(e)
    PROVE  DispatchInv' /\ att' = att
<1> DEFINE q == [from |-> e, boot |-> proc[e].boot]
<1>1. /\ proc[e].pc = "send" /\ net' = net \cup {q} /\ goto(e, "await")
      /\ answer' = [answer EXCEPT ![e] = "none"]
      /\ epoch' = epoch /\ att' = att /\ task' = task /\ proj' = proj /\ delivered' = delivered
      /\ receipt' = receipt /\ result' = result /\ journal' = journal
      /\ cancel' = cancel /\ rt' = rt /\ accepts' = accepts /\ faults' = faults
  BY DEF SendPrompt, outboxVars, recordVars
<1>2. TypeOK /\ VersionInv /\ BoundaryInv /\ EvidenceInv /\ ProjectionInv
  BY DEF DispatchInv
<1>3. Goes(e, "await")
  BY <1>1, <1>2, GotoIs DEF PCs
<1>4. /\ Moves(e) /\ proc'[e].pc = "await" /\ proc'[e].ver = 0 /\ proc'[e].rec = proc[e].rec /\ proc'[e].goal = proc[e].goal
      /\ \A d \in Controllers : d # e => proc'[d] = proc[d]
  BY <1>3 DEF Goes, Moves
<1>5. q \in [from : Controllers, boot : 0 .. MaxBoot] /\ q.from = e
  <2>1. proc[e] \in ProcRec
    BY <1>2, Types
  <2>2. proc[e].boot \in 0 .. MaxBoot
    BY <2>1 DEF ProcRec
  <2> QED BY <2>2
<1> HIDE DEF q
<1>6. answer' \in [Controllers -> {"none", "accepted", "limited", "refused", "rejected"}] /\ answer'[e] = "none"
      /\ \A d \in Controllers : d # e => answer'[d] = answer[d]
  BY <1>1, <1>2, Types
<1>7. TypeOK'
  <2>1. proc' \in [Controllers -> ProcRec] /\ net' \subseteq [from : Controllers, boot : 0 .. MaxBoot]
    BY <1>1, <1>2, <1>4, <1>5, Types DEF Moves
  <2>2. /\ epoch' \in Controllers /\ att' \in AttRec /\ task' \in TaskRec /\ proj' \in Terminal \cup {"none"}
        /\ delivered' \in BOOLEAN /\ receipt' \in BOOLEAN /\ result' \in BOOLEAN /\ cancel' \in BOOLEAN
        /\ journal' \in Journals /\ rt' \in RtRec /\ accepts' \in Nat /\ faults' \in 0 .. MaxFaults
    BY <1>1, <1>2, Types
  <2> QED BY <1>6, <2>1, <2>2 DEF TypeOK, AttRec, TaskRec, Journals, RtRec, ProcRec
<1>8. VersionInv'
  <2> SUFFICES ASSUME NEW d \in Controllers
               PROVE  /\ Shape(proc'[d])
                      /\ proc'[d].pc # "down" => d <= epoch
                      /\ proc'[d].ver <= att.ver
                      /\ proc'[d].ver = att.ver => Writable(proc'[d], att.state)
    BY <1>1 DEF VersionInv
  <2>1. CASE d # e
    BY <1>2, <1>4, <2>1 DEF VersionInv
  <2>2. CASE d = e
    <3>1. Shape(proc[e]) /\ e <= epoch
      BY <1>1, <1>2 DEF VersionInv
    <3>2. ~proc[e].rec
      BY <1>1, <3>1 DEF Shape, RecPCs
    <3>3. Shape(proc'[e])
      BY <1>4, <3>2 DEF Shape, Done
    <3>4. 0 <= att.ver /\ 0 # att.ver
      BY SMTT(60), <1>2, Numbers
    <3> QED BY <1>4, <2>2, <3>1, <3>3, <3>4
  <2> QED BY <2>1, <2>2
<1>9. BoundaryInv'
  <2>1. Outrun(e) /\ e <= rt.epoch /\ Back(e) /\ (e = rt.epoch => att.state \notin PreSubmission)
    BY <1>1, <1>2 DEF BoundaryInv, Owned, Bound, Sent, Back
  <2>2. ~Back(e)'
    BY <1>4, <1>6 DEF Back
  <2>3. \A d \in Controllers : Back(d)' => d # e /\ Back(d) /\ proc'[d] = proc[d]
    BY <1>4, <1>6, <2>2 DEF Back
  <2>4. \A d \in Controllers : Outrun(d) => Outrun(d)'
    <3> SUFFICES ASSUME NEW d \in Controllers, Outrun(d), NEW c \in Controllers, c < d
                 PROVE  proc'[c].ver < att'.ver
      BY DEF Outrun
    <3>1. proc[c].ver < att.ver /\ 0 < att.ver
      BY SMTT(60), <1>2, Numbers DEF Outrun
    <3> QED BY <1>1, <1>4, <3>1
  <2>5. rt'.epoch <= epoch' /\ accepts' <= 1
    BY <1>1, <1>2 DEF BoundaryInv
  <2>6. \A d \in Controllers : proc'[d].pc \in Owned => Outrun(d)'
    BY <1>2, <1>4, <2>1, <2>4 DEF BoundaryInv
  <2>7. \A d \in Controllers : proc'[d].pc \in Bound => d <= rt'.epoch
    BY <1>1, <1>2, <1>4, <2>1 DEF BoundaryInv
  <2>8. \A d \in Controllers : d = rt'.epoch /\ proc'[d].pc \in Sent => att'.state \notin PreSubmission
    BY <1>1, <1>2, <1>4, <2>1 DEF BoundaryInv
  <2>9. \A r \in net' : r.from <= rt'.epoch /\ Outrun(r.from)'
    <3> SUFFICES ASSUME NEW r \in net \cup {q}
                 PROVE  r.from <= rt.epoch /\ Outrun(r.from)'
      BY <1>1
    <3>1. CASE r = q
      BY <1>5, <2>1, <2>4, <3>1
    <3>2. CASE r \in net
      <4>1. r.from \in Controllers /\ r.from <= rt.epoch /\ Outrun(r.from)
        BY <1>2, <3>2, Numbers DEF BoundaryInv
      <4> QED BY <2>4, <4>1
    <3> QED BY <3>1, <3>2
  <2>10. \A r \in net : r.from = rt.epoch => r.from # e /\ r.from \in Controllers /\ ~Back(r.from) /\ att.state \notin PreSubmission
    BY <1>2, <2>1, Numbers DEF BoundaryInv
  <2>11. \A r \in net' : r.from = rt'.epoch => att'.state \notin PreSubmission /\ ~Back(r.from)'
    <3> SUFFICES ASSUME NEW r \in net \cup {q}, r.from = rt.epoch
                 PROVE  att.state \notin PreSubmission /\ ~Back(r.from)'
      BY <1>1
    <3>1. CASE r = q
      BY <1>5, <2>1, <2>2, <3>1
    <3>2. CASE r \in net
      BY <2>3, <2>10, <3>2
    <3> QED BY <3>1, <3>2
  <2>12. \A r, s \in net' : r.from = rt'.epoch /\ s.from = rt'.epoch => r = s
    <3> SUFFICES ASSUME NEW r \in net \cup {q}, NEW s \in net \cup {q}, r.from = rt.epoch, s.from = rt.epoch
                 PROVE  r = s
      BY <1>1
    <3>1. CASE r = q
      BY <1>5, <2>10, <3>1
    <3>2. CASE s = q
      BY <1>5, <2>10, <3>2
    <3>3. CASE r \in net /\ s \in net
      BY <1>2, <3>3 DEF BoundaryInv
    <3> QED BY <3>1, <3>2, <3>3
  <2>13. ASSUME accepts' > 0
         PROVE  /\ att'.state \notin PreSubmission
                /\ \A r \in net' : r.from < rt'.epoch
                /\ \A d \in Controllers : Back(d)' => d < rt'.epoch /\ proc'[d].ver < att'.ver
    <3>1. /\ att.state \notin PreSubmission
          /\ \A r \in net : r.from < rt.epoch
          /\ \A d \in Controllers : Back(d) => d < rt.epoch /\ proc[d].ver < att.ver
      BY <1>1, <1>2, <2>13 DEF BoundaryInv
    <3>2. \A r \in net' : r.from < rt'.epoch
      BY <1>1, <1>5, <2>1, <3>1
    <3>3. \A d \in Controllers : Back(d)' => d < rt'.epoch /\ proc'[d].ver < att'.ver
      BY <1>1, <2>3, <3>1
    <3> QED BY <1>1, <3>1, <3>2, <3>3
  <2> QED BY <2>5, <2>6, <2>7, <2>8, <2>9, <2>11, <2>12, <2>13 DEF BoundaryInv
<1>10. EvidenceInv'
  <2>1. "await" \notin Heard \cup Done /\ "await" \notin Kept
    BY DEF Heard, Done, Kept
  <2>2. \A d \in Controllers :
        /\ answer'[d] = "accepted" => accepts' > 0
        /\ proc'[d].pc \in Heard \cup Done => accepts' > 0
        /\ proc'[d].pc \in Done \ {"receipt"} => receipt'
        /\ proc'[d].pc \in Kept => result'
        /\ proc'[d].pc = "settle" /\ proc'[d].rec => result'
    <3> SUFFICES ASSUME NEW d \in Controllers
                 PROVE  /\ answer'[d] = "accepted" => accepts > 0
                        /\ proc'[d].pc \in Heard \cup Done => accepts > 0
                        /\ proc'[d].pc \in Done \ {"receipt"} => receipt
                        /\ proc'[d].pc \in Kept => result
                        /\ proc'[d].pc = "settle" /\ proc'[d].rec => result
      BY <1>1
    <3>1. CASE d = e
      BY <1>4, <1>6, <2>1, <3>1
    <3>2. CASE d # e
      <4>1. proc'[d] = proc[d] /\ answer'[d] = answer[d]
        BY <1>4, <1>6, <3>2
      <4> QED BY <1>2, <4>1 DEF EvidenceInv
    <3> QED BY <3>1, <3>2
  <2> QED BY <1>1, <1>2, <2>2 DEF EvidenceInv
<1>11. ProjectionInv'
  <2>1. /\ epoch \in Controllers /\ "await" \in Past /\ "send" \in Past
    BY <1>2, Types DEF Past, Sent
  <2>2. \A d \in Controllers : proc'[d].pc = "project" => proj = proc'[d].goal
    BY <1>2, <1>4 DEF ProjectionInv
  <2>3. CASE epoch = e
    BY <1>1, <1>2, <1>4, <2>1, <2>2, <2>3 DEF ProjectionInv
  <2>4. CASE epoch # e
    <3>1. proc'[epoch] = proc[epoch]
      BY <1>4, <2>1, <2>4
    <3> QED BY <1>1, <1>2, <2>2, <3>1 DEF ProjectionInv
  <2> QED BY <2>3, <2>4
<1> QED BY <1>1, <1>7, <1>8, <1>9, <1>10, <1>11 DEF DispatchInv

\* The supervisor answers one request; the one it can accept is the only one from the
\* controller of its epoch, and no request was accepted before.
LEMMA AnswerInv ==
    ASSUME DispatchInv, NEW r \in net, handleStartPrompt(r)
    PROVE  DispatchInv' /\ att' = att
<1>1. /\ net' = net \ {r} /\ epoch' = epoch /\ att' = att /\ task' = task /\ proj' = proj /\ delivered' = delivered
      /\ receipt' = receipt /\ result' = result /\ journal' = journal /\ cancel' = cancel /\ proc' = proc
  BY DEF handleStartPrompt, outboxVars, recordVars
<1>2. TypeOK /\ VersionInv /\ BoundaryInv /\ EvidenceInv /\ ProjectionInv
  BY DEF DispatchInv
<1>3. r.from \in Controllers /\ answer \in [Controllers -> {"none", "accepted", "limited", "refused", "rejected"}]
  BY <1>2, Numbers, Types
<1>4. PICK a \in {"accepted", "limited", "refused", "rejected"} :
        /\ answer' = [answer EXCEPT ![r.from] = a]
        /\ a \in {"accepted", "limited"} => r.from = rt.epoch
        /\ IF a = "accepted" THEN accepts' = accepts + 1 /\ rt' = [rt EXCEPT !.prompt = "running"]
                             ELSE accepts' = accepts /\ rt' = rt
        /\ Fault \/ faults' = faults
  BY DEF handleStartPrompt, RuntimeAccepts
<1>5. /\ answer' \in [Controllers -> {"none", "accepted", "limited", "refused", "rejected"}] /\ answer'[r.from] = a
      /\ \A d \in Controllers : d # r.from => answer'[d] = answer[d]
  BY <1>3, <1>4
<1>6. rt' \in RtRec /\ rt'.epoch = rt.epoch /\ rt'.boot = rt.boot
  <2>1. rt \in RtRec
    BY <1>2, Types
  <2>2. CASE a = "accepted"
    BY <1>4, <2>1, <2>2 DEF RtRec
  <2>3. CASE a # "accepted"
    BY <1>4, <2>1, <2>3
  <2> QED BY <2>2, <2>3
<1>7. accepts' \in Nat /\ (accepts > 0 => accepts' > 0) /\ (a = "accepted" => accepts' > 0)
      /\ (accepts' > 0 => accepts > 0 \/ a = "accepted")
  BY SMTT(60), <1>2, <1>4, Numbers
<1>8. faults' \in 0 .. MaxFaults
  BY <1>2, <1>4, FaultType
<1>9. TypeOK'
  BY <1>1, <1>2, <1>5, <1>6, <1>7, <1>8 DEF TypeOK, RtRec
<1>10. VersionInv'
  BY <1>1, <1>2 DEF VersionInv
<1>11. BoundaryInv'
  <2>1. r.from <= rt.epoch /\ Outrun(r.from) /\ (r.from = rt.epoch => att.state \notin PreSubmission /\ ~Back(r.from))
    BY <1>2 DEF BoundaryInv
  <2>2. a \in {"accepted", "limited"} => ~(accepts > 0)
    <3> SUFFICES ASSUME r.from = rt.epoch, accepts > 0 PROVE FALSE
      BY <1>4
    <3>1. r.from < rt.epoch
      BY <1>2 DEF BoundaryInv
    <3> QED BY SMTT(60), <1>2, <3>1, Numbers
  <2>3. \A d \in Controllers : Outrun(d)' <=> Outrun(d)
    BY <1>1 DEF Outrun
  <2>4. \A d \in Controllers : Back(d)' => Back(d) \/ (d = r.from /\ a = "limited")
    BY <1>1, <1>5 DEF Back
  <2>5. rt'.epoch <= epoch'
    BY <1>1, <1>2, <1>6 DEF BoundaryInv
  <2>6. /\ \A d \in Controllers : proc'[d].pc \in Owned => Outrun(d)'
        /\ \A d \in Controllers : proc'[d].pc \in Bound => d <= rt'.epoch
        /\ \A d \in Controllers : d = rt'.epoch /\ proc'[d].pc \in Sent => att'.state \notin PreSubmission
    BY <1>1, <1>2, <1>6, <2>3 DEF BoundaryInv
  <2>7. \A s \in net' : s.from <= rt'.epoch /\ Outrun(s.from)'
    <3> SUFFICES ASSUME NEW s \in net PROVE s.from <= rt.epoch /\ Outrun(s.from)'
      BY <1>1, <1>6
    <3>1. s.from \in Controllers /\ s.from <= rt.epoch /\ Outrun(s.from)
      BY <1>2, Numbers DEF BoundaryInv
    <3> QED BY <2>3, <3>1
  <2>8. \A s \in net' : s.from = rt'.epoch => att'.state \notin PreSubmission /\ ~Back(s.from)'
    <3> SUFFICES ASSUME NEW s \in net, s # r, s.from = rt.epoch
                 PROVE  att.state \notin PreSubmission /\ ~Back(s.from)'
      BY <1>1, <1>6
    <3>1. s.from \in Controllers /\ att.state \notin PreSubmission /\ ~Back(s.from)
      BY <1>2, Numbers DEF BoundaryInv
    <3>2. r.from # rt.epoch
      BY <1>2 DEF BoundaryInv
    <3> QED BY <2>4, <3>1, <3>2
  <2>9. \A s, t \in net' : s.from = rt'.epoch /\ t.from = rt'.epoch => s = t
    BY <1>1, <1>2, <1>6 DEF BoundaryInv
  <2>10. accepts' <= 1
    <3>1. CASE a = "accepted"
      BY SMTT(60), <1>2, <1>4, <2>2, <3>1, Numbers
    <3>2. CASE a # "accepted"
      BY <1>2, <1>4, <3>2 DEF BoundaryInv
    <3> QED BY <3>1, <3>2
  <2>11. ASSUME accepts' > 0
         PROVE  /\ att'.state \notin PreSubmission
                /\ \A s \in net' : s.from < rt'.epoch
                /\ \A d \in Controllers : Back(d)' => d < rt'.epoch /\ proc'[d].ver < att'.ver
    <3>1. CASE accepts > 0
      <4>1. /\ att.state \notin PreSubmission
            /\ \A s \in net : s.from < rt.epoch
            /\ \A d \in Controllers : Back(d) => d < rt.epoch /\ proc[d].ver < att.ver
        BY <1>2, <3>1 DEF BoundaryInv
      <4>2. \A d \in Controllers : Back(d)' => Back(d)
        BY <2>2, <2>4, <3>1
      <4>3. \A d \in Controllers : Back(d)' => d < rt'.epoch /\ proc'[d].ver < att'.ver
        BY <1>1, <1>6, <4>1, <4>2
      <4> QED BY <1>1, <1>6, <4>1, <4>3
    <3>2. CASE a = "accepted"
      <4>1. r.from = rt.epoch /\ att.state \notin PreSubmission /\ ~Back(r.from)
        BY <1>4, <2>1, <3>2
      <4>2. \A s \in net' : s.from < rt'.epoch
        <5> SUFFICES ASSUME NEW s \in net, s # r PROVE s.from < rt.epoch
          BY <1>1, <1>6
        <5>1. s.from <= rt.epoch /\ s.from # rt.epoch /\ s.from \in Controllers
          BY <1>2, <4>1, Numbers DEF BoundaryInv
        <5> QED BY SMTT(60), <1>2, <5>1, Numbers
      <4>3. ASSUME NEW d \in Controllers, Back(d)'
            PROVE  d < rt'.epoch /\ proc'[d].ver < att'.ver
        <5>1. Back(d) /\ d # r.from
          BY <2>4, <3>2, <4>1, <4>3
        <5>2. d <= rt.epoch
          BY <1>2, <5>1 DEF BoundaryInv, Back, Bound
        <5>3. d < rt.epoch
          BY SMTT(60), <1>2, <4>1, <5>1, <5>2, Numbers
        <5>4. proc[d].ver < att.ver
          BY <2>1, <4>1, <5>3 DEF Outrun
        <5> QED BY <1>1, <1>6, <5>3, <5>4
      <4> QED BY <1>1, <4>1, <4>2, <4>3
    <3> QED BY <1>7, <2>11, <3>1, <3>2
  <2> QED BY <2>5, <2>6, <2>7, <2>8, <2>9, <2>10, <2>11 DEF BoundaryInv
<1>12. EvidenceInv'
  <2>1. \A d \in Controllers : answer'[d] = "accepted" => accepts' > 0
    BY <1>2, <1>5, <1>7 DEF EvidenceInv
  <2> QED BY <1>1, <1>2, <1>7, <2>1 DEF EvidenceInv
<1>13. ProjectionInv'
  BY <1>1, <1>2 DEF ProjectionInv
<1> QED BY <1>1, <1>9, <1>10, <1>11, <1>12, <1>13 DEF DispatchInv

\* Cancelling, the end of the prompt in the runtime and a new supervisor.
LEMMA RuntimeInv ==
    ASSUME DispatchInv, RequestCancel \/ RuntimeFinish \/ RuntimeReplace
    PROVE  DispatchInv' /\ att' = att
<1>1. /\ epoch' = epoch /\ att' = att /\ task' = task /\ proj' = proj /\ delivered' = delivered
      /\ receipt' = receipt /\ result' = result /\ journal' = journal /\ proc' = proc
      /\ net' = net /\ answer' = answer /\ accepts' = accepts /\ faults' = faults
  BY DEF RequestCancel, RuntimeFinish, RuntimeReplace, outboxVars, recordVars, runtimeVars
<1>2. TypeOK /\ VersionInv /\ BoundaryInv /\ EvidenceInv /\ ProjectionInv
  BY DEF DispatchInv
<1>3. cancel' \in BOOLEAN
  BY <1>2, Types DEF RequestCancel, RuntimeFinish, RuntimeReplace
<1>4. rt' \in RtRec /\ rt'.epoch \in {rt.epoch, epoch}
  <2>1. rt \in RtRec /\ epoch \in Controllers
    BY <1>2, Types
  <2>2. CASE RequestCancel
    BY <2>1, <2>2 DEF RequestCancel, runtimeVars
  <2>3. CASE RuntimeFinish
    BY <2>1, <2>3 DEF RuntimeFinish, RtRec
  <2>4. CASE RuntimeReplace
    <3>1. rt' = [boot |-> rt.boot + 1, epoch |-> epoch, prompt |-> "idle"] /\ rt.boot < MaxBoot
      BY <2>4 DEF RuntimeReplace
    <3>2. rt.boot + 1 \in 1 .. MaxBoot
      BY SMTT(60), <2>1, <3>1, DispatchAssumption DEF RtRec
    <3> QED BY <2>1, <3>1, <3>2 DEF RtRec
  <2> QED BY <2>2, <2>3, <2>4
<1>5. TypeOK'
  BY <1>1, <1>2, <1>3, <1>4 DEF TypeOK, RtRec
<1>6. VersionInv' /\ EvidenceInv' /\ ProjectionInv'
  BY <1>1, <1>2 DEF VersionInv, EvidenceInv, ProjectionInv
<1>7. BoundaryInv'
  <2>1. \A d \in Controllers : (Outrun(d)' <=> Outrun(d)) /\ (Back(d)' <=> Back(d))
    BY <1>1 DEF Outrun, Back
  <2>2. CASE rt'.epoch = rt.epoch
    <3>1. \A r \in net : r.from \in Controllers
      BY <1>2, Numbers
    <3> QED BY <1>1, <1>2, <2>1, <2>2, <3>1 DEF BoundaryInv
  <2>3. CASE rt'.epoch = epoch /\ rt.epoch # epoch
    <3>1. rt.epoch < epoch /\ epoch <= epoch
      BY SMTT(60), <1>2, <2>3, Numbers DEF BoundaryInv
    <3>2. \A d \in Controllers : d <= rt.epoch => d <= epoch /\ d < epoch
      BY SMTT(60), <1>2, <3>1, Numbers
    <3>3. \A d \in Controllers : d < epoch => d <= epoch /\ d # epoch
      BY SMTT(60), <1>2, Numbers
    <3>4. \A r \in net : r.from \in Controllers /\ r.from <= epoch /\ r.from < epoch /\ r.from # epoch /\ Outrun(r.from)
      BY <1>2, <3>2, <3>3, Numbers DEF BoundaryInv
    <3>5. \A d \in Controllers : proc[d].pc \in Bound => d <= epoch /\ d < epoch /\ d # epoch
      BY <1>2, <3>2, <3>3 DEF BoundaryInv
    <3>6. \A d \in Controllers : (proc[d].pc \in Sent \/ Back(d)) => proc[d].pc \in Bound
      BY DEF Sent, Bound, Back
    <3>7. \A d \in Controllers : Back(d) => d < epoch
      BY <3>5, <3>6
    <3>8. accepts > 0 => att.state \notin PreSubmission /\ \A d \in Controllers : Back(d) => proc[d].ver < att.ver
      BY <1>2 DEF BoundaryInv
    <3>9. /\ \A d \in Controllers : proc[d].pc \in Owned => Outrun(d)
          /\ accepts <= 1
      BY <1>2 DEF BoundaryInv
    <3> QED BY <1>1, <2>1, <2>3, <3>1, <3>4, <3>5, <3>6, <3>7, <3>8, <3>9 DEF BoundaryInv
  <2> QED BY <1>4, <2>2, <2>3
<1> QED BY <1>1, <1>5, <1>6, <1>7 DEF DispatchInv

\* The locals of a controller at rest.
LEMMA RestIs ==
    /\ Idle \in ProcRec /\ Idle.pc = "idle" /\ Idle.ver = 0 /\ ~Idle.rec
    /\ Down \in ProcRec /\ Down.pc = "down" /\ Down.ver = 0 /\ ~Down.rec
<1>1. Idle \in ProcRec /\ Idle.pc = "idle" /\ Idle.ver = 0 /\ ~Idle.rec
  BY SMTT(60), DispatchAssumption DEF Idle, ProcRec, PCs
<1>2. "down" \in PCs
  BY DEF PCs
<1> HIDE DEF Idle
<1> QED BY <1>1, <1>2 DEF Down, ProcRec

\* The controller that opens an epoch, or one that dies, holds no write and no request.
LEMMA RestInv ==
    ASSUME DispatchInv, NEW e \in Controllers, Crash(e) \/ (Takeover /\ e = epoch + 1)
    PROVE  DispatchInv' /\ att' = att
<1> DEFINE rest == proc'[e]
<1>1. /\ att' = att /\ task' = task /\ proj' = proj /\ delivered' = delivered
      /\ receipt' = receipt /\ result' = result /\ journal' = journal /\ cancel' = cancel
      /\ rt' = rt /\ net' = net /\ answer' = answer /\ accepts' = accepts /\ faults' = faults
  BY DEF Crash, Takeover, outboxVars, recordVars, runtimeVars
<1>2. TypeOK /\ VersionInv /\ BoundaryInv /\ EvidenceInv /\ ProjectionInv
  BY DEF DispatchInv
<1>3. /\ Idle \in ProcRec /\ Idle.pc = "idle" /\ Idle.ver = 0 /\ ~Idle.rec
      /\ Down \in ProcRec /\ Down.pc = "down" /\ Down.ver = 0 /\ ~Down.rec
  BY RestIs
<1>4. /\ epoch' \in Controllers /\ epoch <= epoch'
      /\ \/ epoch' = epoch /\ rest = Down
         \/ epoch' = e /\ rest = Idle
      /\ proc' \in [Controllers -> ProcRec] /\ \A d \in Controllers : d # e => proc'[d] = proc[d]
  <2>1. proc \in [Controllers -> ProcRec] /\ epoch \in Controllers
    BY <1>2, Types
  <2>2. CASE Crash(e)
    <3>1. proc' = [proc EXCEPT ![e] = Down] /\ epoch' = epoch
      BY <2>2 DEF Crash
    <3>2. epoch <= epoch
      BY SMTT(60), <1>2, Numbers
    <3> HIDE DEF Down
    <3> QED BY <1>3, <2>1, <3>1, <3>2
  <2>3. CASE Takeover /\ e = epoch + 1
    <3>1. proc' = [proc EXCEPT ![e] = Idle] /\ epoch' = e
      BY <2>3 DEF Takeover
    <3>2. epoch <= e
      BY SMTT(60), <1>2, <2>3, Numbers
    <3> HIDE DEF Idle
    <3> QED BY <1>3, <2>1, <3>1, <3>2
  <2> QED BY <2>2, <2>3
<1>5. rest.ver = 0 /\ rest.pc \in {"idle", "down"} /\ ~rest.rec /\ (rest.pc # "down" => e = epoch')
  BY <1>3, <1>4
<1> HIDE DEF rest
<1>6. TypeOK'
  <2>1. /\ epoch' \in Controllers /\ att' \in AttRec /\ task' \in TaskRec /\ proj' \in Terminal \cup {"none"}
        /\ delivered' \in BOOLEAN /\ receipt' \in BOOLEAN /\ result' \in BOOLEAN /\ cancel' \in BOOLEAN
        /\ journal' \in Journals /\ rt' \in RtRec /\ net' \subseteq [from : Controllers, boot : 0 .. MaxBoot]
        /\ answer' \in [Controllers -> {"none", "accepted", "limited", "refused", "rejected"}]
        /\ accepts' \in Nat /\ faults' \in 0 .. MaxFaults /\ proc' \in [Controllers -> ProcRec]
    BY <1>1, <1>2, <1>4, Types
  <2> QED BY <2>1 DEF TypeOK, AttRec, TaskRec, Journals, RtRec, ProcRec
<1>7. VersionInv'
  <2> SUFFICES ASSUME NEW d \in Controllers
               PROVE  /\ Shape(proc'[d])
                      /\ proc'[d].pc # "down" => d <= epoch'
                      /\ proc'[d].ver <= att.ver
                      /\ proc'[d].ver = att.ver => Writable(proc'[d], att.state)
    BY <1>1 DEF VersionInv
  <2>1. CASE d # e
    <3>1. proc'[d] = proc[d]
      BY <1>4, <2>1
    <3>2. d <= epoch => d <= epoch'
      BY SMTT(60), <1>2, <1>4, Numbers DEF Controllers
    <3> QED BY <1>2, <3>1, <3>2 DEF VersionInv
  <2>2. CASE d = e
    <3>1. Shape(rest)
      BY <1>5 DEF Shape, Done
    <3>2. 0 <= att.ver /\ 0 # att.ver
      BY SMTT(60), <1>2, Numbers
    <3>3. epoch' <= epoch'
      BY SMTT(60), <1>4, DispatchAssumption DEF Controllers
    <3> QED BY <1>5, <2>2, <3>1, <3>2, <3>3 DEF rest
  <2> QED BY <2>1, <2>2
<1>8. /\ \A d \in Controllers : proc'[d].pc \notin {"idle", "down"} => d # e /\ proc'[d] = proc[d]
      /\ \A d \in Controllers : proc'[d].ver = 0 \/ proc'[d] = proc[d]
  BY <1>4, <1>5 DEF rest
<1>9. BoundaryInv'
  <2>1. \A d \in Controllers : Outrun(d) => Outrun(d)'
    <3> SUFFICES ASSUME NEW d \in Controllers, Outrun(d), NEW c \in Controllers, c < d
                 PROVE  proc'[c].ver < att'.ver
      BY DEF Outrun
    <3>1. proc[c].ver < att.ver /\ 0 < att.ver
      BY SMTT(60), <1>2, Numbers DEF Outrun
    <3> QED BY <1>1, <1>8, <3>1
  <2>2. \A d \in Controllers : Back(d)' => Back(d) /\ proc'[d] = proc[d]
    BY <1>1, <1>8 DEF Back
  <2>3. \A d \in Controllers : proc'[d].pc \in Owned \cup Bound \cup Sent => proc'[d] = proc[d]
    BY <1>8 DEF Owned, Bound, Sent
  <2>4. rt'.epoch <= epoch'
    BY SMTT(60), <1>1, <1>2, <1>4, Numbers DEF BoundaryInv, Controllers
  <2>5. /\ \A d \in Controllers : proc'[d].pc \in Owned => Outrun(d)'
        /\ \A d \in Controllers : proc'[d].pc \in Bound => d <= rt'.epoch
        /\ \A d \in Controllers : d = rt'.epoch /\ proc'[d].pc \in Sent => att'.state \notin PreSubmission
    BY <1>1, <1>2, <2>1, <2>3 DEF BoundaryInv
  <2>6. /\ \A r \in net' : r.from <= rt'.epoch /\ Outrun(r.from)'
        /\ \A r \in net' : r.from = rt'.epoch => att'.state \notin PreSubmission /\ ~Back(r.from)'
    BY <1>1, <1>2, <2>1, <2>2, Numbers DEF BoundaryInv
  <2>7. /\ \A r, s \in net' : r.from = rt'.epoch /\ s.from = rt'.epoch => r = s
        /\ accepts' <= 1
        /\ accepts' > 0 =>
            /\ att'.state \notin PreSubmission
            /\ \A r \in net' : r.from < rt'.epoch
            /\ \A d \in Controllers : Back(d)' => d < rt'.epoch /\ proc'[d].ver < att'.ver
    BY <1>1, <1>2, <2>2 DEF BoundaryInv
  <2> QED BY <2>4, <2>5, <2>6, <2>7 DEF BoundaryInv
<1>10. EvidenceInv'
  <2>1. \A d \in Controllers :
        /\ answer'[d] = "accepted" => accepts' > 0
        /\ proc'[d].pc \in Heard \cup Done => accepts' > 0
        /\ proc'[d].pc \in Done \ {"receipt"} => receipt'
        /\ proc'[d].pc \in Kept => result'
        /\ proc'[d].pc = "settle" /\ proc'[d].rec => result'
    <3> SUFFICES ASSUME NEW d \in Controllers
                 PROVE  /\ answer[d] = "accepted" => accepts > 0
                        /\ proc'[d].pc \in Heard \cup Done => accepts > 0
                        /\ proc'[d].pc \in Done \ {"receipt"} => receipt
                        /\ proc'[d].pc \in Kept => result
                        /\ proc'[d].pc = "settle" /\ proc'[d].rec => result
      BY <1>1
    <3>1. CASE proc'[d].pc \in {"idle", "down"}
      BY <1>2, <3>1 DEF EvidenceInv, Heard, Done, Kept
    <3>2. CASE proc'[d] = proc[d]
      BY <1>2, <3>2 DEF EvidenceInv
    <3> QED BY <1>8, <3>1, <3>2
  <2> QED BY <1>1, <1>2, <2>1 DEF EvidenceInv
<1>11. ProjectionInv'
  <2>1. \A d \in Controllers : proc'[d].pc = "project" => proj' = proc'[d].goal
    BY <1>1, <1>2, <1>8 DEF ProjectionInv
  <2>2. CASE proc'[epoch'].pc \in {"idle", "down"}
    BY <1>1, <1>2, <2>1, <2>2 DEF ProjectionInv, Past, Sent, Heard
  <2>3. CASE proc'[epoch'].pc \notin {"idle", "down"}
    <3>1. epoch' = epoch /\ proc'[epoch] = proc[epoch]
      BY <1>4, <1>8, <2>3
    <3> QED BY <1>1, <1>2, <2>1, <3>1 DEF ProjectionInv
  <2> QED BY <2>2, <2>3
<1> QED BY <1>1, <1>6, <1>7, <1>9, <1>10, <1>11 DEF DispatchInv

----------------------------------------------------------------------------
(* The theorems. *)

\* At the start the attempt is queued and nothing has happened.
LEMMA DispatchInit == Init => DispatchInv
<1> SUFFICES ASSUME Init PROVE DispatchInv
  OBVIOUS
<1>1. /\ Idle \in ProcRec /\ Idle.pc = "idle" /\ Idle.ver = 0 /\ ~Idle.rec
      /\ Down \in ProcRec /\ Down.pc = "down" /\ Down.ver = 0 /\ ~Down.rec
  BY RestIs
<1>2. 1 \in Controllers /\ 1 \in 1 .. MaxVersion /\ 1 \in 1 .. MaxBoot /\ 0 \in 0 .. MaxFaults /\ 0 \in Nat /\ 1 <= 1 /\ 0 <= 1 /\ 0 # 1 /\ ~(0 > 0)
  BY SMTT(60), DispatchAssumption DEF Controllers
<1>3. /\ proc \in [Controllers -> ProcRec]
      /\ \A e \in Controllers : proc[e].ver = 0 /\ proc[e].pc \in {"idle", "down"} /\ ~proc[e].rec /\ (proc[e].pc # "down" => e = 1)
  BY <1>1 DEF Init
<1>4. /\ epoch = 1 /\ att.state = "Queued" /\ att.ver = 1 /\ ~att.late /\ att \in AttRec /\ task \in TaskRec /\ task.outcome = "none"
      /\ rt \in RtRec /\ rt.epoch = 1 /\ net = {} /\ accepts = 0 /\ faults = 0 /\ proj = "none" /\ ~result /\ ~receipt /\ journal = "none"
  BY <1>2 DEF Init, AttRec, TaskRec, RtRec, States, PreSubmission, Terminal
<1>5. TypeOK
  <2>1. delivered \in BOOLEAN /\ cancel \in BOOLEAN /\ answer \in [Controllers -> {"none", "accepted", "limited", "refused", "rejected"}]
    BY DEF Init
  <2>2. /\ epoch \in Controllers /\ proj \in Terminal \cup {"none"} /\ receipt \in BOOLEAN /\ result \in BOOLEAN
        /\ journal \in Journals /\ net \subseteq [from : Controllers, boot : 0 .. MaxBoot] /\ accepts \in Nat /\ faults \in 0 .. MaxFaults
    BY <1>2, <1>4 DEF Journals, Init
  <2>3. att \in AttRec /\ task \in TaskRec /\ rt \in RtRec /\ proc \in [Controllers -> ProcRec]
    BY <1>3, <1>4
  <2> QED BY <2>1, <2>2, <2>3, Types
<1>6. VersionInv
  BY <1>2, <1>3, <1>4 DEF VersionInv, Shape, Done
<1>7. BoundaryInv
  <2>1. \A e \in Controllers : proc[e].pc \notin Owned /\ proc[e].pc \notin Bound /\ proc[e].pc \notin Sent
    BY <1>3 DEF Owned, Bound, Sent
  <2> QED BY <1>2, <1>4, <2>1 DEF BoundaryInv
<1>8. EvidenceInv
  <2>1. \A e \in Controllers : proc[e].pc \notin Heard \cup Done /\ proc[e].pc \notin Kept /\ proc[e].pc # "settle" /\ answer[e] # "accepted"
    BY <1>3 DEF Heard, Done, Kept, Init
  <2> QED BY <1>4, <2>1 DEF EvidenceInv
<1>9. ProjectionInv
  BY <1>2, <1>3, <1>4 DEF ProjectionInv, Past, Sent, Heard
<1> QED BY <1>5, <1>6, <1>7, <1>8, <1>9 DEF DispatchInv

\* Every step keeps the invariant and leaves a settled attempt alone.
LEMMA DispatchNext ==
    ASSUME DispatchInv, [Next]_vars
    PROVE  DispatchInv' /\ (att.state \in Terminal => att' = att)
<1>1. CASE UNCHANGED vars
  <2>1. /\ epoch' = epoch /\ att' = att /\ task' = task /\ proj' = proj /\ delivered' = delivered
        /\ receipt' = receipt /\ result' = result /\ journal' = journal /\ cancel' = cancel
        /\ rt' = rt /\ net' = net /\ answer' = answer /\ accepts' = accepts /\ faults' = faults /\ proc' = proc
    BY <1>1 DEF vars
  <2>2. TypeOK'
    <3>1. TypeOK
      BY DEF DispatchInv
    <3>2. /\ epoch' \in Controllers /\ att' \in AttRec /\ task' \in TaskRec /\ proj' \in Terminal \cup {"none"}
          /\ delivered' \in BOOLEAN /\ receipt' \in BOOLEAN /\ result' \in BOOLEAN /\ cancel' \in BOOLEAN
          /\ journal' \in Journals /\ rt' \in RtRec /\ net' \subseteq [from : Controllers, boot : 0 .. MaxBoot]
          /\ answer' \in [Controllers -> {"none", "accepted", "limited", "refused", "rejected"}]
          /\ accepts' \in Nat /\ faults' \in 0 .. MaxFaults /\ proc' \in [Controllers -> ProcRec]
      BY <2>1, <3>1, Types
    <3> QED BY <3>2 DEF TypeOK, AttRec, TaskRec, Journals, RtRec, ProcRec
  <2>3. VersionInv' /\ BoundaryInv' /\ EvidenceInv' /\ ProjectionInv'
    <3>1. VersionInv'
      BY <2>1 DEF DispatchInv, VersionInv
    <3>2. BoundaryInv'
      BY <2>1 DEF DispatchInv, BoundaryInv, Outrun, Back
    <3>3. EvidenceInv'
      BY <2>1 DEF DispatchInv, EvidenceInv
    <3>4. ProjectionInv'
      BY <2>1 DEF DispatchInv, ProjectionInv
    <3> QED BY <3>1, <3>2, <3>3, <3>4
  <2> QED BY <2>1, <2>2, <2>3 DEF DispatchInv
<1>2. CASE \E e \in Controllers : Step(e)
  <2>1. PICK e \in Controllers : Step(e)
    BY <1>2
  <2>2. CASE SendPrompt(e)
    BY <2>2, SendStep
  <2>3. CASE ~SendPrompt(e)
    <3>1. TypeOK /\ VersionInv /\ BoundaryInv /\ EvidenceInv /\ ProjectionInv
      BY DEF DispatchInv
    <3>2. TypeOK' /\ ProcStep(e)
      BY <2>1, <2>3, <3>1, ControllerStep
    <3>3. VersionInv' /\ BoundaryInv' /\ EvidenceInv' /\ ProjectionInv'
      BY <3>1, <3>2, VersionStep, BoundaryStep, EvidenceStep, ProjectionStep
    <3>4. att' = att \/ Commits(e)
      BY <3>2 DEF ProcStep, AttStep
    <3> QED BY <3>1, <3>2, <3>3, <3>4, SettledKept DEF DispatchInv
  <2> QED BY <2>2, <2>3
<1>3. CASE \E e \in Controllers : Crash(e)
  BY <1>3, RestInv
<1>4. CASE \E r \in net : handleStartPrompt(r)
  BY <1>4, AnswerInv
<1>5. CASE RequestCancel \/ RuntimeFinish \/ RuntimeReplace
  BY <1>5, RuntimeInv
<1>6. CASE Takeover
  <2>1. epoch + 1 \in Controllers
    <3>1. epoch \in Controllers /\ epoch < MaxEpoch
      BY <1>6, Types DEF DispatchInv, Takeover
    <3> QED BY SMTT(60), <3>1, DispatchAssumption DEF Controllers
  <2> QED BY <1>6, <2>1, RestInv
<1> QED BY <1>1, <1>2, <1>3, <1>4, <1>5, <1>6 DEF Next

\* The invariant holds in every state: the compare-and-swap of PatchAgentAttemptState, the
\* epoch fence and the supervisor's own epoch keep it, for any number of controllers,
\* takeovers, crashes, lost requests and replaced runtimes.
THEOREM DispatchInvariant == Spec => []DispatchInv
<1>1. DispatchInv /\ [Next]_vars => DispatchInv'
  BY DispatchNext
<1> QED BY <1>1, DispatchInit, PTL DEF Spec

\* The invariant is the type invariant and the four promises of dispatch.
LEMMA DispatchPromises ==
    DispatchInv => TypeOK /\ AcceptedOnce /\ NeverBackInQueue /\ SuccessIsReal /\ ProjectionAgrees
<1> SUFFICES ASSUME DispatchInv
             PROVE  TypeOK /\ AcceptedOnce /\ NeverBackInQueue /\ SuccessIsReal /\ ProjectionAgrees
  OBVIOUS
<1>1. TypeOK /\ VersionInv /\ BoundaryInv /\ EvidenceInv /\ ProjectionInv
  BY DEF DispatchInv
<1>2. AcceptedOnce
  BY <1>1 DEF BoundaryInv, AcceptedOnce
<1>3. NeverBackInQueue
  BY <1>1 DEF BoundaryInv, NeverBackInQueue, RuntimeAccepts
<1>4. SuccessIsReal
  <2> SUFFICES ASSUME att.state = "Succeeded" PROVE accepts = 1 /\ receipt /\ result
    BY DEF SuccessIsReal
  <2>1. accepts > 0 /\ receipt /\ result
    BY <1>1 DEF EvidenceInv
  <2>2. accepts \in Nat /\ accepts <= 1
    BY <1>1, Types DEF BoundaryInv
  <2>3. accepts = 1
    BY SMTT(60), <2>1, <2>2
  <2> QED BY <2>1, <2>3
<1>5. ProjectionAgrees
  BY <1>1 DEF ProjectionInv, ProjectionAgrees
<1> QED BY <1>1, <1>2, <1>3, <1>4, <1>5

\* Every variable of the dispatch model keeps its type.
THEOREM DispatchTypes == Spec => []TypeOK
BY DispatchInvariant, DispatchPromises, PTL

\* The supervisor accepts the prompt at most once, however many controllers send it, however
\* often one of them takes its request for unsent, and whenever the request arrives.
THEOREM PromptAcceptedOnce == Spec => []AcceptedOnce
BY DispatchInvariant, DispatchPromises, PTL

\* Once the prompt was accepted, or while a request is on its way that the supervisor would
\* accept, no controller has put the attempt back before the request boundary.
THEOREM BoundaryHolds == Spec => []NeverBackInQueue
BY DispatchInvariant, DispatchPromises, PTL

\* An attempt that says Succeeded was accepted, its receipt and its result are saved.
THEOREM SuccessHolds == Spec => []SuccessIsReal
BY DispatchInvariant, DispatchPromises, PTL

\* The outbox and the Task tell the outcome the attempt has, as long as no write of it landed
\* after its epoch was superseded.
THEOREM OutboxAgrees == Spec => []ProjectionAgrees
BY DispatchInvariant, DispatchPromises, PTL

\* A settled attempt is never written again: a write that can commit was read from the state
\* the attempt is still in, and no controller reads a settled state for a write.
THEOREM SettledStays == Spec => TerminalStays
<1>1. DispatchInv /\ [Next]_vars => [att.state \in Terminal => att' = att]_vars
  BY DispatchNext
<1> QED BY <1>1, DispatchInvariant, PTL DEF Spec, TerminalStays
=============================================================================
