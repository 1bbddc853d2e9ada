-------------------------- MODULE Harvester_proofs --------------------------
(***************************************************************************)
(* What holds of Harvester for any number of harvesters, requests, firings *)
(* and records.  The invariant is built in layers, each one inductive      *)
(* relative to the layers before: types, the monitor, the schedule, the    *)
(* reason why a harvest is cancelled, and the copies of the status.        *)
(***************************************************************************)
EXTENDS Harvester, TLAPS

\* A thread that has been started has a harvester.
Targets == \A t \in Threads : pc[t] # "new" => on[t] \in Harvesters

TypeInv == TypeOK /\ Targets

LEMMA TypeInit == Init => TypeInv
  BY ThreadAssumption, OptionAssumption
  DEF Init, InitWith, TypeInv, TypeOK, Targets, Status, Replies, PCs, CallPCs, StopPCs, RunPCs

\* What update() does to the settings row and to the scheduler.
LEMMA TypeReconfigure ==
  ASSUME TypeInv, NEW h \in Harvesters, Reconfigure(h) \/ ReconfigureThrows(h)
  PROVE  /\ dbStatus' \in [Harvesters -> Status \cup {"none"}]
         /\ job' \in [Harvesters -> BOOLEAN]
         /\ manual' \in [Harvesters -> Nat]
<1>1. dbStatus' \in [Harvesters -> Status \cup {"none"}]
  BY DEF Reconfigure, ReconfigureThrows, SetDbStatus, TypeInv, TypeOK
<1>2. job' \in [Harvesters -> BOOLEAN]
  <2>1. job \in [Harvesters -> BOOLEAN]
    BY DEF TypeInv, TypeOK
  <2>2. CASE Reconfigure(h)
    BY <2>1, <2>2 DEF Reconfigure
  <2>3. CASE ReconfigureThrows(h)
    BY <2>1, <2>3 DEF ReconfigureThrows, Unschedule
  <2> QED
    BY <2>2, <2>3
<1>3. manual' \in [Harvesters -> Nat]
  BY DEF Reconfigure, ReconfigureThrows, Unschedule, TypeInv, TypeOK
<1> QED
  BY <1>1, <1>2, <1>3

\* The action of a request.
LEMMA TypeRequest ==
  ASSUME TypeInv, NEW r \in Requests, RequestStep(r)
  PROVE  TypeInv'
<1> USE OptionAssumption DEF TypeInv, TypeOK, Targets, Threads, Status, Replies, PCs, CallPCs, StopPCs, RunPCs,
        harvesterVars, dbVars, quartzVars, threadVars, Goto, Return, Free,
        SetDbStatus, Unschedule
<1> DEFINE h == on[r]
<1>h. r \in Threads /\ (pc[r] # "new" => h \in Harvesters)
  OBVIOUS
<1>1. CASE Start(r)
  <2>1. h \in Harvesters
    BY <1>1, <1>h DEF Start
  <2>2. status' \in [Harvesters -> Status] /\ dbStatus' \in [Harvesters -> Status \cup {"none"}]
    BY <1>1, <2>1 DEF Start, Activate, ActivateThrows
  <2>3. job' \in [Harvesters -> BOOLEAN]
    BY <1>1, <2>1 DEF Start, Activate, ActivateThrows
  <2>4. pc' \in [Threads -> PCs] /\ reply' \in [Threads -> Replies]
    BY <1>1, <2>1 DEF Start
  <2> QED
    BY <1>1, <2>1, <2>2, <2>3, <2>4 DEF Start
<1>2. CASE Run(r)
  <2>1. h \in Harvesters
    BY <1>2, <1>h DEF Run
  <2>2. status' \in [Harvesters -> Status] /\ dbStatus' \in [Harvesters -> Status \cup {"none"}]
    BY <1>2, <2>1 DEF Run, Activate, ActivateThrows
  <2>3. job' \in [Harvesters -> BOOLEAN]
    BY <1>2, <2>1 DEF Run, Activate, ActivateThrows
  <2>5. manual' \in [Harvesters -> Nat]
    BY <1>2, <2>1 DEF Run
  <2>4. pc' \in [Threads -> PCs] /\ reply' \in [Threads -> Replies]
    BY <1>2, <2>1 DEF Run
  <2> QED
    BY <1>2, <2>1, <2>2, <2>3, <2>4, <2>5 DEF Run
<1>3. CASE Update(r)
  <2>1. h \in Harvesters
    BY <1>3, <1>h DEF Update
  <2>2. /\ dbStatus' \in [Harvesters -> Status \cup {"none"}]
        /\ job' \in [Harvesters -> BOOLEAN]
        /\ manual' \in [Harvesters -> Nat]
    <3>1. CASE Reconfigure(h) \/ ReconfigureThrows(h)
      BY ONLY TypeInv, <2>1, <3>1, TypeReconfigure
    <3>2. CASE UNCHANGED <<dbStatus, quartzVars>>
      BY <3>2
    <3> QED
      BY <1>3, <3>1, <3>2 DEF Update
  <2>4. pc' \in [Threads -> PCs] /\ reply' \in [Threads -> Replies]
    BY <1>3, <2>1 DEF Update
  <2> QED
    BY <1>3, <2>1, <2>2, <2>4 DEF Update
<1>4. CASE Invoke(r)
  BY <1>4, ThreadAssumption DEF Invoke, BeginHarvest
<1>5. CASE StopSetsCancel(r)
  BY <1>5 DEF StopSetsCancel
<1>6. CASE StopGetsParams(r)
  BY <1>6 DEF StopGetsParams
<1>7. CASE StopInterrupts(r)
  BY <1>7 DEF StopInterrupts
<1>8. CASE StopBlock(r)
  <2>1. h \in Harvesters /\ arg[r] \in Status
    BY <1>8, <1>h DEF StopBlock
  <2>2. status' \in [Harvesters -> Status] /\ dbStatus' \in [Harvesters -> Status \cup {"none"}]
    BY <1>8, <2>1 DEF StopBlock
  <2>3. job' \in [Harvesters -> BOOLEAN] /\ manual' \in [Harvesters -> Nat]
    <3>1. Unschedule(h) \/ UNCHANGED quartzVars
      BY <1>8 DEF StopBlock
    <3>2. job' \in [Harvesters -> BOOLEAN]
      BY <2>1, <3>1, Zenon
    <3>3. manual' \in [Harvesters -> Nat]
      BY <2>1, <3>1
    <3> QED
      BY <3>2, <3>3
  <2>4. pc' \in [Threads -> PCs] /\ reply' \in [Threads -> Replies]
    BY <1>8, <2>1 DEF StopBlock
  <2>5. running' \in [Harvesters -> BOOLEAN]
    BY <1>8, <2>1 DEF StopBlock
  <2>6. Targets'
    BY <1>8, <2>1 DEF StopBlock
  <2>7. UNCHANGED <<cancel, lock, todo, records, history, on, arg>>
    BY <1>8 DEF StopBlock
  <2> QED
    BY <2>2, <2>3, <2>4, <2>5, <2>6, <2>7
<1> QED
  BY <1>1, <1>2, <1>3, <1>4, <1>5, <1>6, <1>7, <1>8 DEF RequestStep

\* The firing of a job.
LEMMA TypeQuartz ==
  ASSUME TypeInv, NEW f \in Firings, Quartz(f)
  PROVE  TypeInv'
<1> USE DEF TypeInv, TypeOK, Targets, Threads, PCs, RunPCs, harvesterVars, dbVars, quartzVars,
            Goto, CanFire, Fired
<1>1. ASSUME NEW h \in Harvesters, FireScheduled(f, h) PROVE TypeInv'
  BY <1>1 DEF FireScheduled
<1>2. ASSUME NEW h \in Harvesters, FireTriggered(f, h) PROVE TypeInv'
  BY <1>2 DEF FireTriggered
<1>3. CASE JobHarvests(f)
  BY <1>3 DEF JobHarvests, BeginHarvest
<1> QED
  BY <1>1, <1>2, <1>3 DEF Quartz

\* A step inside harvest().
LEMMA TypeHarvest ==
  ASSUME TypeInv, NEW t \in Threads, HarvestStep(t)
  PROVE  TypeInv'
<1> USE DEF TypeInv, TypeOK, Targets, Threads, Status, Replies, PCs, RunPCs,
            harvesterVars, dbVars, quartzVars, threadVars, Goto, SetDbStatus, Unschedule
<1> DEFINE h == on[t]
<1>1. CASE HarvestRecord(t)
  BY <1>1 DEF HarvestRecord
<1>2. CASE HarvestReturns(t)
  <2>1. h \in Harvesters
    BY <1>2 DEF HarvestReturns
  <2>2. status' \in [Harvesters -> Status] /\ dbStatus' \in [Harvesters -> Status \cup {"none"}]
    BY <1>2, <2>1 DEF HarvestReturns
  <2>3. job' \in [Harvesters -> BOOLEAN] /\ manual' \in [Harvesters -> Nat]
    <3>1. Unschedule(h) \/ UNCHANGED quartzVars
      BY <1>2 DEF HarvestReturns
    <3>2. job' \in [Harvesters -> BOOLEAN]
      BY <2>1, <3>1, Zenon
    <3>3. manual' \in [Harvesters -> Nat]
      BY <2>1, <3>1
    <3> QED
      BY <3>2, <3>3
  <2>4. running' \in [Harvesters -> BOOLEAN] /\ cancel' \in [Harvesters -> BOOLEAN]
    BY <1>2, <2>1 DEF HarvestReturns
  <2>5. pc' \in [Threads -> PCs] /\ reply' \in [Threads -> Replies] /\ Targets'
    BY <1>2, <2>1 DEF HarvestReturns
  <2>6. UNCHANGED <<lock, todo, records, history, on, arg>>
    BY <1>2 DEF HarvestReturns
  <2> QED
    BY <2>2, <2>3, <2>4, <2>5, <2>6
<1>3. CASE HarvestFails(t)
  BY <1>3 DEF HarvestFails
<1>4. CASE HarvestCloses(t)
  BY <1>4 DEF HarvestCloses
<1> QED
  BY <1>1, <1>2, <1>3, <1>4 DEF HarvestStep

LEMMA TypeNext == TypeInv /\ [Next]_vars => TypeInv'
<1> SUFFICES ASSUME TypeInv, [Next]_vars PROVE TypeInv'
  OBVIOUS
<1>1. ASSUME NEW r \in Requests, NEW h \in Harvesters, NEW m \in Methods, Call(r, h, m)
      PROVE  TypeInv'
  BY <1>1, OptionAssumption
  DEF Call, Goto, TypeInv, TypeOK, Targets, Threads, Status, PCs, CallPCs,
      harvesterVars, dbVars, quartzVars
<1>2. ASSUME NEW r \in Requests, RequestStep(r) PROVE TypeInv'
  BY <1>2, TypeRequest
<1>3. ASSUME NEW r \in Requests, DestroyStep(r) PROVE TypeInv'
  <2> USE DEF TypeInv, TypeOK, Targets, Threads, Replies, PCs, Unschedule, Goto, Return, harvesterVars
  <2>1. CASE Destroy(r, "done") /\ reply' = [reply EXCEPT ![r] = "ok"]
    BY <2>1 DEF Destroy
  <2>2. CASE DestroyFails(r)
    BY <2>2 DEF DestroyFails
  <2> QED
    BY <1>3, <2>1, <2>2 DEF DestroyStep
<1>4. ASSUME NEW f \in Firings, Quartz(f) PROVE TypeInv'
  BY <1>4, TypeQuartz
<1>5. ASSUME NEW t \in Threads, HarvestStep(t) PROVE TypeInv'
  BY <1>5, TypeHarvest
<1>6. CASE UNCHANGED vars
  BY <1>6 DEF vars, harvesterVars, dbVars, quartzVars, threadVars, TypeInv, TypeOK, Targets
<1> QED
  BY <1>1, <1>2, <1>3, <1>4, <1>5, <1>6 DEF Next, Terminating

THEOREM TypeCorrect == Spec => []TypeOK
<1>1. Spec => []TypeInv
  BY TypeInit, TypeNext, PTL DEF Spec
<1> QED
  BY <1>1, PTL DEF TypeInv

----------------------------------------------------------------------------
(* The monitor: it is owned exactly by the thread inside harvest(), and the *)
(* running flag is on only while it is owned.                               *)

MonitorInv ==
  /\ LockIsHarvest
  /\ \A h \in Harvesters : running[h] => lock[h] # NoThread

LEMMA MonitorInit == Init => MonitorInv
  BY ThreadAssumption DEF Init, InitWith, MonitorInv, LockIsHarvest, RunPCs

\* The steps that neither take nor give back a monitor.
Outside(t) ==
  /\ UNCHANGED lock
  /\ \A h \in Harvesters : running'[h] => running[h]
  /\ \A u \in Threads \ {t} : pc'[u] = pc[u] /\ on'[u] = on[u]
  /\ pc[t] \in RunPCs <=> pc'[t] \in RunPCs
  /\ pc[t] \in RunPCs => on'[t] = on[t]

LEMMA OutsideKeepsMonitor ==
  ASSUME TypeInv, MonitorInv, NEW t \in Threads, Outside(t)
  PROVE  MonitorInv'
  BY DEF MonitorInv, LockIsHarvest, Outside

\* harvest() begins when the monitor is free, and only then.
LEMMA BeginTakesMonitor ==
  ASSUME TypeInv, MonitorInv, NEW t \in Threads,
         pc[t] \in {"fired", "invoke"}, BeginHarvest(t, on[t])
  PROVE  MonitorInv'
<1> DEFINE h == on[t]
<1>1. h \in Harvesters
  BY DEF TypeInv, Targets
<1>2. /\ lock' = [lock EXCEPT ![h] = t]
      /\ pc' = [pc EXCEPT ![t] = "harvest"]
      /\ running' = [running EXCEPT ![h] = TRUE]
      /\ on' = on
      /\ lock[h] = NoThread
  BY DEF BeginHarvest, Goto, Free
<1>3. LockIsHarvest'
  BY <1>1, <1>2, ThreadAssumption DEF TypeInv, TypeOK, MonitorInv, LockIsHarvest, RunPCs
<1>4. \A k \in Harvesters : running'[k] => lock'[k] # NoThread
  BY <1>1, <1>2, ThreadAssumption DEF TypeInv, TypeOK, MonitorInv
<1> QED
  BY <1>3, <1>4 DEF MonitorInv

\* The finally block gives the monitor back and switches running off.
LEMMA CloseGivesMonitorBack ==
  ASSUME TypeInv, MonitorInv, NEW t \in Threads, HarvestCloses(t)
  PROVE  MonitorInv'
<1> DEFINE h == on[t]
<1>1. h \in Harvesters
  BY DEF TypeInv, Targets, HarvestCloses
<1>2. /\ lock' = [lock EXCEPT ![h] = NoThread]
      /\ pc' = [pc EXCEPT ![t] = "done"]
      /\ running' = [running EXCEPT ![h] = FALSE]
      /\ on' = on
      /\ pc[t] = "closing"
  BY DEF HarvestCloses, Goto
<1>3. LockIsHarvest'
  BY <1>1, <1>2, ThreadAssumption DEF TypeInv, TypeOK, MonitorInv, LockIsHarvest, RunPCs
<1>4. \A k \in Harvesters : running'[k] => lock'[k] # NoThread
  BY <1>1, <1>2 DEF TypeInv, TypeOK, MonitorInv
<1> QED
  BY <1>3, <1>4 DEF MonitorInv

LEMMA MonitorNext == TypeInv /\ MonitorInv /\ [Next]_vars => MonitorInv'
<1> SUFFICES ASSUME TypeInv, MonitorInv, [Next]_vars PROVE MonitorInv'
  OBVIOUS
<1> USE DEF Goto, Return, RunPCs, harvesterVars, dbVars, quartzVars, threadVars
<1>1. ASSUME NEW r \in Requests, NEW h \in Harvesters, NEW m \in Methods, Call(r, h, m)
      PROVE  MonitorInv'
  <2>1. Outside(r)
    BY <1>1, OptionAssumption DEF Call, Outside, TypeInv, TypeOK, Threads, CallPCs
  <2> QED
    BY <2>1, OutsideKeepsMonitor DEF Threads
<1>2. ASSUME NEW r \in Requests, RequestStep(r) PROVE MonitorInv'
  <2> r \in Threads
    BY DEF Threads
  <2>1. CASE Invoke(r)
    BY <2>1, BeginTakesMonitor DEF Invoke
  <2>2. CASE ~Invoke(r)
    <3>1. UNCHANGED <<lock, on>> /\ pc[r] \notin RunPCs
      BY <1>2, <2>2 DEF RequestStep, Start, Run, Update, StopSetsCancel, StopGetsParams,
         StopInterrupts, StopBlock
    <3>2. \E place \in {"params", "interrupt", "deactivate", "done"} : Goto(r, place)
      BY <1>2, <2>2 DEF RequestStep, Start, Run, Update, StopSetsCancel, StopGetsParams,
         StopInterrupts, StopBlock
    <3>3. running' \in {running, [running EXCEPT ![on[r]] = FALSE]}
      BY <1>2, <2>2 DEF RequestStep, Start, Run, Update, StopSetsCancel, StopGetsParams,
         StopInterrupts, StopBlock
    <3>4. Outside(r)
      BY <3>1, <3>2, <3>3 DEF Outside, TypeInv, TypeOK
    <3> QED
      BY <3>4, OutsideKeepsMonitor
  <2> QED
    BY <2>1, <2>2
<1>3. ASSUME NEW r \in Requests, DestroyStep(r) PROVE MonitorInv'
  <2>1. Outside(r)
    BY <1>3 DEF DestroyStep, Destroy, DestroyFails, Outside, TypeInv, TypeOK, Threads
  <2> QED
    BY <2>1, OutsideKeepsMonitor DEF Threads
<1>4. ASSUME NEW f \in Firings, Quartz(f) PROVE MonitorInv'
  <2> f \in Threads
    BY DEF Threads
  <2>1. ASSUME NEW h \in Harvesters, CanFire(f, h), Fired(f, h) PROVE Outside(f)
    BY <2>1 DEF CanFire, Fired, Outside, TypeInv, TypeOK
  <2>2. CASE JobHarvests(f)
    BY <2>2, BeginTakesMonitor DEF JobHarvests
  <2> QED
    BY <1>4, <2>1, <2>2, OutsideKeepsMonitor DEF Quartz, FireScheduled, FireTriggered
<1>5. ASSUME NEW t \in Threads, HarvestStep(t) PROVE MonitorInv'
  <2>1. CASE HarvestRecord(t)
    BY <2>1, OutsideKeepsMonitor DEF HarvestRecord, Outside
  <2>2. CASE HarvestReturns(t)
    <3>1. running' \in {running, [running EXCEPT ![on[t]] = FALSE]}
      BY <2>2 DEF HarvestReturns
    <3>2. pc[t] = "harvest" /\ Goto(t, "closing") /\ UNCHANGED <<lock, on>>
      BY <2>2 DEF HarvestReturns
    <3>3. Outside(t)
      BY <3>1, <3>2 DEF Outside, TypeInv, TypeOK
    <3> QED
      BY <3>3, OutsideKeepsMonitor
  <2>3. CASE HarvestFails(t)
    <3>1. Outside(t)
      BY <2>3 DEF HarvestFails, Outside, TypeInv, TypeOK
    <3> QED
      BY <3>1, OutsideKeepsMonitor
  <2>4. CASE HarvestCloses(t)
    BY <2>4, CloseGivesMonitorBack
  <2> QED
    BY <1>5, <2>1, <2>2, <2>3, <2>4 DEF HarvestStep
<1>6. CASE UNCHANGED vars
  BY <1>6 DEF vars, MonitorInv, LockIsHarvest
<1> QED
  BY <1>1, <1>2, <1>3, <1>4, <1>5, <1>6 DEF Next, Terminating

\* Two threads never harvest with the same object, and running is never left
\* on without a harvest (AbstractHarvester.harvest and stop).
THEOREM HarvestIsExclusive == Spec => []ExclusiveHarvest
<1>1. TypeInv /\ MonitorInv => ExclusiveHarvest
  BY DEF TypeInv, TypeOK, MonitorInv, LockIsHarvest, ExclusiveHarvest, Harvesting
<1>2. Spec => [](TypeInv /\ MonitorInv)
  BY TypeInit, TypeNext, MonitorInit, MonitorNext, PTL DEF Spec
<1> QED
  BY <1>1, <1>2, PTL

----------------------------------------------------------------------------
(* The schedule.  invoke() raises the status of an inactive harvester for   *)
(* the time of the harvest; what makes the lowering safe is that no job can *)
(* have been scheduled since, the monitor being taken.                      *)

Lowering(h) ==
  \E r \in Requests : on[r] = h /\ pc[r] \in RunPCs /\ arg[r] = "inactive"

ScheduleInv ==
  /\ ScheduledIsActive
  /\ \A h \in Harvesters : Lowering(h) => ~job[h]

LEMMA ScheduleInit == Init => ScheduleInv
  BY DEF Init, InitWith, ScheduleInv, ScheduledIsActive, Lowering, Threads, RunPCs

\* The steps that schedule nothing and begin no invoke().
SchedulesNothing ==
  /\ \A h \in Harvesters : job'[h] => job[h] /\ status'[h] \in {"active", status[h]}
  /\ \A h \in Harvesters : Lowering(h)' => Lowering(h)

LEMMA NothingScheduled ==
  ASSUME ScheduleInv, SchedulesNothing
  PROVE  ScheduleInv'
  BY DEF ScheduleInv, ScheduledIsActive, SchedulesNothing

\* start, run and update schedule only while the monitor is free.
LEMMA ScheduledWhileFree ==
  ASSUME TypeInv, MonitorInv, ScheduleInv,
         NEW r \in Requests, NEW h \in Harvesters, Free(h), pc[r] \notin RunPCs,
         status'[h] = "active",
         \A k \in Harvesters \ {h} : job'[k] = job[k] /\ status'[k] = status[k],
         Goto(r, "done"), UNCHANGED <<on, arg>>
  PROVE  ScheduleInv'
<1>1. \A k \in Harvesters : Lowering(k)' => Lowering(k)
  BY DEF Lowering, TypeInv, TypeOK, Goto, RunPCs, Threads
<1>2. ~Lowering(h)
  BY ThreadAssumption DEF Lowering, MonitorInv, LockIsHarvest, Free, Threads
<1> QED
  BY <1>1, <1>2 DEF ScheduleInv, ScheduledIsActive

\* The end of a harvest gives the harvester the status that invoke() found.
LEMMA CloseKeepsSchedule ==
  ASSUME TypeInv, MonitorInv, ScheduleInv, NEW t \in Threads, HarvestCloses(t)
  PROVE  ScheduleInv'
<1> DEFINE h == on[t]
<1>1. h \in Harvesters /\ pc[t] = "closing"
  BY DEF TypeInv, Targets, HarvestCloses
<1>2. /\ status' = [status EXCEPT ![h] = IF t \in Requests THEN arg[t] ELSE @]
      /\ pc' = [pc EXCEPT ![t] = "done"]
      /\ UNCHANGED <<job, on, arg>>
  BY DEF HarvestCloses, Goto, quartzVars
<1>3. \A k \in Harvesters : Lowering(k)' => Lowering(k)
  BY <1>1, <1>2 DEF Lowering, TypeInv, TypeOK, RunPCs, Threads
<1>4. ASSUME t \in Requests, job[h] PROVE arg[t] = "active"
  BY <1>1, <1>4 DEF ScheduleInv, Lowering, TypeInv, TypeOK, Status, RunPCs
<1>5. \A k \in Harvesters : job[k] => status'[k] = "active"
  BY <1>1, <1>2, <1>4 DEF ScheduleInv, ScheduledIsActive, TypeInv, TypeOK
<1> QED
  BY <1>2, <1>3, <1>5 DEF ScheduleInv, ScheduledIsActive

\* The request's own steps, one case for each method.
LEMMA ScheduleRequest ==
  ASSUME TypeInv, MonitorInv, ScheduleInv, NEW r \in Requests, RequestStep(r)
  PROVE  ScheduleInv'
<1> USE DEF harvesterVars, dbVars, quartzVars, threadVars
<1> DEFINE h == on[r]
<1>h. r \in Threads /\ (pc[r] # "new" => h \in Harvesters)
  BY DEF Threads, TypeInv, Targets
<1>q. ASSUME NEW place \in PCs \ RunPCs, Goto(r, place), UNCHANGED <<on, arg>>
      PROVE  \A k \in Harvesters : Lowering(k)' => Lowering(k)
  BY <1>q, <1>h DEF Goto, Lowering, TypeInv, TypeOK, Threads
<1>d. ASSUME Goto(r, "done"), UNCHANGED <<on, arg>>
      PROVE  \A k \in Harvesters : Lowering(k)' => Lowering(k)
  BY <1>d, <1>q DEF PCs, RunPCs
<1>1. CASE Start(r)
  <2>1. h \in Harvesters /\ Free(h) /\ pc[r] \notin RunPCs
    BY <1>1, <1>h DEF Start, RunPCs
  <2>2. Goto(r, "done") /\ UNCHANGED <<on, arg>>
    BY <1>1 DEF Start, Return
  <2>3. CASE UNCHANGED <<status, job>>
    BY <2>2, <2>3, <1>d, NothingScheduled DEF SchedulesNothing
  <2>4. CASE Activate(h) \/ ActivateThrows(h)
    <3>1. status'[h] = "active"
      BY <2>1, <2>4 DEF Activate, ActivateThrows, TypeInv, TypeOK
    <3>2. \A k \in Harvesters \ {h} : job'[k] = job[k] /\ status'[k] = status[k]
      BY <2>1, <2>4 DEF Activate, ActivateThrows, TypeInv, TypeOK
    <3> QED
      BY <2>1, <2>2, <3>1, <3>2, ScheduledWhileFree
  <2> QED
    BY <1>1, <2>3, <2>4 DEF Start
<1>2. CASE Run(r)
  <2>1. h \in Harvesters /\ Free(h) /\ pc[r] \notin RunPCs
    BY <1>2, <1>h DEF Run, RunPCs
  <2>2. Goto(r, "done") /\ UNCHANGED <<on, arg>>
    BY <1>2 DEF Run, Return
  <2>3. CASE UNCHANGED <<status, job>>
    BY <2>2, <2>3, <1>d, NothingScheduled DEF SchedulesNothing
  <2>4. CASE Activate(h) \/ ActivateThrows(h)
    <3>1. status'[h] = "active"
      BY <2>1, <2>4 DEF Activate, ActivateThrows, TypeInv, TypeOK
    <3>2. \A k \in Harvesters \ {h} : job'[k] = job[k] /\ status'[k] = status[k]
      BY <2>1, <2>4 DEF Activate, ActivateThrows, TypeInv, TypeOK
    <3> QED
      BY <2>1, <2>2, <3>1, <3>2, ScheduledWhileFree
  <2> QED
    BY <1>2, <2>3, <2>4 DEF Run
<1>3. CASE Update(r)
  <2>1. h \in Harvesters /\ Free(h) /\ pc[r] \notin RunPCs
    BY <1>3, <1>h DEF Update, RunPCs
  <2>2. Goto(r, "done") /\ UNCHANGED <<on, arg, status>>
    BY <1>3 DEF Update, Return
  <2>3. CASE status[h] = "active"
    <3>1. \A k \in Harvesters \ {h} : job'[k] = job[k]
      BY <1>3, <2>1 DEF Update, Reconfigure, ReconfigureThrows, Unschedule, TypeInv, TypeOK
    <3> QED
      BY <2>1, <2>2, <2>3, <3>1, ScheduledWhileFree
  <2>4. CASE status[h] # "active"
    <3>1. \A k \in Harvesters : job'[k] => job[k]
      BY <1>3, <2>1, <2>4 DEF Update, Reconfigure, ReconfigureThrows, TypeInv, TypeOK
    <3> QED
      BY <2>2, <3>1, <1>d, NothingScheduled DEF SchedulesNothing
  <2> QED
    BY <2>3, <2>4
<1>4. CASE Invoke(r)
  <2>1. h \in Harvesters /\ Free(h)
    BY <1>4, <1>h DEF Invoke, BeginHarvest
  <2>2. /\ arg' = [arg EXCEPT ![r] = status[h]]
        /\ status' = [status EXCEPT ![h] = "active"]
        /\ pc' = [pc EXCEPT ![r] = "harvest"]
        /\ UNCHANGED <<job, on>>
    BY <1>4 DEF Invoke, BeginHarvest, Goto
  <2>3. ScheduledIsActive'
    BY <2>1, <2>2 DEF ScheduleInv, ScheduledIsActive, TypeInv, TypeOK
  <2>4. ASSUME NEW k \in Harvesters, Lowering(k)' PROVE ~job[k]
    <3>1. CASE Lowering(k)
      BY <3>1 DEF ScheduleInv
    <3>2. CASE k = h /\ status[h] = "inactive"
      BY <2>1, <3>2 DEF ScheduleInv, ScheduledIsActive
    <3>3. Lowering(k) \/ (k = h /\ status[h] = "inactive")
      BY <2>2, <2>4, <1>h DEF Lowering, TypeInv, TypeOK, Threads
    <3> QED
      BY <3>1, <3>2, <3>3
  <2> QED
    BY <2>2, <2>3, <2>4 DEF ScheduleInv
<1>5. CASE StopSetsCancel(r) \/ StopGetsParams(r) \/ StopInterrupts(r)
  <2>1. \E place \in PCs \ RunPCs : Goto(r, place)
    BY <1>5 DEF StopSetsCancel, StopGetsParams, StopInterrupts, PCs, StopPCs, RunPCs
  <2>2. UNCHANGED <<job, status, on, arg>>
    BY <1>5 DEF StopSetsCancel, StopGetsParams, StopInterrupts
  <2> QED
    BY <2>1, <2>2, <1>q, NothingScheduled DEF SchedulesNothing
<1>6. CASE StopBlock(r)
  <2>1. h \in Harvesters /\ arg[r] \in Status
    BY <1>6, <1>h DEF StopBlock, TypeInv, TypeOK
  <2>2. Goto(r, "done") /\ UNCHANGED <<on, arg>>
    BY <1>6 DEF StopBlock, Return
  <2>3. \A k \in Harvesters : job'[k] => job[k] /\ status'[k] \in {"active", status[k]}
    BY <1>6, <2>1 DEF StopBlock, Unschedule, Status, TypeInv, TypeOK
  <2> QED
    BY <2>2, <2>3, <1>d, NothingScheduled DEF SchedulesNothing
<1> QED
  BY <1>1, <1>2, <1>3, <1>4, <1>5, <1>6 DEF RequestStep

LEMMA ScheduleNext == TypeInv /\ MonitorInv /\ ScheduleInv /\ [Next]_vars => ScheduleInv'
<1> SUFFICES ASSUME TypeInv, MonitorInv, ScheduleInv, [Next]_vars PROVE ScheduleInv'
  OBVIOUS
<1> USE DEF harvesterVars, dbVars, quartzVars, threadVars
<1>1. ASSUME NEW r \in Requests, NEW h \in Harvesters, NEW m \in Methods, Call(r, h, m)
      PROVE  ScheduleInv'
  <2>1. m \notin RunPCs /\ r \in Threads
    BY OptionAssumption DEF CallPCs, RunPCs, Threads
  <2>2. \A k \in Harvesters : Lowering(k)' => Lowering(k)
    BY <1>1, <2>1 DEF Call, Goto, Lowering, TypeInv, TypeOK, Threads
  <2> QED
    BY <1>1, <2>2, NothingScheduled DEF Call, SchedulesNothing
<1>2. ASSUME NEW r \in Requests, RequestStep(r) PROVE ScheduleInv'
  BY <1>2, ScheduleRequest
<1>3. ASSUME NEW r \in Requests, DestroyStep(r) PROVE ScheduleInv'
  <2>1. on[r] \in Harvesters
    BY <1>3 DEF DestroyStep, Destroy, DestroyFails, TypeInv, Targets, Threads
  <2>2. Unschedule(on[r]) /\ Goto(r, "done") /\ UNCHANGED <<status, on, arg>>
    BY <1>3 DEF DestroyStep, Destroy, DestroyFails, Return
  <2>3. \A k \in Harvesters : job'[k] => job[k]
    BY <2>1, <2>2 DEF Unschedule, TypeInv, TypeOK
  <2>4. \A k \in Harvesters : Lowering(k)' => Lowering(k)
    BY <2>2 DEF Goto, Lowering, TypeInv, TypeOK, Threads, RunPCs
  <2> QED
    BY <2>2, <2>3, <2>4, NothingScheduled DEF SchedulesNothing
<1>4. ASSUME NEW f \in Firings, Quartz(f) PROVE ScheduleInv'
  <2>1. UNCHANGED <<job, status, arg>>
    BY <1>4 DEF Quartz, FireScheduled, FireTriggered, Fired, JobHarvests, BeginHarvest
  <2>2. \A r \in Requests : pc'[r] = pc[r] /\ on'[r] = on[r]
    BY <1>4, ThreadAssumption
    DEF Quartz, FireScheduled, FireTriggered, Fired, JobHarvests, BeginHarvest, Goto,
        TypeInv, TypeOK, Threads
  <2> QED
    BY <2>1, <2>2, NothingScheduled DEF SchedulesNothing, Lowering
<1>5. ASSUME NEW t \in Threads, HarvestStep(t) PROVE ScheduleInv'
  <2>1. CASE HarvestRecord(t)
    BY <2>1, NothingScheduled DEF HarvestRecord, SchedulesNothing, Lowering
  <2>2. CASE HarvestReturns(t) \/ HarvestFails(t)
    <3>1. on[t] \in Harvesters /\ pc[t] = "harvest"
      BY <2>2 DEF HarvestReturns, HarvestFails, TypeInv, Targets
    <3>2. Goto(t, "closing") /\ UNCHANGED <<on, arg>>
      BY <2>2 DEF HarvestReturns, HarvestFails
    <3>3. \A k \in Harvesters : job'[k] => job[k] /\ status'[k] \in {"active", status[k]}
      BY <2>2, <3>1
      DEF HarvestReturns, HarvestFails, Unschedule, ScheduleInv, ScheduledIsActive, TypeInv, TypeOK
    <3>4. \A k \in Harvesters : Lowering(k)' => Lowering(k)
      BY <3>1, <3>2 DEF Goto, Lowering, TypeInv, TypeOK, RunPCs, Threads
    <3> QED
      BY <3>3, <3>4, NothingScheduled DEF SchedulesNothing
  <2>3. CASE HarvestCloses(t)
    BY <2>3, CloseKeepsSchedule
  <2> QED
    BY <1>5, <2>1, <2>2, <2>3 DEF HarvestStep
<1>6. CASE UNCHANGED vars
  BY <1>6 DEF vars, ScheduleInv, ScheduledIsActive, Lowering
<1> QED
  BY <1>1, <1>2, <1>3, <1>4, <1>5, <1>6 DEF Next, Terminating

\* A harvester that is not active has no job in the scheduler
\* (AbstractHarvester.start, stop, update, invoke and harvest).
THEOREM JobIsOfActive == Spec => []ScheduledIsActive
<1>1. Spec => [](TypeInv /\ MonitorInv /\ ScheduleInv)
  BY TypeInit, TypeNext, MonitorInit, MonitorNext, ScheduleInit, ScheduleNext, PTL DEF Spec
<1> QED
  BY <1>1, PTL DEF ScheduleInv

----------------------------------------------------------------------------
(* The reason for a cancellation.  Relative to the monitor, CancelHasCause  *)
(* is inductive as it stands: stop() leaves the list of causes only with    *)
(* the monitor in hand, when no harvest is on.                              *)

Stopping(h)     == \E r \in Requests : on[r] = h /\ pc[r] \in StopPCs
OneRunEnding(h) == h \in OneRunOnly /\ \E t \in Threads : on[t] = h /\ pc[t] = "closing"

CancelInv ==
  \A h \in Harvesters : Harvesting(h) /\ cancel[h] => Stopping(h) \/ OneRunEnding(h)

LEMMA CancelInit == Init => CancelInv
  BY DEF Init, InitWith, CancelInv

\* Every step either cancels nothing and keeps the causes, or leaves the
\* harvester without a harvest, without a cancellation, or with a cause.
LEMMA CauseKept ==
  ASSUME CancelInv,
         \A h \in Harvesters :
           \/ ~Harvesting(h)' \/ ~cancel'[h] \/ Stopping(h)' \/ OneRunEnding(h)'
           \/ /\ Harvesting(h)' => Harvesting(h)
              /\ cancel'[h] => cancel[h]
              /\ Stopping(h) => Stopping(h)'
              /\ OneRunEnding(h) => OneRunEnding(h)'
  PROVE  CancelInv'
  BY DEF CancelInv

\* A thread that is neither in stop() nor in harvest(), before or after.
LEMMA Bystander ==
  ASSUME TypeInv, CancelInv, NEW t \in Threads, NEW place,
         pc[t] \notin StopPCs \cup RunPCs, place \notin RunPCs,
         pc' = [pc EXCEPT ![t] = place],
         \A u \in Threads \ {t} : on'[u] = on[u],
         \A h \in Harvesters : cancel'[h] => cancel[h]
  PROVE  CancelInv'
<1>1. \A u \in Threads \ {t} : pc'[u] = pc[u]
  BY DEF TypeInv, TypeOK
<1>2. pc'[t] = place
  BY DEF TypeInv, TypeOK
<1>3. ASSUME NEW h \in Harvesters
      PROVE  /\ Harvesting(h)' => Harvesting(h)
             /\ Stopping(h) => Stopping(h)'
             /\ OneRunEnding(h) => OneRunEnding(h)'
  BY <1>1, <1>2, <1>3 DEF Harvesting, Stopping, OneRunEnding, Threads, RunPCs
<1> QED
  BY <1>3, CauseKept

\* The lines of stop().
LEMMA CancelStop ==
  ASSUME TypeInv, MonitorInv, CancelInv, NEW r \in Requests,
         StopSetsCancel(r) \/ StopGetsParams(r) \/ StopInterrupts(r) \/ StopBlock(r)
  PROVE  CancelInv'
<1>0. PICK h \in Harvesters : h = on[r]
  BY DEF StopSetsCancel, StopGetsParams, StopInterrupts, StopBlock, Threads, TypeInv, Targets
<1>1. r \in Threads /\ h = on[r] /\ h \in Harvesters /\ UNCHANGED on
  BY <1>0 DEF StopSetsCancel, StopGetsParams, StopInterrupts, StopBlock, Threads
<1>2. \A k \in Harvesters \ {h} : cancel'[k] = cancel[k]
  BY <1>1 DEF StopSetsCancel, StopGetsParams, StopInterrupts, StopBlock, harvesterVars,
              TypeInv, TypeOK
<1>3. \E place \in StopPCs \cup {"done"} : pc' = [pc EXCEPT ![r] = place]
  BY DEF StopSetsCancel, StopGetsParams, StopInterrupts, StopBlock, StopPCs, Goto, Return
<1>4. pc[r] \in StopPCs \cup {"stop"}
  BY DEF StopSetsCancel, StopGetsParams, StopInterrupts, StopBlock, StopPCs
<1>5. \A u \in Threads \ {r} : pc'[u] = pc[u]
  BY <1>3 DEF TypeInv, TypeOK
<1>6. pc'[r] \in StopPCs \cup {"done"}
  BY <1>1, <1>3 DEF TypeInv, TypeOK
<1>7. ASSUME NEW k \in Harvesters
      PROVE  /\ Harvesting(k)' => Harvesting(k)
             /\ k # h /\ Stopping(k) => Stopping(k)'
             /\ OneRunEnding(k) => OneRunEnding(k)'
  BY <1>1, <1>4, <1>5, <1>6
  DEF Harvesting, Stopping, OneRunEnding, Threads, RunPCs, StopPCs
<1>8. ~Harvesting(h)' \/ Stopping(h)'
  <2>1. CASE StopBlock(r)
    <3>1. ~Harvesting(h)
      BY <1>1, <2>1, ThreadAssumption
      DEF StopBlock, Free, MonitorInv, LockIsHarvest, Harvesting
    <3> QED
      BY <1>1, <1>7, <3>1
  <2>2. CASE ~StopBlock(r)
    <3>1. pc'[r] \in StopPCs
      BY <1>1, <2>2
      DEF StopSetsCancel, StopGetsParams, StopInterrupts, StopPCs, Goto, TypeInv, TypeOK
    <3> QED
      BY <1>1, <3>1 DEF Stopping
  <2> QED
    BY <2>1, <2>2
<1>9. ASSUME NEW k \in Harvesters
      PROVE  \/ ~Harvesting(k)' \/ ~cancel'[k] \/ Stopping(k)' \/ OneRunEnding(k)'
             \/ /\ Harvesting(k)' => Harvesting(k)
                /\ cancel'[k] => cancel[k]
                /\ Stopping(k) => Stopping(k)'
                /\ OneRunEnding(k) => OneRunEnding(k)'
  <2>1. CASE k = h
    BY <2>1, <1>8
  <2>2. CASE k # h
    BY <2>2, <1>2, <1>7
  <2> QED
    BY <2>1, <2>2
<1> QED
  BY <1>9, CauseKept

\* harvest() begins with the flag reset, and ends with nobody harvesting.
LEMMA CancelHarvest ==
  ASSUME TypeInv, MonitorInv, CancelInv, NEW t \in Threads,
         \/ pc[t] \in {"fired", "invoke"} /\ BeginHarvest(t, on[t])
         \/ HarvestStep(t)
  PROVE  CancelInv'
<1>0. PICK h \in Harvesters : h = on[t]
  BY DEF HarvestStep, HarvestRecord, HarvestReturns, HarvestFails, HarvestCloses, TypeInv, Targets
<1>1. h = on[t] /\ h \in Harvesters /\ UNCHANGED on
  BY <1>0 DEF BeginHarvest, HarvestStep, HarvestRecord, HarvestReturns, HarvestFails,
              HarvestCloses, threadVars
<1>2. \E place \in {"harvest", "closing", "done"} : pc' = [pc EXCEPT ![t] = place]
  BY DEF BeginHarvest, HarvestStep, HarvestRecord, HarvestReturns, HarvestFails, HarvestCloses,
         threadVars, Goto, TypeInv, TypeOK
<1>3. pc[t] \in {"fired", "invoke", "harvest", "closing"}
  BY DEF HarvestStep, HarvestRecord, HarvestReturns, HarvestFails, HarvestCloses
<1>4. \A u \in Threads \ {t} : pc'[u] = pc[u]
  BY <1>2 DEF TypeInv, TypeOK
<1>5. \A k \in Harvesters : Stopping(k) => Stopping(k)'
  BY <1>1, <1>3, <1>4 DEF Stopping, StopPCs, Threads
<1>6. \A k \in Harvesters \ {h} :
        (Harvesting(k)' => Harvesting(k)) /\ (OneRunEnding(k) => OneRunEnding(k)')
  BY <1>1, <1>4 DEF Harvesting, OneRunEnding
<1>7. \A k \in Harvesters \ {h} : cancel'[k] = cancel[k]
  BY <1>1 DEF BeginHarvest, HarvestStep, HarvestRecord, HarvestReturns, HarvestFails,
              HarvestCloses, harvesterVars, TypeInv, TypeOK
<1>8. \/ ~Harvesting(h)' \/ ~cancel'[h] \/ OneRunEnding(h)'
      \/ /\ Harvesting(h)' => Harvesting(h)
         /\ cancel'[h] => cancel[h]
         /\ OneRunEnding(h) => OneRunEnding(h)'
  <2>1. CASE BeginHarvest(t, on[t])
    BY <1>1, <2>1 DEF BeginHarvest, TypeInv, TypeOK
  <2>2. CASE HarvestRecord(t)
    BY <2>2 DEF HarvestRecord, threadVars, Harvesting, OneRunEnding
  <2>3. CASE HarvestFails(t)
    <3>1. pc[t] = "harvest" /\ pc'[t] = "closing" /\ UNCHANGED cancel
      BY <2>3 DEF HarvestFails, Goto, harvesterVars, TypeInv, TypeOK
    <3>2. Harvesting(h)
      BY <1>1, <3>1 DEF Harvesting, RunPCs
    <3>3. OneRunEnding(h) => OneRunEnding(h)'
      BY <1>1, <3>1 DEF OneRunEnding
    <3> QED
      BY <3>1, <3>2, <3>3
  <2>4. CASE HarvestReturns(t)
    <3>1. pc[t] = "harvest" /\ pc'[t] = "closing"
      BY <2>4 DEF HarvestReturns, Goto, TypeInv, TypeOK
    <3>2. Harvesting(h)
      BY <1>1, <3>1 DEF Harvesting, RunPCs
    <3>3. CASE h \in OneRunOnly
      BY <1>1, <3>1, <3>3 DEF OneRunEnding
    <3>4. CASE h \notin OneRunOnly
      <4>1. UNCHANGED cancel
        BY <1>1, <2>4, <3>4 DEF HarvestReturns
      <4> QED
        BY <3>2, <3>4, <4>1 DEF OneRunEnding
    <3> QED
      BY <3>3, <3>4
  <2>5. CASE HarvestCloses(t)
    BY <1>1, <2>5 DEF HarvestCloses, TypeInv, TypeOK
  <2> QED
    BY <2>1, <2>2, <2>3, <2>4, <2>5 DEF HarvestStep
<1>9. ASSUME NEW k \in Harvesters
      PROVE  \/ ~Harvesting(k)' \/ ~cancel'[k] \/ Stopping(k)' \/ OneRunEnding(k)'
             \/ /\ Harvesting(k)' => Harvesting(k)
                /\ cancel'[k] => cancel[k]
                /\ Stopping(k) => Stopping(k)'
                /\ OneRunEnding(k) => OneRunEnding(k)'
  <2>1. CASE k = h
    BY <2>1, <1>8, <1>5
  <2>2. CASE k # h
    BY <2>2, <1>5, <1>6, <1>7
  <2> QED
    BY <2>1, <2>2
<1> QED
  BY <1>9, CauseKept

LEMMA CancelNext == TypeInv /\ MonitorInv /\ CancelInv /\ [Next]_vars => CancelInv'
<1> SUFFICES ASSUME TypeInv, MonitorInv, CancelInv, [Next]_vars PROVE CancelInv'
  OBVIOUS
<1> USE DEF harvesterVars, Goto, Return
<1>1. ASSUME NEW r \in Requests, NEW h \in Harvesters, NEW m \in Methods, Call(r, h, m)
      PROVE  CancelInv'
  <2>1. m \notin RunPCs /\ pc[r] \notin StopPCs \cup RunPCs /\ r \in Threads
    BY <1>1, OptionAssumption DEF Call, CallPCs, StopPCs, RunPCs, Threads
  <2>2. \A u \in Threads \ {r} : on'[u] = on[u]
    BY <1>1 DEF Call, TypeInv, TypeOK
  <2> QED
    BY <1>1, <2>1, <2>2, Bystander DEF Call
<1>2. ASSUME NEW r \in Requests, RequestStep(r) PROVE CancelInv'
  <2> r \in Threads
    BY DEF Threads
  <2>1. CASE Start(r) \/ Run(r) \/ Update(r)
    <3>1. pc[r] \notin StopPCs \cup RunPCs /\ pc' = [pc EXCEPT ![r] = "done"]
      BY <2>1 DEF Start, Run, Update, StopPCs, RunPCs
    <3>2. UNCHANGED <<cancel, on>>
      BY <2>1 DEF Start, Run, Update
    <3> QED
      BY <3>1, <3>2, Bystander DEF RunPCs
  <2>2. CASE Invoke(r)
    BY <2>2, CancelHarvest DEF Invoke
  <2>3. CASE StopSetsCancel(r) \/ StopGetsParams(r) \/ StopInterrupts(r) \/ StopBlock(r)
    BY <2>3, CancelStop
  <2> QED
    BY <1>2, <2>1, <2>2, <2>3 DEF RequestStep
<1>3. ASSUME NEW r \in Requests, DestroyStep(r) PROVE CancelInv'
  <2>1. pc[r] \notin StopPCs \cup RunPCs /\ pc' = [pc EXCEPT ![r] = "done"]
    BY <1>3 DEF DestroyStep, Destroy, DestroyFails, StopPCs, RunPCs
  <2>2. UNCHANGED <<cancel, on>>
    BY <1>3 DEF DestroyStep, Destroy, DestroyFails
  <2> QED
    BY <2>1, <2>2, Bystander DEF RunPCs, Threads
<1>4. ASSUME NEW f \in Firings, Quartz(f) PROVE CancelInv'
  <2> f \in Threads
    BY DEF Threads
  <2>1. ASSUME NEW h \in Harvesters, CanFire(f, h), Fired(f, h) PROVE CancelInv'
    <3>1. pc[f] \notin StopPCs \cup RunPCs /\ pc' = [pc EXCEPT ![f] = "fired"]
      BY <2>1 DEF CanFire, Fired, StopPCs, RunPCs
    <3>2. UNCHANGED cancel /\ \A u \in Threads \ {f} : on'[u] = on[u]
      BY <2>1 DEF Fired, TypeInv, TypeOK
    <3> QED
      BY <3>1, <3>2, Bystander DEF RunPCs
  <2>2. CASE JobHarvests(f)
    BY <2>2, CancelHarvest DEF JobHarvests
  <2> QED
    BY <1>4, <2>1, <2>2 DEF Quartz, FireScheduled, FireTriggered
<1>5. ASSUME NEW t \in Threads, HarvestStep(t) PROVE CancelInv'
  BY <1>5, CancelHarvest
<1>6. CASE UNCHANGED vars
  BY <1>6 DEF vars, threadVars, CancelInv, Harvesting, Stopping, OneRunEnding
<1> QED
  BY <1>1, <1>2, <1>3, <1>4, <1>5, <1>6 DEF Next, Terminating

\* A harvest is cut short only on behalf of a stop() that still waits for it,
\* or of the one-run harvest's own stop (AbstractHarvester.stop and harvest).
THEOREM CancellationHasCause == Spec => []CancelHasCause
<1>1. CancelInv => CancelHasCause
  BY DEF CancelInv, CancelHasCause, Stopping, OneRunEnding, StopPCs
<1>2. Spec => [](TypeInv /\ MonitorInv /\ CancelInv)
  BY TypeInit, TypeNext, MonitorInit, MonitorNext, CancelInit, CancelNext, PTL DEF Spec
<1> QED
  BY <1>1, <1>2, PTL

-----------------------------------------------------------------------------
(* When the three copies of a harvester's status agree, the field of the    *)
(* object, the settings row and the job of the scheduler.  They do not      *)
(* always: the theorems name the calls and options that make them differ.   *)

\* The status a harvester has once the harvest in progress is over: invoke()
\* puts back the one it found.
Settled(h) == IF lock[h] \in Requests THEN arg[lock[h]] ELSE status[h]

\* No schedule is refused, and no one-run harvester is invoked: its own stop()
\* would be undone by the finally block of invoke().
Calm == NeverFires = {} /\ (OneRunOnly = {} \/ "invoke" \notin Methods)

\* Requests do what they were sent for.
CallInv ==
  \A r \in Requests :
    /\ pc[r] \in {"invoke"} \cup RunPCs => "invoke" \in Methods
    /\ pc[r] \in {"stop"} \cup StopPCs => arg[r] \in StopStatuses
    /\ pc[r] = "destroy" => "destroy" \in Methods

AgreeInv == \A h \in Harvesters : dbStatus[h] \in {"none", Settled(h)}
KeptInv  == \A h \in Harvesters : Settled(h) = "active" => job[h]

-----------------------------------------------------------------------------
(* Who has called what.                                                     *)

LEMMA CallInit == Init => CallInv
  BY DEF Init, InitWith, CallInv, Threads, RunPCs, StopPCs

LEMMA CallNext == TypeInv /\ CallInv /\ [Next]_vars => CallInv'
<1> SUFFICES ASSUME TypeInv, CallInv, [Next]_vars PROVE CallInv'
  OBVIOUS
<1> USE DEF CallInv, TypeInv, TypeOK, Threads, RunPCs, StopPCs, Goto, Return,
            harvesterVars, dbVars, quartzVars, threadVars
<1>1. ASSUME NEW r \in Requests, NEW h \in Harvesters, NEW m \in Methods, Call(r, h, m)
      PROVE  CallInv'
  <2>1. \A q \in Requests \ {r} : pc'[q] = pc[q] /\ arg'[q] = arg[q]
    BY <1>1 DEF Call
  <2>2. pc'[r] = m /\ (m = "stop" => arg'[r] \in StopStatuses)
    BY <1>1 DEF Call
  <2>3. m \in CallPCs
    BY OptionAssumption
  <2> QED
    BY <2>1, <2>2, <2>3 DEF CallPCs
<1>2. ASSUME NEW r \in Requests, RequestStep(r) PROVE CallInv'
  <2>1. CASE Start(r) \/ Run(r) \/ Update(r)
    BY <2>1 DEF Start, Run, Update
  <2>2. CASE Invoke(r)
    BY <2>2 DEF Invoke, BeginHarvest
  <2>3. CASE StopSetsCancel(r) \/ StopGetsParams(r) \/ StopInterrupts(r)
    BY <2>3 DEF StopSetsCancel, StopGetsParams, StopInterrupts
  <2>4. CASE StopBlock(r)
    <3>1. pc' = [pc EXCEPT ![r] = "done"] /\ UNCHANGED arg
      BY <2>4 DEF StopBlock
    <3> QED
      BY <3>1
  <2> QED
    BY <1>2, <2>1, <2>2, <2>3, <2>4 DEF RequestStep
<1>3. ASSUME NEW r \in Requests, DestroyStep(r) PROVE CallInv'
  BY <1>3 DEF DestroyStep, Destroy, DestroyFails
<1>4. ASSUME NEW f \in Firings, Quartz(f) PROVE CallInv'
  <2>1. UNCHANGED arg /\ \A r \in Requests : pc'[r] = pc[r]
    BY <1>4, ThreadAssumption
    DEF Quartz, FireScheduled, FireTriggered, Fired, JobHarvests, BeginHarvest
  <2> QED
    BY <2>1
<1>5. ASSUME NEW t \in Threads, HarvestStep(t) PROVE CallInv'
  <2>1. UNCHANGED arg /\ \/ UNCHANGED pc
                         \/ pc' = [pc EXCEPT ![t] = "closing"] /\ pc[t] = "harvest"
                         \/ pc' = [pc EXCEPT ![t] = "done"]
    BY <1>5 DEF HarvestStep, HarvestRecord, HarvestReturns, HarvestFails, HarvestCloses
  <2> QED
    BY <2>1
<1>6. CASE UNCHANGED vars
  BY <1>6 DEF vars
<1> QED
  BY <1>1, <1>2, <1>3, <1>4, <1>5, <1>6 DEF Next, Terminating

-----------------------------------------------------------------------------
(* What a step may do to the status of one harvester.                       *)

\* The others keep theirs.
Aside(h) ==
  \A k \in Harvesters \ {h} :
    dbStatus'[k] = dbStatus[k] /\ job'[k] = job[k] /\ Settled(k)' = Settled(k)

\* The row is set to the settled status, or neither of them changes.
AgreesAfter(h) ==
  \/ dbStatus'[h] \in {"none", Settled(h)'}
  \/ dbStatus'[h] = dbStatus[h] /\ Settled(h)' = Settled(h)

\* What is settled as active has a job, unless it was, and the job is as it was.
KeptAfter(h) ==
  Settled(h)' = "active" => job'[h] \/ (Settled(h) = "active" /\ job'[h] = job[h])

Untouched == \A h \in Harvesters :
               dbStatus'[h] = dbStatus[h] /\ job'[h] = job[h] /\ Settled(h)' = Settled(h)

\* What the theorem on the schedule asks for, besides Calm.
Keeping == StopStatuses \subseteq {"inactive"} /\ "destroy" \notin Methods

StatusStep ==
  \/ Untouched
  \/ \E h \in Harvesters : Aside(h) /\ AgreesAfter(h) /\ (Keeping => KeptAfter(h))

LEMMA StepAgrees == AgreeInv /\ StatusStep => AgreeInv'
  BY DEF AgreeInv, StatusStep, Aside, AgreesAfter, Untouched

LEMMA StepKeeps == Keeping /\ KeptInv /\ StatusStep => KeptInv'
  BY DEF KeptInv, StatusStep, Aside, KeptAfter, Untouched

\* A monitor's owner is inside harvest(), so that calls leave arg alone.
LEMMA OwnersAre ==
  ASSUME TypeInv, MonitorInv, NEW h \in Harvesters, lock[h] # NoThread
  PROVE  lock[h] \in Threads /\ on[lock[h]] = h /\ pc[lock[h]] \in RunPCs
  BY DEF TypeInv, TypeOK, MonitorInv, LockIsHarvest

LEMMA FreeSettled ==
  ASSUME NEW h \in Harvesters, Free(h)
  PROVE  Settled(h) = status[h]
  BY ThreadAssumption DEF Free, Settled, Threads

LEMMA AsideOf ==
  ASSUME TypeInv, MonitorInv, NEW h,
         \A k \in Harvesters \ {h} : /\ status'[k] = status[k] /\ dbStatus'[k] = dbStatus[k]
                                     /\ job'[k] = job[k] /\ lock'[k] = lock[k],
         \A q \in Requests : pc[q] \in RunPCs => arg'[q] = arg[q]
  PROVE  Aside(h)
<1> SUFFICES ASSUME NEW k \in Harvesters \ {h} PROVE Settled(k)' = Settled(k)
  BY DEF Aside
<1>1. CASE lock[k] \in Requests
  <2>1. pc[lock[k]] \in RunPCs
    BY <1>1, OwnersAre, ThreadAssumption DEF Threads
  <2> QED
    BY <1>1, <2>1 DEF Settled
<1>2. CASE lock[k] \notin Requests
  BY <1>2 DEF Settled
<1> QED
  BY <1>1, <1>2

LEMMA UntouchedBy ==
  ASSUME TypeInv, MonitorInv, UNCHANGED <<status, dbStatus, job, lock>>,
         \A q \in Requests : pc[q] \in RunPCs => arg'[q] = arg[q]
  PROVE  StatusStep
<1>1. \A k \in Harvesters : Settled(k)' = Settled(k)
  <2> SUFFICES ASSUME NEW k \in Harvesters PROVE Settled(k)' = Settled(k)
    OBVIOUS
  <2>1. CASE lock[k] \in Requests
    <3>1. pc[lock[k]] \in RunPCs
      BY <2>1, OwnersAre, ThreadAssumption DEF Threads
    <3> QED
      BY <2>1, <3>1 DEF Settled
  <2>2. CASE lock[k] \notin Requests
    BY <2>2 DEF Settled
  <2> QED
    BY <2>1, <2>2
<1> QED
  BY <1>1 DEF StatusStep, Untouched

\* A call that finds the monitor free leaves it free.
LEMMA FreeStep ==
  ASSUME TypeInv, MonitorInv, NEW h \in Harvesters, Free(h), UNCHANGED <<lock, arg>>,
         \A k \in Harvesters \ {h} : /\ status'[k] = status[k] /\ dbStatus'[k] = dbStatus[k]
                                     /\ job'[k] = job[k],
         \/ dbStatus'[h] \in {"none", status'[h]}
         \/ dbStatus'[h] = dbStatus[h] /\ status'[h] = status[h],
         Keeping /\ status'[h] = "active" =>
           job'[h] = TRUE \/ (status[h] = "active" /\ job'[h] = job[h])
  PROVE  StatusStep
<1>1. Settled(h) = status[h] /\ Settled(h)' = status'[h]
  BY FreeSettled, ThreadAssumption DEF Free, Settled, Threads
<1>2. Aside(h)
  BY AsideOf
<1> QED
  BY <1>1, <1>2 DEF StatusStep, AgreesAfter, KeptAfter

LEMMA StatusRequest ==
  ASSUME TypeInv, MonitorInv, CallInv, Calm, NEW r \in Requests, RequestStep(r)
  PROVE  StatusStep
<1> USE DEF harvesterVars, dbVars, quartzVars, threadVars
<1>0. PICK h \in Harvesters : h = on[r]
  BY DEF RequestStep, Start, Run, Update, Invoke, StopSetsCancel, StopGetsParams,
         StopInterrupts, StopBlock, Threads, TypeInv, Targets
<1>h. r \in Threads /\ h = on[r] /\ h \in Harvesters
  BY <1>0 DEF Threads
<1>t. /\ status \in [Harvesters -> Status] /\ dbStatus \in [Harvesters -> Status \cup {"none"}]
      /\ job \in [Harvesters -> BOOLEAN]
  BY DEF TypeInv, TypeOK
<1>1. CASE Start(r) \/ Run(r)
  <2>1. h \in Harvesters /\ Free(h) /\ UNCHANGED <<lock, arg>>
    BY <1>1, <1>h DEF Start, Run
  <2>2. CASE UNCHANGED <<status, dbStatus, job>>
    BY <2>1, <2>2, UntouchedBy
  <2>3. CASE Activate(h)
    <3>1. /\ dbStatus' = [dbStatus EXCEPT ![h] = IF @ = "none" THEN "none" ELSE "active"]
          /\ status' = [status EXCEPT ![h] = "active"] /\ job' = [job EXCEPT ![h] = TRUE]
      BY <2>3 DEF Activate, SetDbStatus
    <3>2. \A k \in Harvesters \ {h} : /\ status'[k] = status[k] /\ dbStatus'[k] = dbStatus[k]
                                      /\ job'[k] = job[k]
      BY <1>t, <3>1
    <3>3. dbStatus'[h] \in {"none", status'[h]}
      BY <1>t, <2>1, <3>1
    <3>4. job'[h] = TRUE
      BY <1>t, <2>1, <3>1
    <3> QED
      BY <2>1, <3>2, <3>3, <3>4, FreeStep
  <2> QED
    BY <1>1, <1>h, <2>2, <2>3 DEF Start, Run, Calm
<1>2. CASE Update(r)
  <2>1. h \in Harvesters /\ Free(h) /\ UNCHANGED <<lock, arg, status>>
    BY <1>2, <1>h DEF Update
  <2>2. CASE UNCHANGED <<dbStatus, quartzVars>>
    BY <2>1, <2>2, UntouchedBy
  <2>3. CASE Reconfigure(h)
    <3>1. \A k \in Harvesters \ {h} : dbStatus'[k] = dbStatus[k] /\ job'[k] = job[k]
      BY <1>t, <2>3 DEF Reconfigure, SetDbStatus
    <3>2. dbStatus'[h] \in {"none", status'[h]}
      BY <1>t, <2>1, <2>3 DEF Reconfigure, SetDbStatus
    <3>3. status'[h] = "active" => job'[h] = TRUE
      <4>1. job' = [job EXCEPT ![h] = job[h] \/ status[h] = "active"]
        BY <2>3 DEF Reconfigure
      <4>2. CASE status[h] = "active"
        <5>1. job[h] \/ status[h] = "active" <=> TRUE
          BY <4>2
        <5>2. job' = [job EXCEPT ![h] = TRUE]
          BY <4>1, <5>1, Zenon
        <5> QED
          BY <1>t, <2>1, <5>2
      <4> QED
        BY <2>1, <4>2
    <3> QED
      BY <2>1, <3>1, <3>2, <3>3, FreeStep
  <2> QED
    BY <1>2, <2>2, <2>3, <1>h DEF Update, ReconfigureThrows, Calm
<1>3. CASE Invoke(r)
  <2>1. /\ h \in Harvesters /\ Free(h) /\ pc[r] = "invoke" /\ UNCHANGED <<dbStatus, job>>
        /\ lock' = [lock EXCEPT ![h] = r] /\ arg' = [arg EXCEPT ![r] = status[h]]
        /\ status' = [status EXCEPT ![h] = "active"]
    BY <1>3, <1>h DEF Invoke, BeginHarvest
  <2>2. Settled(h) = status[h]
    BY <2>1, FreeSettled
  <2>3. Settled(h)' = status[h]
    BY <1>h, <2>1 DEF Settled, TypeInv, TypeOK
  <2>4. \A q \in Requests : pc[q] \in RunPCs => arg'[q] = arg[q]
    BY <2>1 DEF TypeInv, TypeOK, RunPCs, Threads
  <2>5. Aside(h)
    <3>1. \A k \in Harvesters \ {h} : /\ status'[k] = status[k] /\ dbStatus'[k] = dbStatus[k]
                                      /\ job'[k] = job[k] /\ lock'[k] = lock[k]
      BY <2>1 DEF TypeInv, TypeOK
    <3> QED
      BY <2>4, <3>1, AsideOf
  <2> QED
    BY <2>1, <2>2, <2>3, <2>5 DEF StatusStep, AgreesAfter, KeptAfter
<1>4. CASE StopSetsCancel(r) \/ StopGetsParams(r) \/ StopInterrupts(r)
  BY <1>4, UntouchedBy DEF StopSetsCancel, StopGetsParams, StopInterrupts
<1>5. CASE StopBlock(r)
  <2>1. /\ h \in Harvesters /\ Free(h) /\ UNCHANGED <<lock, arg>>
        /\ arg[r] \in StopStatuses /\ arg[r] \in Status
    BY <1>5, <1>h DEF StopBlock, CallInv, StopPCs, TypeInv, TypeOK
  <2>2. dbStatus' = [dbStatus EXCEPT ![h] = IF @ = "none" THEN "none" ELSE arg[r]]
    BY <1>5, <1>h DEF StopBlock, SetDbStatus
  <2>3. status' = [status EXCEPT ![h] = arg[r]]
    BY <1>5, <1>h, <1>t, <2>1 DEF StopBlock, Status
  <2>4. job' = job \/ job' = [job EXCEPT ![h] = FALSE]
    BY <1>5, <1>h DEF StopBlock, Unschedule
  <2>5. Keeping => arg[r] = "inactive"
    BY <2>1 DEF Keeping
  <2>6. \A k \in Harvesters \ {h} : /\ status'[k] = status[k] /\ dbStatus'[k] = dbStatus[k]
                                    /\ job'[k] = job[k]
    BY <1>t, <2>2, <2>3, <2>4
  <2>7. dbStatus'[h] \in {"none", status'[h]} /\ status'[h] = arg[r]
    BY <1>t, <2>1, <2>2, <2>3
  <2> QED
    BY <2>1, <2>5, <2>6, <2>7, FreeStep
<1> QED
  BY <1>1, <1>2, <1>3, <1>4, <1>5 DEF RequestStep

LEMMA StatusHarvest ==
  ASSUME TypeInv, MonitorInv, CallInv, Calm, NEW t \in Threads, HarvestStep(t)
  PROVE  StatusStep
<1> USE DEF harvesterVars, dbVars, quartzVars, threadVars
<1>0. PICK h \in Harvesters : h = on[t]
  BY DEF HarvestStep, HarvestRecord, HarvestReturns, HarvestFails, HarvestCloses,
         TypeInv, Targets
<1>1. h = on[t] /\ h \in Harvesters /\ pc[t] \in RunPCs /\ UNCHANGED arg
  BY <1>0 DEF HarvestStep, HarvestRecord, HarvestReturns, HarvestFails, HarvestCloses,
              TypeInv, Targets, RunPCs
<1>2. lock[h] = t
  BY <1>1 DEF MonitorInv, LockIsHarvest
<1>t. /\ status \in [Harvesters -> Status] /\ dbStatus \in [Harvesters -> Status \cup {"none"}]
      /\ job \in [Harvesters -> BOOLEAN]
  BY DEF TypeInv, TypeOK
<1>3. CASE UNCHANGED <<status, dbStatus, job, lock>>
  BY <1>1, <1>3, UntouchedBy
<1>4. CASE HarvestReturns(t) /\ h \in OneRunOnly
  <2>1. t \notin Requests
    BY <1>1, <1>4 DEF CallInv, Calm
  <2>2. /\ UNCHANGED lock /\ status' = [status EXCEPT ![h] = "inactive"]
        /\ dbStatus' = [dbStatus EXCEPT ![h] = IF @ = "none" THEN "none" ELSE "inactive"]
        /\ job' = job \/ job' = [job EXCEPT ![h] = FALSE]
    BY <1>1, <1>4 DEF HarvestReturns, SetDbStatus, Unschedule
  <2>3. Settled(h)' = "inactive"
    BY <1>1, <1>2, <1>t, <2>1, <2>2 DEF Settled
  <2>4. dbStatus'[h] \in {"none", "inactive"}
    BY <1>1, <1>t, <2>2
  <2>5. Aside(h)
    <3>1. \A k \in Harvesters \ {h} : /\ status'[k] = status[k] /\ dbStatus'[k] = dbStatus[k]
                                      /\ job'[k] = job[k] /\ lock'[k] = lock[k]
      BY <1>t, <2>2
    <3> QED
      BY <1>1, <3>1, AsideOf
  <2> QED
    BY <1>1, <2>3, <2>4, <2>5 DEF StatusStep, AgreesAfter, KeptAfter
<1>5. CASE HarvestCloses(t)
  <2>1. /\ lock' = [lock EXCEPT ![h] = NoThread] /\ UNCHANGED <<dbStatus, job>>
        /\ status' = [status EXCEPT ![h] = IF t \in Requests THEN arg[t] ELSE @]
    BY <1>1, <1>5 DEF HarvestCloses
  <2>2. status'[h] = Settled(h)
    BY <1>1, <1>2, <1>t, <2>1 DEF Settled
  <2>3. Settled(h)' = status'[h]
    BY <1>1, <2>1, ThreadAssumption DEF Settled, TypeInv, TypeOK, Threads
  <2>4. Aside(h)
    <3>1. \A k \in Harvesters \ {h} : /\ status'[k] = status[k] /\ dbStatus'[k] = dbStatus[k]
                                      /\ job'[k] = job[k] /\ lock'[k] = lock[k]
      BY <1>t, <2>1 DEF TypeInv, TypeOK
    <3> QED
      BY <1>1, <3>1, AsideOf
  <2> QED
    BY <1>1, <2>1, <2>2, <2>3, <2>4 DEF StatusStep, AgreesAfter, KeptAfter
<1> QED
  BY <1>1, <1>3, <1>4, <1>5 DEF HarvestStep, HarvestRecord, HarvestReturns, HarvestFails

LEMMA StatusNext ==
  ASSUME TypeInv, MonitorInv, CallInv, Calm, [Next]_vars
  PROVE  StatusStep \/ \E r \in Requests : DestroyStep(r)
<1> USE DEF harvesterVars, dbVars, quartzVars, threadVars
<1>1. ASSUME NEW r \in Requests, NEW h \in Harvesters, NEW m \in Methods, Call(r, h, m)
      PROVE  StatusStep
  <2>1. \A q \in Requests : pc[q] \in RunPCs => arg'[q] = arg[q]
    BY <1>1 DEF Call, TypeInv, TypeOK, RunPCs, Threads
  <2> QED
    BY <1>1, <2>1, UntouchedBy DEF Call
<1>2. ASSUME NEW f \in Firings, Quartz(f) PROVE StatusStep
  <2>1. CASE UNCHANGED <<status, dbStatus, job, lock, arg>>
    BY <2>1, UntouchedBy
  <2>2. CASE JobHarvests(f)
    <3>0. PICK h \in Harvesters : h = on[f]
      BY <2>2 DEF JobHarvests, TypeInv, Targets, Threads
    <3>1. /\ h \in Harvesters /\ Free(h) /\ UNCHANGED <<status, dbStatus, job, arg>>
          /\ lock' = [lock EXCEPT ![h] = f]
      BY <2>2, <3>0 DEF JobHarvests, BeginHarvest
    <3>2. Settled(h) = status[h]
      BY <3>1, FreeSettled
    <3>3. Settled(h)' = status[h]
      BY <3>1, ThreadAssumption DEF Settled, TypeInv, TypeOK
    <3>4. Aside(h)
      BY <3>1, AsideOf DEF TypeInv, TypeOK
    <3> QED
      BY <3>1, <3>2, <3>3, <3>4 DEF StatusStep, AgreesAfter, KeptAfter
  <2> QED
    BY <1>2, <2>1, <2>2 DEF Quartz, FireScheduled, FireTriggered, Fired
<1>3. CASE UNCHANGED vars
  BY <1>3, UntouchedBy DEF vars
<1> QED
  BY <1>1, <1>2, <1>3, StatusRequest, StatusHarvest DEF Next, Terminating

LEMMA StatusInit == Calm /\ Init => AgreeInv /\ KeptInv
<1> SUFFICES ASSUME Init, NEW h \in Harvesters
             PROVE  /\ dbStatus[h] \in {"none", Settled(h)}
                    /\ Settled(h) = "active" => job[h]
  BY DEF AgreeInv, KeptInv
<1>1. Settled(h) = status[h]
  BY ThreadAssumption DEF Init, InitWith, Settled, Threads
<1>2. PICK settings \in [Harvesters -> Status] : InitWith(settings)
  BY DEF Init
<1>3. dbStatus[h] \in {"none", status[h]}
  BY <1>2 DEF InitWith, Status
<1>4. status[h] = "active" => job[h] = TRUE
  BY <1>2 DEF InitWith, Status
<1> QED
  BY <1>1, <1>3, <1>4

LEMMA AgreeNext ==
  ASSUME TypeInv, MonitorInv, CallInv, Calm, AgreeInv, [Next]_vars
  PROVE  AgreeInv'
<1>1. ASSUME NEW r \in Requests, DestroyStep(r) PROVE AgreeInv'
  BY <1>1 DEF DestroyStep, Destroy, DestroyFails, harvesterVars, AgreeInv, Settled
<1> QED
  BY <1>1, StatusNext, StepAgrees

LEMMA KeptNext ==
  ASSUME TypeInv, MonitorInv, CallInv, Calm, Keeping, KeptInv, [Next]_vars
  PROVE  KeptInv'
<1>1. ASSUME NEW r \in Requests PROVE ~DestroyStep(r)
  BY DEF DestroyStep, Destroy, DestroyFails, CallInv, Keeping
<1> QED
  BY <1>1, StatusNext, StepKeeps

-----------------------------------------------------------------------------
\* What a restart would rebuild from the settings table is what the object says
\* (AbstractHarvester.start, run, stop, update, invoke, harvest), unless a
\* schedule is refused or a one-run harvester is invoked.
THEOREM StoredStatusAgrees == Calm => (Spec => []DbStatusAgrees)
<1>1. AgreeInv => DbStatusAgrees
  BY FreeSettled DEF AgreeInv, DbStatusAgrees
<1>2. Calm /\ TypeInv /\ MonitorInv /\ CallInv /\ AgreeInv /\ [Next]_vars => AgreeInv'
  BY AgreeNext
<1>3. ASSUME Calm PROVE Spec => []DbStatusAgrees
  <2>1. Init => AgreeInv
    BY <1>3, StatusInit
  <2>2. TypeInv /\ MonitorInv /\ CallInv /\ AgreeInv /\ [Next]_vars => AgreeInv'
    BY <1>2, <1>3
  <2> QED
    BY <1>1, <2>1, <2>2, TypeInit, TypeNext, MonitorInit, MonitorNext, CallInit, CallNext,
       PTL DEF Spec
<1> QED
  BY <1>3

\* An active harvester has a job in the scheduler outside a harvest, if
\* moreover stop() only deactivates and nobody destroys the harvester.
THEOREM ActiveHasJob == Calm /\ Keeping => (Spec => []ActiveIsScheduled)
<1>1. KeptInv => ActiveIsScheduled
  BY FreeSettled DEF KeptInv, ActiveIsScheduled
<1>2. ASSUME Calm, Keeping PROVE Spec => []ActiveIsScheduled
  <2>1. Init => KeptInv
    BY <1>2, StatusInit
  <2>2. TypeInv /\ MonitorInv /\ CallInv /\ KeptInv /\ [Next]_vars => KeptInv'
    BY <1>2, KeptNext
  <2> QED
    BY <1>1, <2>1, <2>2, TypeInit, TypeNext, MonitorInit, MonitorNext, CallInit, CallNext,
       PTL DEF Spec
<1> QED
  BY <1>2

=============================================================================
