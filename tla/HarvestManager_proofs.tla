------------------------ MODULE HarvestManager_proofs ------------------------
(***************************************************************************)
(* What holds of HarvestManager for any number of harvesters, requests,    *)
(* firings and crashes.  The layers are: types, the manager's monitor, the *)
(* registry, what is left of removed harvesters, the harvesters' monitors  *)
(* and schedules, and what a restart restores.                             *)
(***************************************************************************)
EXTENDS HarvestManager, TLAPS

ObjectPCs == {"start", "run", "stop", "invoke", "fired"} \cup StopPCs \cup RunPCs

\* A thread inside a method of a harvester.
ObjectStep(t) ==
  \/ t \in Requests /\ \/ Start(t) \/ Run(t) \/ Invoke(t)
                       \/ StopSetsCancel(t) \/ StopGetsParams(t)
                       \/ StopInterrupts(t) \/ StopBlock(t)
  \/ t \in Firings /\ JobHarvests(t)
  \/ HarvestStep(t)

StatusTypes  == /\ status \in [Harvesters -> Status]
                /\ dbStatus \in [Harvesters -> Status \cup {"none"}]
JobTypes     == /\ job \in [Harvesters -> BOOLEAN]
                /\ manual \in [Harvesters -> Nat]
HarvestTypes == /\ running \in [Harvesters -> BOOLEAN]
                /\ cancel \in [Harvesters -> BOOLEAN]
                /\ lock \in [Harvesters -> Threads \cup {NoThread}]
                /\ todo \in [Harvesters -> SUBSET Records]
                /\ records \in [Harvesters -> SUBSET Records]
                /\ history \in [Harvesters -> BOOLEAN]
ThreadTypes  == /\ pc \in [Threads -> ManagerPCs]
                /\ on \in [Threads -> Harvesters \cup {NoHarvester}]
                /\ arg \in [Threads -> Status]
                /\ reply \in [Threads -> Replies]
                /\ \A t \in Threads : pc[t] \notin {"new", "done"} => on[t] \in Harvesters
ObjectTypes  == StatusTypes /\ JobTypes /\ HarvestTypes /\ ThreadTypes
ManagerTypes == /\ hmHarvesters \subseteq hmHarvestLookup
                /\ hmHarvestLookup \subseteq Harvesters
                /\ managerLock \in Requests \cup {NoThread}
                /\ cleared \subseteq Records
                /\ late \subseteq Harvesters
\* While init runs there are no requests, and what it has still to load is stored.
BootTypes    == /\ boot \in {"loading", "up", "failed"}
                /\ crashes \in 0 .. MaxCrashes
                /\ toLoad \subseteq Harvesters
                /\ loading \in toLoad \cup {NoHarvester}
                /\ loading # NoHarvester => boot = "loading"
                /\ boot # "up" => \A r \in Requests : pc[r] \in {"new", "done"}
                /\ boot = "loading" => \A h \in toLoad : dbStatus[h] # "none"
TypeInv == ObjectTypes /\ ManagerTypes /\ BootTypes

LEMMA TypeInit == ManagerInit => TypeInv
  BY ThreadAssumption, OptionAssumption, ManagerAssumption
  DEF ManagerInit, InitWith, TypeInv, ObjectTypes, StatusTypes, JobTypes, HarvestTypes,
      ThreadTypes, ManagerTypes, BootTypes, Status, Replies, ManagerPCs, PCs

-----------------------------------------------------------------------------
(* The methods of a harvester.                                              *)

\* What the harvester h is known by, apart from its flags.
Same(h) == /\ status'[h] = status[h] /\ dbStatus'[h] = dbStatus[h]
           /\ job'[h] = job[h] /\ manual'[h] = manual[h]
           /\ records'[h] = records[h] /\ history'[h] = history[h]
           /\ lock'[h] = lock[h]

LEMMA ObjectThread ==
  ASSUME TypeInv, NEW t \in Threads, ObjectStep(t)
  PROVE  /\ on' = on
         /\ pc[t] \in ObjectPCs /\ on[t] \in Harvesters
         /\ \E x \in ObjectPCs \cup {"done"} : pc' = [pc EXCEPT ![t] = x]
<1>1. /\ on' = on
      /\ pc[t] \in ObjectPCs
      /\ \E x \in ObjectPCs \cup {"done"} : pc' = [pc EXCEPT ![t] = x]
  <2> USE DEF Goto, Return, ObjectPCs, StopPCs, RunPCs, threadVars
  <2>1. CASE Start(t) \/ Run(t) \/ Invoke(t)
    BY <2>1 DEF Start, Run, Invoke, BeginHarvest
  <2>2. CASE StopSetsCancel(t) \/ StopGetsParams(t) \/ StopInterrupts(t) \/ StopBlock(t)
    BY <2>2 DEF StopSetsCancel, StopGetsParams, StopInterrupts, StopBlock
  <2>3. CASE JobHarvests(t)
    BY <2>3 DEF JobHarvests, BeginHarvest
  <2>4. CASE HarvestRecord(t)
    <3>1. pc' = [pc EXCEPT ![t] = "harvest"]
      BY <2>4 DEF HarvestRecord, TypeInv, ObjectTypes, ThreadTypes
    <3> QED
      BY <2>4, <3>1 DEF HarvestRecord
  <2>5. CASE HarvestReturns(t) \/ HarvestFails(t) \/ HarvestCloses(t)
    BY <2>5 DEF HarvestReturns, HarvestFails, HarvestCloses
  <2> QED
    BY <2>1, <2>2, <2>3, <2>4, <2>5 DEF ObjectStep, HarvestStep
<1> QED
  BY <1>1 DEF TypeInv, ObjectTypes, ThreadTypes, ObjectPCs, StopPCs, RunPCs

\* Only the harvester that the thread has is touched, and no row of it comes or goes.
LEMMA ObjectTouches ==
  ASSUME TypeInv, NEW t \in Threads, ObjectStep(t)
  PROVE  /\ \A h \in Harvesters \ {on[t]} : Same(h)
         /\ \A h \in Harvesters : dbStatus'[h] = "none" <=> dbStatus[h] = "none"
<1>h. on[t] \in Harvesters
  BY ObjectThread
<1> USE <1>h DEF TypeInv, ObjectTypes, StatusTypes, JobTypes, HarvestTypes, Same, Status,
                 SetDbStatus, Unschedule, harvesterVars, dbVars, quartzVars
<1>1. CASE Start(t)
  BY <1>1 DEF Start, Activate, ActivateThrows
<1>2. CASE Run(t)
  BY <1>2 DEF Run, Activate, ActivateThrows
<1>3. CASE Invoke(t) \/ JobHarvests(t)
  BY <1>3 DEF Invoke, JobHarvests, BeginHarvest
<1>4. CASE StopSetsCancel(t) \/ StopGetsParams(t) \/ StopInterrupts(t)
  BY <1>4 DEF StopSetsCancel, StopGetsParams, StopInterrupts
<1>5. CASE StopBlock(t)
  BY <1>5 DEF StopBlock, ThreadTypes
<1>6. CASE HarvestRecord(t)
  BY <1>6 DEF HarvestRecord
<1>7. CASE HarvestReturns(t)
  BY <1>7 DEF HarvestReturns
<1>8. CASE HarvestFails(t) \/ HarvestCloses(t)
  BY <1>8 DEF HarvestFails, HarvestCloses
<1> QED
  BY <1>1, <1>2, <1>3, <1>4, <1>5, <1>6, <1>7, <1>8 DEF ObjectStep, HarvestStep

LEMMA ObjectStatusTypes ==
  ASSUME TypeInv, NEW t \in Threads, ObjectStep(t)
  PROVE  StatusTypes'
<1>h. on[t] \in Harvesters /\ arg[t] \in Status
  BY ObjectThread DEF TypeInv, ObjectTypes, ThreadTypes
<1> USE <1>h DEF TypeInv, ObjectTypes, StatusTypes, Status, SetDbStatus, harvesterVars, dbVars
<1>1. CASE Start(t)
  BY <1>1 DEF Start, Activate, ActivateThrows
<1>2. CASE Run(t)
  BY <1>2 DEF Run, Activate, ActivateThrows
<1>3. CASE Invoke(t) \/ JobHarvests(t)
  BY <1>3 DEF Invoke, JobHarvests, BeginHarvest
<1>4. CASE StopSetsCancel(t) \/ StopGetsParams(t) \/ StopInterrupts(t)
  BY <1>4 DEF StopSetsCancel, StopGetsParams, StopInterrupts
<1>5. CASE StopBlock(t)
  BY <1>5 DEF StopBlock
<1>6. CASE HarvestRecord(t) \/ HarvestFails(t)
  BY <1>6 DEF HarvestRecord, HarvestFails
<1>7. CASE HarvestReturns(t)
  BY <1>7 DEF HarvestReturns
<1>8. CASE HarvestCloses(t)
  BY <1>8 DEF HarvestCloses
<1> QED
  BY <1>1, <1>2, <1>3, <1>4, <1>5, <1>6, <1>7, <1>8 DEF ObjectStep, HarvestStep

LEMMA UnscheduleTypes ==
  ASSUME JobTypes, NEW h \in Harvesters, Unschedule(h) \/ UNCHANGED quartzVars
  PROVE  JobTypes'
<1>1. job' \in [Harvesters -> BOOLEAN]
  BY Zenon DEF JobTypes, Unschedule, quartzVars
<1>2. manual' \in [Harvesters -> Nat]
  BY DEF JobTypes, Unschedule, quartzVars
<1> QED
  BY <1>1, <1>2 DEF JobTypes

LEMMA ObjectJobTypes ==
  ASSUME TypeInv, NEW t \in Threads, ObjectStep(t)
  PROVE  JobTypes'
<1>h. on[t] \in Harvesters /\ JobTypes
  BY ObjectThread DEF TypeInv, ObjectTypes
<1>1. CASE Start(t)
  BY <1>1, <1>h DEF Start, Activate, ActivateThrows, JobTypes
<1>2. CASE Run(t)
  <2>1. job' \in [Harvesters -> BOOLEAN]
    BY <1>2, <1>h DEF Run, Activate, ActivateThrows, JobTypes
  <2>2. manual' \in [Harvesters -> Nat]
    BY <1>2, <1>h DEF Run, JobTypes
  <2> QED
    BY <2>1, <2>2 DEF JobTypes
<1>3. CASE Invoke(t) \/ JobHarvests(t)
  BY <1>3, <1>h DEF Invoke, JobHarvests, BeginHarvest, JobTypes, quartzVars
<1>4. CASE StopSetsCancel(t) \/ StopGetsParams(t) \/ StopInterrupts(t)
  BY <1>4, <1>h DEF StopSetsCancel, StopGetsParams, StopInterrupts, JobTypes, quartzVars
<1>5. CASE StopBlock(t) \/ HarvestReturns(t)
  <2>1. Unschedule(on[t]) \/ UNCHANGED quartzVars
    BY <1>5 DEF StopBlock, HarvestReturns, quartzVars
  <2> QED
    BY <1>h, <2>1, UnscheduleTypes
<1>6. CASE HarvestRecord(t) \/ HarvestFails(t) \/ HarvestCloses(t)
  BY <1>6, <1>h DEF HarvestRecord, HarvestFails, HarvestCloses, JobTypes, quartzVars
<1> QED
  BY <1>1, <1>2, <1>3, <1>4, <1>5, <1>6 DEF ObjectStep, HarvestStep

LEMMA ObjectHarvestTypes ==
  ASSUME TypeInv, NEW t \in Threads, ObjectStep(t)
  PROVE  HarvestTypes'
<1>h. on[t] \in Harvesters /\ HarvestTypes
  BY ObjectThread DEF TypeInv, ObjectTypes
<1> USE <1>h DEF HarvestTypes, harvesterVars, dbVars
<1>1. CASE Start(t) \/ Run(t)
  BY <1>1 DEF Start, Run
<1>2. CASE BeginHarvest(t, on[t])
  BY <1>2 DEF BeginHarvest
<1>3. CASE Invoke(t) \/ JobHarvests(t)
  BY <1>2, <1>3 DEF Invoke, JobHarvests
<1>4. CASE StopSetsCancel(t) \/ StopGetsParams(t) \/ StopInterrupts(t)
  BY <1>4 DEF StopSetsCancel, StopGetsParams, StopInterrupts
<1>5. CASE StopBlock(t)
  BY <1>5 DEF StopBlock
<1>6. CASE HarvestRecord(t) \/ HarvestFails(t)
  BY <1>6 DEF HarvestRecord, HarvestFails
<1>7. CASE HarvestReturns(t)
  BY <1>7 DEF HarvestReturns
<1>8. CASE HarvestCloses(t)
  BY <1>8 DEF HarvestCloses
<1> QED
  BY <1>1, <1>3, <1>4, <1>5, <1>6, <1>7, <1>8 DEF ObjectStep, HarvestStep

LEMMA ObjectThreadTypes ==
  ASSUME TypeInv, NEW t \in Threads, ObjectStep(t)
  PROVE  ThreadTypes'
<1>h. on[t] \in Harvesters /\ ThreadTypes /\ StatusTypes
  BY ObjectThread DEF TypeInv, ObjectTypes
<1>1. /\ pc' \in [Threads -> ManagerPCs] /\ on' = on
      /\ \A u \in Threads : pc'[u] \notin {"new", "done"} => on[u] \in Harvesters
  BY <1>h, ObjectThread
  DEF ThreadTypes, ObjectPCs, ManagerPCs, PCs, CallPCs, StopPCs, RunPCs
<1> USE <1>h DEF ThreadTypes, StatusTypes, Status, Replies, Goto, Return, threadVars
<1>2. arg' \in [Threads -> Status] /\ reply' \in [Threads -> Replies]
  <2>1. CASE Start(t)
    BY <2>1 DEF Start
  <2>2. CASE Run(t)
    BY <2>2 DEF Run
  <2>3. CASE Invoke(t) \/ JobHarvests(t)
    BY <2>3 DEF Invoke, JobHarvests, BeginHarvest
  <2>4. CASE StopSetsCancel(t) \/ StopGetsParams(t) \/ StopInterrupts(t) \/ StopBlock(t)
    BY <2>4 DEF StopSetsCancel, StopGetsParams, StopInterrupts, StopBlock
  <2>5. CASE HarvestStep(t)
    BY <2>5 DEF HarvestStep, HarvestRecord, HarvestReturns, HarvestFails, HarvestCloses
  <2> QED
    BY <2>1, <2>2, <2>3, <2>4, <2>5 DEF ObjectStep
<1> QED
  BY <1>1, <1>2

LEMMA ObjectTypeInv ==
  ASSUME TypeInv, NEW t \in Threads, ObjectStep(t),
         UNCHANGED <<managerVars, bootVars, late>>
  PROVE  TypeInv'
<1>1. ObjectTypes'
  BY ObjectStatusTypes, ObjectJobTypes, ObjectHarvestTypes, ObjectThreadTypes DEF ObjectTypes
<1>2. ManagerTypes'
  BY DEF TypeInv, ManagerTypes, managerVars
<1>3. BootTypes'
  <2> USE DEF TypeInv, BootTypes, bootVars
  <2>1. \A h \in Harvesters : dbStatus'[h] = "none" <=> dbStatus[h] = "none"
    BY ObjectTouches
  <2>2. ASSUME boot # "up", NEW r \in Requests PROVE pc'[r] = pc[r]
    BY <2>2, ObjectThread, ThreadAssumption
    DEF ObjectTypes, ThreadTypes, ObjectPCs, StopPCs, RunPCs, Threads
  <2> QED
    BY <2>1, <2>2
<1> QED
  BY <1>1, <1>2, <1>3 DEF TypeInv

-----------------------------------------------------------------------------
(* The manager's operations, the scheduler and the restart.                 *)

LEMMA RequestTypeInv ==
  ASSUME TypeInv, NEW r \in Requests, NewRequest(r)
  PROVE  TypeInv'
<1> USE DEF TypeInv, ObjectTypes, StatusTypes, JobTypes, HarvestTypes, ThreadTypes,
        ManagerTypes, BootTypes, harvesterVars, dbVars, quartzVars, managerVars, bootVars
<1>1. boot = "up" /\ r \in Threads
  BY DEF NewRequest, Threads
<1>2. ASSUME NEW h \in Harvesters, NEW m \in Methods, CallHarvester(r, h, m)
      PROVE  TypeInv'
  <2>1. arg' \in [Threads -> Status]
    BY <1>1, <1>2, OptionAssumption DEF CallHarvester, Call, Status
  <2> QED
    BY <1>1, <1>2, <2>1 DEF CallHarvester, Call, Goto, ManagerPCs, PCs, CallPCs
<1>3. ASSUME NEW h \in Harvesters, NEW op \in Operations, CallManager(r, h, op)
      PROVE  TypeInv'
  BY <1>1, <1>3, ManagerAssumption DEF CallManager, Goto, ManagerPCs
<1>4. ASSUME NEW h \in Harvesters, CallUnknown(r, h) PROVE TypeInv'
  BY <1>1, <1>4
  DEF CallUnknown, NotFound, Return, Goto, ManagerPCs, PCs, Replies
<1> QED
  BY <1>2, <1>3, <1>4 DEF NewRequest

\* What update() does to the settings row and to the scheduler.
LEMMA ReconfigureTypes ==
  ASSUME StatusTypes, JobTypes, NEW h \in Harvesters,
         Reconfigure(h) \/ ReconfigureThrows(h) \/ UNCHANGED <<dbStatus, quartzVars>>
  PROVE  /\ dbStatus' \in [Harvesters -> Status \cup {"none"}]
         /\ JobTypes'
         /\ \A k \in Harvesters : dbStatus'[k] = "none" <=> dbStatus[k] = "none"
         /\ \A k \in Harvesters \ {h} : dbStatus'[k] = dbStatus[k] /\ job'[k] = job[k]
                                        /\ manual'[k] = manual[k]
<1>1. /\ dbStatus' \in [Harvesters -> Status \cup {"none"}]
      /\ \A k \in Harvesters : dbStatus'[k] = "none" <=> dbStatus[k] = "none"
      /\ \A k \in Harvesters \ {h} : dbStatus'[k] = dbStatus[k]
  BY DEF StatusTypes, Status, Reconfigure, ReconfigureThrows, SetDbStatus
<1>2. CASE Reconfigure(h)
  <2>1. job' \in [Harvesters -> BOOLEAN] /\ manual' \in [Harvesters -> Nat]
    BY <1>2 DEF JobTypes, Reconfigure
  <2> QED
    BY <1>1, <1>2, <2>1 DEF JobTypes, Reconfigure
<1>3. CASE ReconfigureThrows(h)
  BY <1>1, <1>3, UnscheduleTypes DEF ReconfigureThrows, Unschedule, JobTypes
<1>4. CASE UNCHANGED quartzVars
  BY <1>1, <1>4 DEF JobTypes, quartzVars
<1> QED
  BY <1>2, <1>3, <1>4

LEMMA ManagerTypeInv ==
  ASSUME TypeInv, NEW r \in Requests, OnManager(r)
  PROVE  TypeInv'
<1> USE DEF TypeInv, ObjectTypes, StatusTypes, JobTypes, HarvestTypes, ThreadTypes,
        ManagerTypes, BootTypes, harvesterVars, dbVars, quartzVars, managerVars, bootVars,
        Goto, Return, Leave
<1>r. r \in Threads
  BY DEF Threads
<1>h. pc[r] \notin {"new", "done"} /\ on[r] \in Harvesters /\ boot = "up"
  <2>1. pc[r] \notin {"new", "done"}
    BY DEF OnManager, AddStores, AddRegisters, Enter, EnterUnknown, ManagedUpdate, Update,
           RemoveDestroys, Destroy, RemoveFails, DestroyFails, RemoveUnstores,
           RemoveUnregisters, ClearWaits, ClearDeletes, ClearUpdates, ClearLogs
  <2> QED
    BY <1>r, <2>1
<1> DEFINE h == on[r]
<1> USE <1>r, <1>h DEF ManagerPCs, OwnerPCs, PCs, Replies, Status
<1>1. CASE AddStores(r) \/ AddRegisters(r)
  BY <1>1 DEF AddStores, AddRegisters
<1>2. CASE \/ Enter(r, "updateNode", "update") \/ Enter(r, "clear", "clearParams")
           \/ Enter(r, "remove", "destroy") \/ EnterUnknown(r)
  BY <1>2 DEF Enter, EnterUnknown, NotFound
<1>3. CASE ManagedUpdate(r)
  <2>1. Reconfigure(h) \/ ReconfigureThrows(h) \/ UNCHANGED <<dbStatus, quartzVars>>
    BY <1>3 DEF ManagedUpdate, Update
  <2>2. dbStatus' \in [Harvesters -> Status \cup {"none"}] /\ JobTypes'
    BY <2>1, ReconfigureTypes
  <2>3. pc' \in [Threads -> ManagerPCs] /\ reply' \in [Threads -> Replies]
    BY <1>3 DEF ManagedUpdate, Update
  <2> QED
    BY <1>3, <2>2, <2>3 DEF ManagedUpdate, Update
<1>4. CASE RemoveDestroys(r)
  <2>1. JobTypes' /\ pc' = [pc EXCEPT ![r] = "unstore"]
        /\ records' = [records EXCEPT ![h] = {}]
    BY <1>4, UnscheduleTypes DEF RemoveDestroys, Destroy
  <2>2. UNCHANGED <<harvesterVars, dbStatus, history, on, arg, reply, managerVars, bootVars>>
        /\ late' \subseteq Harvesters
    BY <1>4 DEF RemoveDestroys, Destroy
  <2> QED
    BY <2>1, <2>2
<1>5. CASE RemoveFails(r)
  <2>1. JobTypes'
    BY <1>5, UnscheduleTypes DEF RemoveFails, DestroyFails
  <2> QED
    BY <1>5, <2>1 DEF RemoveFails, DestroyFails
<1>6. CASE RemoveUnstores(r)
  BY <1>6 DEF RemoveUnstores
<1>9. CASE RemoveUnregisters(r)
  <2>1. history' \in [Harvesters -> BOOLEAN] /\ ManagerTypes'
    BY <1>9 DEF RemoveUnregisters
  <2>2. ThreadTypes'
    BY <1>9 DEF RemoveUnregisters
  <2>3. UNCHANGED <<harvesterVars, dbStatus, records, quartzVars, bootVars>>
    BY <1>9 DEF RemoveUnregisters
  <2>4. \A q \in Requests : pc[q] \in {"new", "done"} => pc'[q] \in {"new", "done"}
    BY <1>9 DEF RemoveUnregisters, Threads
  <2> QED
    BY <2>1, <2>2, <2>3, <2>4
<1>7. CASE ClearWaits(r) \/ ClearDeletes(r) \/ ClearLogs(r)
  BY <1>7 DEF ClearWaits, ClearDeletes, ClearLogs
<1>8. CASE ClearUpdates(r)
  <2>1. Reconfigure(h) \/ ReconfigureThrows(h)
    BY <1>8 DEF ClearUpdates
  <2>2. dbStatus' \in [Harvesters -> Status \cup {"none"}] /\ JobTypes'
    BY <2>1, ReconfigureTypes
  <2>3. pc' \in [Threads -> ManagerPCs] /\ reply' \in [Threads -> Replies]
    BY <1>8 DEF ClearUpdates
  <2>4. records' \in [Harvesters -> SUBSET Records] /\ ManagerTypes'
    BY <1>8 DEF ClearUpdates
  <2>5. UNCHANGED <<harvesterVars, history, on, arg, bootVars, late>>
    BY <1>8 DEF ClearUpdates
  <2>6. \A t \in Threads : pc'[t] \notin {"new", "done"} => on[t] \in Harvesters
    BY <1>8 DEF ClearUpdates
  <2> QED
    BY <2>2, <2>3, <2>4, <2>5, <2>6
<1> QED
  BY <1>1, <1>2, <1>3, <1>4, <1>5, <1>6, <1>7, <1>8, <1>9 DEF OnManager

LEMMA FireTypeInv ==
  ASSUME TypeInv, NEW f \in Firings, NEW h \in Harvesters, FireFor(f, h) \/ FireForNobody(f, h)
  PROVE  TypeInv'
<1>f. f \in Threads /\ f \notin Requests
  BY ThreadAssumption DEF Threads
<1> USE <1>f DEF TypeInv, ObjectTypes, StatusTypes, JobTypes, HarvestTypes, ThreadTypes,
        ManagerTypes, BootTypes, harvesterVars, dbVars, quartzVars, managerVars, bootVars,
        Goto, Return, ManagerPCs, PCs, Replies, Fired, CanFire
<1>1. CASE FireFor(f, h) /\ FireScheduled(f, h)
  BY <1>1 DEF FireFor, FireScheduled
<1>2. CASE FireFor(f, h) /\ FireTriggered(f, h)
  BY <1>2 DEF FireFor, FireTriggered
<1>3. CASE FireForNobody(f, h)
  BY <1>3 DEF FireForNobody
<1> QED
  BY <1>1, <1>2, <1>3 DEF FireFor

LEMMA CrashTypeInv == ASSUME TypeInv, Crash PROVE TypeInv'
<1> USE DEF TypeInv, ObjectTypes, StatusTypes, JobTypes, HarvestTypes, ThreadTypes,
        ManagerTypes, BootTypes, dbVars
<1>1. ObjectTypes'
  BY DEF Crash, Status, ManagerPCs, PCs
<1>2. ManagerTypes'
  BY DEF Crash
<1>3. BootTypes'
  BY ManagerAssumption DEF Crash, Stored, Threads
<1> QED
  BY <1>1, <1>2, <1>3

LEMMA BootTypeInv == ASSUME TypeInv, Boot PROVE TypeInv'
<1> USE DEF TypeInv, ObjectTypes, StatusTypes, JobTypes, HarvestTypes, ThreadTypes,
        ManagerTypes, BootTypes, dbVars, quartzVars, threadVars, managerVars
<1>1. ASSUME NEW h \in Harvesters, LoadInit(h) PROVE TypeInv'
  BY <1>1 DEF LoadInit
<1>2. CASE LoadPuts
  BY <1>2 DEF LoadPuts, vars, harvesterVars
<1>3. ASSUME NEW h \in Harvesters, LoadFails(h) PROVE TypeInv'
  BY <1>3 DEF LoadFails, vars, harvesterVars
<1>4. CASE LoadEnds
  BY <1>4 DEF LoadEnds, vars, harvesterVars
<1> QED
  BY <1>1, <1>2, <1>3, <1>4 DEF Boot

\* Every step is one of these.
Steps ==
  \/ \E r \in Requests : NewRequest(r)
  \/ \E t \in Threads : ObjectStep(t) /\ UNCHANGED <<managerVars, bootVars, late>>
  \/ \E r \in Requests : OnManager(r)
  \/ \E f \in Firings, h \in Harvesters : FireFor(f, h) \/ FireForNobody(f, h)
  \/ Crash
  \/ Boot
  \/ UNCHANGED allVars

LEMMA StepsAre == [ManagerNext]_allVars => Steps
  BY DEF ManagerNext, Steps, OnObject, ObjectStep, ManagerQuartz, ManagedHarvest,
         ManagerTerminating, StartupFailed, Threads

LEMMA TypeNext == TypeInv /\ Steps => TypeInv'
<1>1. TypeInv /\ UNCHANGED allVars => TypeInv'
  BY DEF TypeInv, ObjectTypes, StatusTypes, JobTypes, HarvestTypes, ThreadTypes,
         ManagerTypes, BootTypes, allVars, vars, harvesterVars, dbVars, quartzVars,
         threadVars, managerVars, bootVars
<1> QED
  BY <1>1, RequestTypeInv, ObjectTypeInv, ManagerTypeInv, FireTypeInv, CrashTypeInv,
     BootTypeInv DEF Steps

\* Every reachable state is well-typed, over any number of crashes and restarts
\* (HarvestManagerImpl).
THEOREM ManagerTypeCorrect == ManagerSpec => []ManagerTypeOK
<1>1. TypeInv => ManagerTypeOK
  BY DEF TypeInv, ObjectTypes, StatusTypes, JobTypes, HarvestTypes, ThreadTypes,
         ManagerTypes, BootTypes, ManagerTypeOK
<1>2. TypeInv /\ [ManagerNext]_allVars => TypeInv'
  BY StepsAre, TypeNext
<1> QED
  BY <1>1, <1>2, TypeInit, PTL DEF ManagerSpec

-----------------------------------------------------------------------------
(* The manager's monitor.                                                   *)

LEMMA RequestThread ==
  ASSUME TypeInv, NEW r \in Requests, NewRequest(r)
  PROVE  /\ pc[r] = "new" /\ boot = "up"
         /\ \E x \in {"start", "stop", "run", "invoke", "add", "updateNode", "clear",
                      "remove", "done"} : pc' = [pc EXCEPT ![r] = x]
         /\ UNCHANGED <<harvesterVars, dbVars, quartzVars, managerVars, bootVars>>
  BY ManagerAssumption
  DEF NewRequest, CallHarvester, Call, CallManager, CallUnknown, NotFound, Goto, Return

LEMMA FireThread ==
  ASSUME TypeInv, NEW f \in Firings, NEW h \in Harvesters, FireFor(f, h) \/ FireForNobody(f, h)
  PROVE  /\ f \in Threads /\ f \notin Requests
         /\ pc[f] = "new" /\ job[h] /\ on' = [on EXCEPT ![f] = h]
         /\ \/ h \in hmHarvestLookup /\ pc' = [pc EXCEPT ![f] = "fired"]
            \/ pc' = [pc EXCEPT ![f] = "done"]
         /\ UNCHANGED <<harvesterVars, dbVars, job, managerVars, bootVars, late>>
  BY ThreadAssumption
  DEF FireFor, FireForNobody, FireScheduled, FireTriggered, CanFire, Fired, Goto, Return,
      Threads, quartzVars

LEMMA BootThread == Boot => UNCHANGED <<threadVars, dbVars, managerLock>>
  BY DEF Boot, LoadInit, LoadPuts, LoadFails, LoadEnds, vars, managerVars

\* The thread that owns the manager's monitor is the one inside a synchronized
\* operation (HarvestManagerImpl.update, clearBatch, remove).
ManagerMonitor ==
  \A r \in Requests : managerLock = r <=> pc[r] \in OwnerPCs

LEMMA MonitorInit == ManagerInit => ManagerMonitor
  BY ThreadAssumption DEF ManagerInit, InitWith, ManagerMonitor, OwnerPCs, Threads

LEMMA MonitorNext == TypeInv /\ ManagerMonitor /\ Steps => ManagerMonitor'
<1> SUFFICES ASSUME TypeInv, ManagerMonitor, Steps PROVE ManagerMonitor'
  OBVIOUS
<1>t. pc \in [Threads -> ManagerPCs] /\ Requests \subseteq Threads /\ NoThread \notin Requests
  BY ThreadAssumption DEF TypeInv, ObjectTypes, ThreadTypes, Threads
<1> USE <1>t DEF ManagerMonitor, OwnerPCs
<1>1. ASSUME NEW r \in Requests, NewRequest(r) PROVE ManagerMonitor'
  BY <1>1, RequestThread DEF managerVars
<1>2. ASSUME NEW t \in Threads, ObjectStep(t), UNCHANGED managerVars PROVE ManagerMonitor'
  BY <1>2, ObjectThread DEF ObjectPCs, StopPCs, RunPCs, managerVars
<1>3. ASSUME NEW r \in Requests, OnManager(r) PROVE ManagerMonitor'
  <2> USE DEF Goto, Return, Leave, managerVars
  <2>1. CASE AddStores(r) \/ AddRegisters(r)
    BY <2>1 DEF AddStores, AddRegisters
  <2>2. CASE \/ Enter(r, "updateNode", "update") \/ Enter(r, "clear", "clearParams")
             \/ Enter(r, "remove", "destroy") \/ EnterUnknown(r)
    BY <2>2 DEF Enter, EnterUnknown, NotFound
  <2>3. CASE ManagedUpdate(r)
    BY <2>3 DEF ManagedUpdate, Update
  <2>4. CASE RemoveDestroys(r) \/ RemoveFails(r)
    BY <2>4 DEF RemoveDestroys, Destroy, RemoveFails, DestroyFails
  <2>5. CASE RemoveUnstores(r) \/ RemoveUnregisters(r)
    BY <2>5 DEF RemoveUnstores, RemoveUnregisters
  <2>6. CASE ClearWaits(r) \/ ClearDeletes(r) \/ ClearLogs(r)
    BY <2>6 DEF ClearWaits, ClearDeletes, ClearLogs
  <2>7. CASE ClearUpdates(r)
    BY <2>7 DEF ClearUpdates
  <2> QED
    BY <1>3, <2>1, <2>2, <2>3, <2>4, <2>5, <2>6, <2>7 DEF OnManager
<1>4. ASSUME NEW f \in Firings, NEW h \in Harvesters, FireFor(f, h) \/ FireForNobody(f, h)
      PROVE  ManagerMonitor'
  BY <1>4, FireThread DEF managerVars
<1>5. CASE Crash
  BY <1>5 DEF Crash
<1>6. CASE Boot
  BY <1>6, BootThread DEF threadVars
<1>7. CASE UNCHANGED allVars
  BY <1>7 DEF allVars, vars, threadVars, managerVars
<1> QED
  BY <1>1, <1>2, <1>3, <1>4, <1>5, <1>6, <1>7 DEF Steps

-----------------------------------------------------------------------------
(* The registry and the settings table.                                     *)

Adding(r) == pc[r] \in {"add", "added"}

RegistryInv ==
  /\ boot = "loading" =>
       \A h \in Harvesters : dbStatus[h] # "none" <=> h \in hmHarvesters \cup toLoad
  /\ RegistryAgrees
  /\ \A r \in Requests :
       /\ pc[r] = "unregister" => dbStatus[on[r]] = "none"
       /\ pc[r] = "added" => dbStatus[on[r]] # "none"
       /\ pc[r] \in OwnerPCs => on[r] \in hmHarvesters
       /\ Adding(r) => on[r] \notin hmHarvestLookup
       /\ \A q \in Requests : Adding(r) /\ Adding(q) /\ on[r] = on[q] => r = q

LEMMA RegistryInit == ManagerInit => RegistryInv
  BY ManagerAssumption
  DEF ManagerInit, InitWith, RegistryInv, RegistryAgrees, Stored, Adding, OwnerPCs, Threads

LEMMA RegistryRequest ==
  ASSUME TypeInv, RegistryInv, NEW r \in Requests, NewRequest(r)
  PROVE  RegistryInv'
<1>t. /\ pc \in [Threads -> ManagerPCs] /\ on \in [Threads -> Harvesters \cup {NoHarvester}]
      /\ Requests \subseteq Threads
  BY DEF TypeInv, ObjectTypes, ThreadTypes, Threads
<1> USE <1>t DEF RegistryInv, RegistryAgrees, Stored, BeingRemoved, Adding, OwnerPCs,
                 dbVars, managerVars, bootVars
<1>1. /\ pc[r] = "new" /\ UNCHANGED <<dbVars, managerVars, bootVars>>
      /\ \E x \in {"start", "stop", "run", "invoke", "add", "updateNode", "clear",
                   "remove", "done"} : pc' = [pc EXCEPT ![r] = x]
  BY RequestThread
<1>2. \/ on' = on /\ pc'[r] # "add"
      \/ \E h \in Harvesters : on' = [on EXCEPT ![r] = h] /\ (pc'[r] = "add" => Unused(h))
  BY DEF NewRequest, CallHarvester, Call, CallManager, CallUnknown, NotFound, Goto, Return
<1>3. \A q \in Requests \ {r} : pc'[q] = pc[q] /\ on'[q] = on[q]
  BY <1>1, <1>2
<1>4. pc'[r] \notin OwnerPCs \cup {"added", "unregister", "unstore"}
  BY <1>1
<1>5. Adding(r)' => /\ on'[r] \notin hmHarvestLookup
                    /\ \A q \in Threads : on[q] # on'[r]
  BY <1>1, <1>2 DEF Unused
<1> QED
  BY <1>1, <1>3, <1>4, <1>5

\* Steps that begin and end no operation of the manager, and create and delete no row.
LEMMA RegistryKept ==
  ASSUME TypeInv, RegistryInv, UNCHANGED <<hmHarvesters, hmHarvestLookup, bootVars>>,
         \A h \in Harvesters : dbStatus'[h] = "none" <=> dbStatus[h] = "none",
         \A r \in Requests : \/ pc'[r] = pc[r] /\ on'[r] = on[r]
                             \/ /\ pc[r] \notin {"unstore", "unregister", "added"}
                                /\ pc'[r] \notin OwnerPCs \cup {"add", "added"}
  PROVE  RegistryInv'
<1>t. /\ Requests \subseteq Threads
      /\ \A r \in Requests : pc[r] \notin {"new", "done"} => on[r] \in Harvesters
  BY DEF TypeInv, ObjectTypes, ThreadTypes, Threads
<1> USE <1>t DEF RegistryInv, Stored, Adding, OwnerPCs, bootVars
<1>1. RegistryAgrees'
  BY DEF RegistryAgrees, BeingRemoved
<1> QED
  BY <1>1

LEMMA RegistryManager ==
  ASSUME TypeInv, ManagerMonitor, RegistryInv, NEW r \in Requests, OnManager(r)
  PROVE  RegistryInv'
<1>t. /\ pc \in [Threads -> ManagerPCs] /\ on \in [Threads -> Harvesters \cup {NoHarvester}]
      /\ dbStatus \in [Harvesters -> Status \cup {"none"}]
      /\ r \in Threads /\ Requests \subseteq Threads /\ NoThread \notin Requests
      /\ hmHarvesters \subseteq hmHarvestLookup
      /\ boot # "up" => \A q \in Requests : pc[q] \in {"new", "done"}
      /\ \A q \in Requests : pc[q] \notin {"new", "done"} => on[q] \in Harvesters
  BY ThreadAssumption
  DEF TypeInv, ObjectTypes, StatusTypes, ThreadTypes, ManagerTypes, BootTypes, Threads
\* Only one request is inside a synchronized operation.
<1>m. \A q \in Requests : pc[r] \in OwnerPCs /\ pc[q] \in OwnerPCs => q = r
  BY DEF ManagerMonitor
<1> DEFINE h == on[r]
<1> USE <1>t DEF Goto, Return, Leave
<1>1. CASE AddStores(r)
  <2>1. /\ pc[r] = "add" /\ pc' = [pc EXCEPT ![r] = "added"] /\ h \in Harvesters
        /\ dbStatus' = [dbStatus EXCEPT ![h] = "inactive"]
        /\ UNCHANGED <<on, managerVars, bootVars>>
    BY <1>1 DEF AddStores
  <2>2. h \notin hmHarvestLookup /\ boot = "up"
    BY <2>1 DEF RegistryInv, Adding
  <2> QED
    BY <2>1, <2>2
    DEF RegistryInv, RegistryAgrees, Stored, BeingRemoved, Adding, OwnerPCs, managerVars, bootVars
<1>2. CASE AddRegisters(r)
  <2>1. /\ pc[r] = "added" /\ pc' = [pc EXCEPT ![r] = "done"] /\ h \in Harvesters
        /\ hmHarvesters' = hmHarvesters \cup {h} /\ hmHarvestLookup' = hmHarvestLookup \cup {h}
        /\ UNCHANGED <<on, dbStatus, bootVars>>
    BY <1>2 DEF AddRegisters, dbVars
  <2>2. dbStatus[h] # "none" /\ boot = "up"
    BY <2>1 DEF RegistryInv
  <2> QED
    BY <2>1, <2>2
    DEF RegistryInv, RegistryAgrees, Stored, BeingRemoved, Adding, OwnerPCs, bootVars
<1>3. CASE \/ Enter(r, "updateNode", "update") \/ Enter(r, "clear", "clearParams")
           \/ Enter(r, "remove", "destroy")
  <2>1. /\ pc[r] \in {"updateNode", "clear", "remove"} /\ h \in hmHarvesters
        /\ \E x \in {"update", "clearParams", "destroy"} : pc' = [pc EXCEPT ![r] = x]
        /\ UNCHANGED <<on, dbStatus, hmHarvesters, hmHarvestLookup, bootVars>>
    BY <1>3 DEF Enter, dbVars
  <2> QED
    BY <2>1
    DEF RegistryInv, RegistryAgrees, Stored, BeingRemoved, Adding, OwnerPCs, bootVars
<1>4. CASE EnterUnknown(r)
  BY <1>4, RegistryKept DEF EnterUnknown, NotFound, dbVars, managerVars, OwnerPCs
<1>5. CASE ManagedUpdate(r)
  <2>1. Reconfigure(h) \/ ReconfigureThrows(h) \/ UNCHANGED <<dbStatus, quartzVars>>
    BY <1>5 DEF ManagedUpdate, Update
  <2>2. \A k \in Harvesters : dbStatus'[k] = "none" <=> dbStatus[k] = "none"
    BY <1>5, <2>1, ReconfigureTypes DEF ManagedUpdate, Update, TypeInv, ObjectTypes
  <2>3. /\ pc[r] = "update" /\ pc' = [pc EXCEPT ![r] = "done"]
        /\ UNCHANGED <<on, hmHarvesters, hmHarvestLookup, bootVars>>
    BY <1>5 DEF ManagedUpdate, Update
  <2> QED
    BY <2>2, <2>3, RegistryKept DEF OwnerPCs
<1>6. CASE RemoveDestroys(r)
  <2>1. /\ pc[r] = "destroy" /\ pc' = [pc EXCEPT ![r] = "unstore"]
        /\ UNCHANGED <<on, dbStatus, managerVars, bootVars>>
    BY <1>6 DEF RemoveDestroys, Destroy
  <2> QED
    BY <2>1
    DEF RegistryInv, RegistryAgrees, Stored, BeingRemoved, Adding, OwnerPCs, managerVars, bootVars
<1>7. CASE RemoveFails(r)
  <2>1. /\ pc[r] = "destroy" /\ pc' = [pc EXCEPT ![r] = "done"]
        /\ UNCHANGED <<on, dbStatus, hmHarvesters, hmHarvestLookup, bootVars>>
    BY <1>7 DEF RemoveFails, DestroyFails
  <2> QED
    BY <2>1, RegistryKept DEF OwnerPCs
<1>8. CASE RemoveUnstores(r)
  <2>1. /\ pc[r] = "unstore" /\ pc' = [pc EXCEPT ![r] = "unregister"] /\ h \in Harvesters
        /\ dbStatus' = [dbStatus EXCEPT ![h] = "none"]
        /\ UNCHANGED <<on, managerVars, bootVars>>
    BY <1>8 DEF RemoveUnstores
  <2>2. h \in hmHarvesters /\ boot = "up"
    BY <2>1 DEF RegistryInv, OwnerPCs
  <2> QED
    BY <2>1, <2>2, <1>m
    DEF RegistryInv, RegistryAgrees, Stored, BeingRemoved, Adding, OwnerPCs, managerVars, bootVars
<1>9. CASE RemoveUnregisters(r)
  <2>1. /\ pc[r] = "unregister" /\ pc' = [pc EXCEPT ![r] = "done"] /\ h \in Harvesters
        /\ hmHarvesters' = hmHarvesters \ {h}
        /\ UNCHANGED <<on, dbStatus, hmHarvestLookup, bootVars>>
    BY <1>9 DEF RemoveUnregisters
  <2>2. dbStatus[h] = "none" /\ boot = "up"
    BY <2>1 DEF RegistryInv
  <2> QED
    BY <2>1, <2>2, <1>m
    DEF RegistryInv, RegistryAgrees, Stored, BeingRemoved, Adding, OwnerPCs, bootVars
<1>10. CASE ClearWaits(r) \/ ClearDeletes(r)
  <2>1. /\ pc[r] \in {"clearParams", "clearDelete"}
        /\ \E x \in {"clearDelete", "clearUpdate"} : pc' = [pc EXCEPT ![r] = x]
        /\ UNCHANGED <<on, dbStatus, hmHarvesters, hmHarvestLookup, bootVars>>
    BY <1>10 DEF ClearWaits, ClearDeletes, dbVars, managerVars
  <2> QED
    BY <2>1
    DEF RegistryInv, RegistryAgrees, Stored, BeingRemoved, Adding, OwnerPCs, bootVars
<1>11. CASE ClearUpdates(r)
  <2>1. Reconfigure(h) \/ ReconfigureThrows(h)
    BY <1>11 DEF ClearUpdates
  <2>2. \A k \in Harvesters : dbStatus'[k] = "none" <=> dbStatus[k] = "none"
    BY <1>11, <2>1, ReconfigureTypes DEF ClearUpdates, TypeInv, ObjectTypes
  <2>3. /\ pc[r] = "clearUpdate"
        /\ \E x \in {"clearHistory", "done"} : pc' = [pc EXCEPT ![r] = x]
        /\ UNCHANGED <<on, hmHarvesters, hmHarvestLookup, bootVars>>
    BY <1>11 DEF ClearUpdates, managerVars
  <2> QED
    BY <2>2, <2>3
    DEF RegistryInv, RegistryAgrees, Stored, BeingRemoved, Adding, OwnerPCs, bootVars
<1>12. CASE ClearLogs(r)
  <2>1. /\ pc[r] = "clearHistory" /\ pc' = [pc EXCEPT ![r] = "done"]
        /\ UNCHANGED <<on, dbStatus, hmHarvesters, hmHarvestLookup, bootVars>>
    BY <1>12 DEF ClearLogs, dbVars
  <2> QED
    BY <2>1, RegistryKept DEF OwnerPCs
<1> QED
  BY <1>1, <1>2, <1>3, <1>4, <1>5, <1>6, <1>7, <1>8, <1>9, <1>10, <1>11, <1>12 DEF OnManager

LEMMA RegistryCrash == ASSUME TypeInv, RegistryInv, Crash PROVE RegistryInv'
  BY DEF TypeInv, ManagerTypes, RegistryInv, RegistryAgrees, Crash, Stored, Adding, OwnerPCs,
         Threads, dbVars

LEMMA RegistryBoot == ASSUME TypeInv, RegistryInv, Boot PROVE RegistryInv'
<1>t. \A r \in Requests : pc[r] \in {"new", "done"}
  BY DEF TypeInv, BootTypes, Boot, LoadInit, LoadPuts, LoadFails, LoadEnds
<1> USE <1>t DEF TypeInv, BootTypes, RegistryInv, RegistryAgrees, Stored, Adding, OwnerPCs,
                 threadVars, dbVars, managerVars
<1>1. ASSUME NEW h \in Harvesters, LoadInit(h) PROVE RegistryInv'
  BY <1>1 DEF LoadInit
<1>2. CASE LoadPuts
  BY <1>2 DEF LoadPuts, vars
<1>3. ASSUME NEW h \in Harvesters, LoadFails(h) PROVE RegistryInv'
  BY <1>3 DEF LoadFails, vars
<1>4. CASE LoadEnds
  BY <1>4 DEF LoadEnds, vars
<1> QED
  BY <1>1, <1>2, <1>3, <1>4 DEF Boot

LEMMA RegistryNext == TypeInv /\ ManagerMonitor /\ RegistryInv /\ Steps => RegistryInv'
<1> SUFFICES ASSUME TypeInv, ManagerMonitor, RegistryInv, Steps PROVE RegistryInv'
  OBVIOUS
<1>t. pc \in [Threads -> ManagerPCs] /\ Requests \subseteq Threads
  BY DEF TypeInv, ObjectTypes, ThreadTypes, Threads
<1>1. ASSUME NEW t \in Threads, ObjectStep(t), UNCHANGED <<managerVars, bootVars, late>>
      PROVE  RegistryInv'
  <2>1. \A h \in Harvesters : dbStatus'[h] = "none" <=> dbStatus[h] = "none"
    BY <1>1, ObjectTouches
  <2>2. \A r \in Requests : \/ pc'[r] = pc[r] /\ on'[r] = on[r]
                            \/ /\ pc[r] \notin {"unstore", "unregister", "added"}
                               /\ pc'[r] \notin OwnerPCs \cup {"add", "added"}
    BY <1>t, <1>1, ObjectThread DEF ObjectPCs, StopPCs, RunPCs, OwnerPCs
  <2> QED
    BY <1>1, <2>1, <2>2, RegistryKept DEF managerVars
<1>2. ASSUME NEW f \in Firings, NEW h \in Harvesters, FireFor(f, h) \/ FireForNobody(f, h)
      PROVE  RegistryInv'
  <2>1. \A r \in Requests : pc'[r] = pc[r] /\ on'[r] = on[r]
    BY <1>t, <1>2, FireThread DEF TypeInv, ObjectTypes, ThreadTypes
  <2>2. UNCHANGED <<dbVars, managerVars, bootVars>>
    BY <1>2, FireThread
  <2> QED
    BY <2>1, <2>2, RegistryKept DEF dbVars, managerVars
<1>3. CASE UNCHANGED allVars
  BY <1>3, RegistryKept DEF allVars, vars, dbVars, threadVars, managerVars
<1> QED
  BY <1>1, <1>2, <1>3, RegistryRequest, RegistryManager, RegistryCrash, RegistryBoot DEF Steps

\* Whenever the catalogue is up, the map by id and the settings table tell the
\* same harvesters, except those that are being added or removed
\* (HarvestManagerImpl.add, remove, init; HarvesterSettingsManager).
THEOREM RegistryIsStored == ManagerSpec => []RegistryAgrees
<1> DEFINE IInv == TypeInv /\ ManagerMonitor /\ RegistryInv
<1>1. IInv /\ [ManagerNext]_allVars => IInv'
  BY StepsAre, TypeNext, MonitorNext, RegistryNext
<1>2. ManagerInit => IInv
  BY TypeInit, MonitorInit, RegistryInit
<1>3. IInv => RegistryAgrees
  BY DEF RegistryInv
<1> QED
  BY <1>1, <1>2, <1>3, PTL DEF ManagerSpec

-----------------------------------------------------------------------------
(* What is left of harvesters that are gone.                                *)

\* The places at which a thread does nothing to a harvester that is gone.
HarmlessPCs == {"new", "done", "add", "updateNode", "clear", "remove", "unstore", "unregister"}

Gone(h) == dbStatus[h] = "none" \/ BeingRemoved(h)

CleanInv ==
  \A h \in Harvesters \ late : Gone(h) =>
    /\ ~job[h]
    /\ records[h] = {}
    /\ ~BeingRemoved(h) => ~history[h]
    /\ \A t \in Threads : on[t] = h => pc[t] \in HarmlessPCs

LEMMA CleanInit == ManagerInit => CleanInv
<1> SUFFICES ASSUME ManagerInit PROVE CleanInv
  OBVIOUS
<1>1. \A h \in Harvesters : ~BeingRemoved(h) /\ ~history[h] /\ records[h] = {}
                            /\ job[h] = (dbStatus[h] = "active")
  BY DEF ManagerInit, InitWith, BeingRemoved, Threads
<1>2. \A t \in Threads : pc[t] = "new"
  BY DEF ManagerInit, InitWith
<1> QED
  BY <1>1, <1>2 DEF CleanInv, Gone, HarmlessPCs

\* A step on a harvester that is not gone, or is late, and stays so; the others
\* are as before, and threads that are new to them harmless.
LEMMA CleanKept ==
  ASSUME TypeInv, CleanInv, NEW h \in Harvesters, late \subseteq late',
         h \in late' \/ ~Gone(h)',
         \A k \in Harvesters \ {h} :
            /\ dbStatus'[k] = dbStatus[k] /\ job'[k] = job[k]
            /\ records'[k] = records[k] /\ history'[k] = history[k],
         \A t \in Threads : \/ pc'[t] = pc[t] /\ on'[t] = on[t]
                            \/ on'[t] = h /\ on[t] = h
                            \/ on'[t] = h /\ pc[t] = "new"
                            \/ pc'[t] \in HarmlessPCs \ {"unstore", "unregister"} /\ pc[t] = "new"
  PROVE  CleanInv'
<1> SUFFICES ASSUME NEW k \in Harvesters \ late', Gone(k)'
             PROVE  /\ ~job'[k] /\ records'[k] = {}
                    /\ ~BeingRemoved(k)' => ~history'[k]
                    /\ \A t \in Threads : on'[t] = k => pc'[t] \in HarmlessPCs
  BY DEF CleanInv
<1>1. k # h /\ k \notin late
  OBVIOUS
<1>2. BeingRemoved(k)' <=> BeingRemoved(k)
  BY <1>1 DEF BeingRemoved, Threads, HarmlessPCs
<1>3. Gone(k)
  BY <1>1, <1>2 DEF Gone
<1> QED
  BY <1>1, <1>2, <1>3 DEF CleanInv

LEMMA CleanRequest ==
  ASSUME TypeInv, RegistryInv, CleanInv, NEW r \in Requests, NewRequest(r)
  PROVE  CleanInv'
<1>t. /\ pc \in [Threads -> ManagerPCs] /\ on \in [Threads -> Harvesters \cup {NoHarvester}]
      /\ Requests \subseteq Threads /\ hmHarvesters \subseteq hmHarvestLookup
  BY DEF TypeInv, ObjectTypes, ThreadTypes, ManagerTypes, Threads
<1>1. /\ pc[r] = "new" /\ boot = "up" /\ UNCHANGED <<dbVars, quartzVars>>
      /\ \E x \in {"start", "stop", "run", "invoke", "add", "updateNode", "clear",
                   "remove", "done"} : pc' = [pc EXCEPT ![r] = x]
  BY RequestThread
<1>2. ASSUME NEW h \in Harvesters, NEW m \in Methods, CallHarvester(r, h, m)
      PROVE  CleanInv'
  <2>1. /\ on' = [on EXCEPT ![r] = h] /\ late \subseteq late' /\ h \in hmHarvesters
        /\ BeingRemoved(h) => h \in late'
    BY <1>2 DEF CallHarvester, Call
  <2>2. BeingRemoved(h)' <=> BeingRemoved(h)
    BY <1>t, <1>1, <2>1 DEF BeingRemoved
  <2>3. BeingRemoved(h) \/ dbStatus[h] # "none"
    BY <1>1, <1>t, <2>1 DEF RegistryInv, RegistryAgrees, Stored, Adding
  <2> QED
    BY <1>t, <1>1, <2>1, <2>2, <2>3, CleanKept DEF Gone, dbVars, quartzVars
<1>3. ASSUME on' = on \/ \E h \in Harvesters : on' = [on EXCEPT ![r] = h],
             pc'[r] \in HarmlessPCs \ {"unstore", "unregister"}, UNCHANGED late
      PROVE  CleanInv'
  <2>1. \A h \in Harvesters : BeingRemoved(h)' <=> BeingRemoved(h)
    BY <1>t, <1>1, <1>3 DEF BeingRemoved
  <2> QED
    BY <1>t, <1>1, <1>3, <2>1 DEF CleanInv, Gone, dbVars, quartzVars
<1>4. ASSUME NEW h \in Harvesters, NEW op \in Operations, CallManager(r, h, op)
      PROVE  CleanInv'
  BY <1>t, <1>3, <1>4, ManagerAssumption DEF CallManager, Goto, HarmlessPCs
<1>5. ASSUME NEW h \in Harvesters, CallUnknown(r, h) PROVE CleanInv'
  BY <1>t, <1>3, <1>5 DEF CallUnknown, NotFound, Return, Goto, HarmlessPCs
<1> QED
  BY <1>2, <1>4, <1>5 DEF NewRequest

LEMMA CleanObject ==
  ASSUME TypeInv, CleanInv, NEW t \in Threads, ObjectStep(t),
         UNCHANGED <<managerVars, bootVars, late>>
  PROVE  CleanInv'
<1>1. /\ on' = on /\ pc[t] \in ObjectPCs /\ on[t] \in Harvesters
      /\ \E x \in ObjectPCs \cup {"done"} : pc' = [pc EXCEPT ![t] = x]
  BY ObjectThread
<1>2. pc \in [Threads -> ManagerPCs] /\ Requests \subseteq Threads
  BY DEF TypeInv, ObjectTypes, ThreadTypes, Threads
<1>3. on[t] \in late \/ ~Gone(on[t])
  BY <1>1 DEF CleanInv, HarmlessPCs, ObjectPCs, StopPCs, RunPCs
<1>4. \A h \in Harvesters : BeingRemoved(h)' <=> BeingRemoved(h)
  BY <1>1, <1>2 DEF BeingRemoved, ObjectPCs, StopPCs, RunPCs
<1>5. on[t] \in late \/ ~Gone(on[t])'
  BY <1>1, <1>3, <1>4, ObjectTouches DEF Gone
<1> QED
  BY <1>1, <1>2, <1>5, ObjectTouches, CleanKept DEF Same

LEMMA CleanManager ==
  ASSUME TypeInv, ManagerMonitor, RegistryInv, CleanInv, NEW r \in Requests, OnManager(r)
  PROVE  CleanInv'
<1>t. /\ pc \in [Threads -> ManagerPCs] /\ on \in [Threads -> Harvesters \cup {NoHarvester}]
      /\ StatusTypes /\ JobTypes /\ HarvestTypes
      /\ r \in Threads /\ Requests \subseteq Threads /\ NoThread \notin Requests
      /\ hmHarvesters \subseteq hmHarvestLookup
      /\ boot # "up" => \A q \in Requests : pc[q] \in {"new", "done"}
      /\ \A q \in Requests : pc[q] \notin {"new", "done"} => on[q] \in Harvesters
  BY ThreadAssumption
  DEF TypeInv, ObjectTypes, ThreadTypes, ManagerTypes, BootTypes, Threads
\* Only one request is inside a synchronized operation.
<1>m. \A q \in Requests : pc[r] \in OwnerPCs /\ pc[q] \in OwnerPCs => q = r
  BY DEF ManagerMonitor
\* A harvester on which another thread than a remover works is not gone.
<1>n. pc[r] \notin HarmlessPCs => on[r] \in late \/ ~Gone(on[r])
  BY <1>t DEF CleanInv, HarmlessPCs
<1> DEFINE h == on[r]
<1> USE <1>t DEF Goto, Return, Leave
<1>1. CASE AddStores(r)
  <2>1. /\ pc[r] = "add" /\ pc' = [pc EXCEPT ![r] = "added"] /\ h \in Harvesters
        /\ dbStatus' = [dbStatus EXCEPT ![h] = "inactive"]
        /\ UNCHANGED <<on, records, history, quartzVars, late>>
    BY <1>1 DEF AddStores
  <2>2. ~BeingRemoved(h)'
    BY <2>1 DEF RegistryInv, BeingRemoved, Adding, OwnerPCs
  <2>3. ~Gone(h)'
    BY <2>1, <2>2 DEF Gone, StatusTypes
  <2> QED
    BY <2>1, <2>3, CleanKept DEF quartzVars, StatusTypes
<1>2. CASE AddRegisters(r) \/ EnterUnknown(r)
  <2>1. /\ pc[r] \notin {"unstore", "unregister"} /\ pc' = [pc EXCEPT ![r] = "done"]
        /\ UNCHANGED <<dbVars, quartzVars, on, late>>
    BY <1>2 DEF AddRegisters, EnterUnknown, NotFound
  <2>2. \A k \in Harvesters : BeingRemoved(k)' <=> BeingRemoved(k)
    BY <2>1 DEF BeingRemoved
  <2> QED
    BY <2>1, <2>2 DEF CleanInv, Gone, HarmlessPCs, dbVars, quartzVars
<1>3. CASE \/ Enter(r, "updateNode", "update") \/ Enter(r, "clear", "clearParams")
           \/ Enter(r, "remove", "destroy")
  <2>1. /\ pc[r] \in {"updateNode", "clear", "remove"} /\ h \in hmHarvesters
        /\ managerLock = NoThread
        /\ \E x \in {"update", "clearParams", "destroy"} : pc' = [pc EXCEPT ![r] = x]
        /\ UNCHANGED <<dbVars, quartzVars, on, late>>
    BY <1>3 DEF Enter
  <2>2. h \in Harvesters /\ boot = "up"
    BY <2>1
  <2>3. ~BeingRemoved(h) /\ ~BeingRemoved(h)'
    BY <2>1 DEF ManagerMonitor, BeingRemoved, OwnerPCs
  <2>4. dbStatus[h] # "none"
    BY <2>1, <2>2, <2>3 DEF RegistryInv, RegistryAgrees, Stored, Adding
  <2> QED
    BY <2>1, <2>2, <2>3, <2>4, CleanKept DEF Gone, dbVars, quartzVars
\* The operations that neither remove nor unregister the harvester.
<1>4. ASSUME pc[r] \in OwnerPCs \ {"unstore", "unregister"},
             \E x \in ManagerPCs \ {"unstore", "unregister"} : pc' = [pc EXCEPT ![r] = x],
             UNCHANGED <<on, late>>,
             dbStatus'[h] = "none" <=> dbStatus[h] = "none",
             \A k \in Harvesters \ {h} :
               /\ dbStatus'[k] = dbStatus[k] /\ job'[k] = job[k]
               /\ records'[k] = records[k] /\ history'[k] = history[k]
      PROVE  CleanInv'
  <2>1. h \in late \/ ~Gone(h)
    BY <1>4, <1>n DEF OwnerPCs, HarmlessPCs
  <2>2. BeingRemoved(h)' <=> BeingRemoved(h)
    BY <1>4 DEF BeingRemoved
  <2>3. h \in Harvesters
    BY <1>4 DEF OwnerPCs
  <2> QED
    BY <1>4, <2>1, <2>2, <2>3, CleanKept DEF Gone
<1>5. CASE ManagedUpdate(r)
  <2>1. Reconfigure(h) \/ ReconfigureThrows(h) \/ UNCHANGED <<dbStatus, quartzVars>>
    BY <1>5 DEF ManagedUpdate, Update
  <2>2. /\ pc[r] = "update" /\ pc' = [pc EXCEPT ![r] = "done"]
        /\ UNCHANGED <<records, history, on, late>>
    BY <1>5 DEF ManagedUpdate, Update
  <2> QED
    BY <1>4, <2>1, <2>2, ReconfigureTypes DEF OwnerPCs, ManagerPCs, PCs
<1>6. CASE RemoveDestroys(r)
  <2>1. /\ pc[r] = "destroy" /\ pc' = [pc EXCEPT ![r] = "unstore"] /\ h \in Harvesters
        /\ Unschedule(h)
        /\ records' = [records EXCEPT ![h] = {}]
        /\ late' = IF InUse(h, r) THEN late \cup {h} ELSE late
        /\ UNCHANGED <<on, dbStatus, history>>
    BY <1>6 DEF RemoveDestroys, Destroy
  <2>2. CASE InUse(h, r)
    BY <2>1, <2>2, CleanKept DEF Unschedule, HarvestTypes, JobTypes
  <2>3. CASE ~InUse(h, r)
    <3>1. \A t \in Threads \ {r} : on[t] = h => pc[t] \in {"new", "done"}
      BY <2>3 DEF InUse, InFlight
    <3>2. \A k \in Harvesters \ {h} : BeingRemoved(k)' <=> BeingRemoved(k)
      BY <2>1 DEF BeingRemoved
    <3>3. BeingRemoved(h)'
      BY <2>1 DEF BeingRemoved
    <3>4. /\ ~job'[h] /\ records'[h] = {}
          /\ \A t \in Threads : on'[t] = h => pc'[t] \in HarmlessPCs
      BY <2>1, <3>1 DEF Unschedule, HarmlessPCs, HarvestTypes, JobTypes
    <3>5. \A k \in Harvesters \ {h} :
            job'[k] = job[k] /\ records'[k] = records[k]
      BY <2>1 DEF Unschedule, HarvestTypes, JobTypes
    <3> QED
      BY <2>1, <2>3, <3>2, <3>3, <3>4, <3>5 DEF CleanInv, Gone, HarmlessPCs
  <2> QED
    BY <2>2, <2>3
<1>7. CASE RemoveFails(r)
  <2>1. /\ pc[r] = "destroy" /\ pc' = [pc EXCEPT ![r] = "done"] /\ Unschedule(h)
        /\ \A k \in Harvesters \ {h} : records'[k] = records[k]
        /\ UNCHANGED <<on, dbStatus, history, late>>
    BY <1>7 DEF RemoveFails, DestroyFails, HarvestTypes
  <2> QED
    BY <1>4, <2>1 DEF Unschedule, JobTypes, OwnerPCs, ManagerPCs, PCs
<1>8. CASE RemoveUnstores(r)
  <2>1. /\ pc[r] = "unstore" /\ pc' = [pc EXCEPT ![r] = "unregister"] /\ h \in Harvesters
        /\ dbStatus' = [dbStatus EXCEPT ![h] = "none"]
        /\ UNCHANGED <<on, records, history, job, late>>
    BY <1>8 DEF RemoveUnstores, quartzVars
  <2>2. \A k \in Harvesters : BeingRemoved(k)' <=> BeingRemoved(k)
    BY <2>1 DEF BeingRemoved
  <2>3. BeingRemoved(h)
    BY <2>1 DEF BeingRemoved
  <2> QED
    BY <2>1, <2>2, <2>3 DEF CleanInv, Gone, HarmlessPCs, StatusTypes
<1>9. CASE RemoveUnregisters(r)
  <2>1. /\ pc[r] = "unregister" /\ pc' = [pc EXCEPT ![r] = "done"] /\ h \in Harvesters
        /\ history' = [history EXCEPT ![h] = FALSE]
        /\ UNCHANGED <<on, dbStatus, records, job, late>>
    BY <1>9 DEF RemoveUnregisters, quartzVars
  <2>2. \A k \in Harvesters \ {h} : BeingRemoved(k)' <=> BeingRemoved(k)
    BY <2>1 DEF BeingRemoved
  <2>3. BeingRemoved(h)
    BY <2>1 DEF BeingRemoved
  <2> QED
    BY <2>1, <2>2, <2>3 DEF CleanInv, Gone, HarmlessPCs, HarvestTypes
<1>10. CASE ClearWaits(r) \/ ClearDeletes(r) \/ ClearLogs(r)
  <2>1. /\ pc[r] \in {"clearParams", "clearDelete", "clearHistory"}
        /\ \E x \in {"clearDelete", "clearUpdate", "done"} : pc' = [pc EXCEPT ![r] = x]
        /\ \A k \in Harvesters \ {h} : records'[k] = records[k]
        /\ UNCHANGED <<on, dbStatus, history, quartzVars, late>>
    BY <1>10 DEF ClearWaits, ClearDeletes, ClearLogs, dbVars, HarvestTypes
  <2> QED
    BY <1>4, <2>1 DEF OwnerPCs, ManagerPCs, PCs, quartzVars
<1>11. CASE ClearUpdates(r)
  <2>1. Reconfigure(h) \/ ReconfigureThrows(h)
    BY <1>11 DEF ClearUpdates
  <2>2. /\ pc[r] = "clearUpdate"
        /\ \E x \in {"clearHistory", "done"} : pc' = [pc EXCEPT ![r] = x]
        /\ \A k \in Harvesters \ {h} : records'[k] = records[k]
        /\ UNCHANGED <<on, history, late>>
    BY <1>11 DEF ClearUpdates, HarvestTypes
  <2> QED
    BY <1>4, <2>1, <2>2, ReconfigureTypes DEF OwnerPCs, ManagerPCs, PCs
<1> QED
  BY <1>1, <1>2, <1>3, <1>5, <1>6, <1>7, <1>8, <1>9, <1>10, <1>11 DEF OnManager

LEMMA CleanFire ==
  ASSUME TypeInv, CleanInv, NEW f \in Firings, NEW h \in Harvesters,
         FireFor(f, h) \/ FireForNobody(f, h)
  PROVE  CleanInv'
<1>1. /\ f \in Threads /\ f \notin Requests /\ pc[f] = "new" /\ job[h]
      /\ on' = [on EXCEPT ![f] = h]
      /\ \E x \in {"fired", "done"} : pc' = [pc EXCEPT ![f] = x]
      /\ UNCHANGED <<dbVars, job, late>>
  BY FireThread
<1>2. /\ pc \in [Threads -> ManagerPCs] /\ on \in [Threads -> Harvesters \cup {NoHarvester}]
      /\ Requests \subseteq Threads
  BY DEF TypeInv, ObjectTypes, ThreadTypes, Threads
<1>3. BeingRemoved(h)' <=> BeingRemoved(h)
  BY <1>1, <1>2 DEF BeingRemoved
<1>4. h \in late \/ ~Gone(h)
  BY <1>1 DEF CleanInv
<1>5. h \in late' \/ ~Gone(h)'
  BY <1>1, <1>3, <1>4 DEF Gone, dbVars
<1> QED
  BY <1>1, <1>2, <1>5, CleanKept DEF dbVars

LEMMA CleanCrash == ASSUME TypeInv, CleanInv, Crash PROVE CleanInv'
<1>1. /\ UNCHANGED <<dbVars, on, late>> /\ job' = [h \in Harvesters |-> FALSE]
      /\ \A h \in Harvesters : ~BeingRemoved(h)
      /\ \A t \in Threads : pc'[t] \in {"new", "done"}
  BY DEF Crash, OpenTransaction, BeingRemoved
<1>2. \A h \in Harvesters : ~BeingRemoved(h)'
  BY <1>1 DEF BeingRemoved, Threads
<1> QED
  BY <1>1, <1>2 DEF CleanInv, Gone, dbVars, HarmlessPCs

LEMMA CleanBoot == ASSUME TypeInv, CleanInv, Boot PROVE CleanInv'
<1>1. UNCHANGED <<threadVars, dbVars, late>>
  BY BootThread DEF Boot, LoadInit, LoadPuts, LoadFails, LoadEnds
<1>2. \A h \in Harvesters : BeingRemoved(h)' <=> BeingRemoved(h)
  BY <1>1 DEF BeingRemoved, threadVars
<1>3. \A h \in Harvesters : job'[h] = job[h] \/ dbStatus[h] # "none"
  BY DEF Boot, LoadInit, LoadPuts, LoadFails, LoadEnds, vars, quartzVars,
         TypeInv, ObjectTypes, JobTypes, BootTypes
<1>4. \A h \in Harvesters : ~BeingRemoved(h)
  BY DEF TypeInv, BootTypes, BeingRemoved, Boot, LoadInit, LoadPuts, LoadFails, LoadEnds
<1> QED
  BY <1>1, <1>2, <1>3, <1>4 DEF CleanInv, Gone, threadVars, dbVars

LEMMA CleanNext ==
  TypeInv /\ ManagerMonitor /\ RegistryInv /\ CleanInv /\ Steps => CleanInv'
<1>1. CleanInv /\ UNCHANGED allVars => CleanInv'
  BY DEF CleanInv, Gone, BeingRemoved, allVars, vars, dbVars, quartzVars, threadVars
<1> QED
  BY <1>1, CleanRequest, CleanObject, CleanManager, CleanFire, CleanCrash, CleanBoot DEF Steps

\* A removed harvester leaves no record, no live history and no job, unless a
\* thread already had a reference to it while it was being removed
\* (HarvestManagerImpl.remove, AbstractHarvester.destroy).
THEOREM RemovedLeavesNothing == ManagerSpec => []RemovedIsClean
<1> DEFINE IInv == TypeInv /\ ManagerMonitor /\ RegistryInv /\ CleanInv
<1>1. IInv /\ [ManagerNext]_allVars => IInv'
  BY StepsAre, TypeNext, MonitorNext, RegistryNext, CleanNext
<1>2. ManagerInit => IInv
  BY TypeInit, MonitorInit, RegistryInit, CleanInit
<1>3. IInv => RemovedIsClean
  BY DEF CleanInv, RemovedIsClean, Gone, Stored
<1> QED
  BY <1>1, <1>2, <1>3, PTL DEF ManagerSpec
=============================================================================
