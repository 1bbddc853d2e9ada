------------------------ MODULE HarvestRestart_proofs ------------------------
(***************************************************************************)
(* The harvesters under the manager, over crashes and restarts: who holds  *)
(* a harvester's monitor, which of them have jobs, and what init restores. *)
(***************************************************************************)
EXTENDS HarvestManager_proofs

-----------------------------------------------------------------------------
(* References and monitors.                                                 *)

\* Threads work on harvesters that the map by uuid knows, and jobs are those of
\* such harvesters or of the one that init has just built.
KnownInv ==
  /\ \A t \in Threads : pc[t] \in ObjectPCs \cup OwnerPCs => on[t] \in hmHarvestLookup
  /\ \A h \in Harvesters : job[h] => h \in hmHarvestLookup \cup {loading}

\* A thread inside harvest() owns the monitor.
HolderInv == \A t \in Threads : pc[t] \in RunPCs => lock[on[t]] = t

LEMMA KnownInit == ManagerInit => KnownInv /\ HolderInv
<1> SUFFICES ASSUME ManagerInit PROVE KnownInv /\ HolderInv
  OBVIOUS
<1>1. \A t \in Threads : pc[t] = "new"
  BY DEF ManagerInit, InitWith
<1>2. \A h \in Harvesters : dbStatus[h] # "none" => h \in hmHarvestLookup
  BY DEF ManagerInit, InitWith
<1>3. job = [h \in Harvesters |-> dbStatus[h] = "active"]
  BY DEF ManagerInit, InitWith
<1> QED
  BY <1>1, <1>2, <1>3 DEF KnownInv, HolderInv, ObjectPCs, OwnerPCs, StopPCs, RunPCs

\* What a step of the manager does to threads and jobs.
LEMMA ManagerThread ==
  ASSUME TypeInv, RegistryInv, NEW r \in Requests, OnManager(r)
  PROVE  /\ boot = "up" /\ loading = NoHarvester /\ on[r] \in Harvesters
         /\ UNCHANGED <<on, arg, lock>>
         /\ pc[r] \in {"add", "added", "updateNode", "clear", "remove"} \cup OwnerPCs
         /\ \E x \in OwnerPCs \cup {"added", "done"} :
              /\ pc' = [pc EXCEPT ![r] = x]
              /\ x \in OwnerPCs => on[r] \in hmHarvestLookup
         /\ hmHarvestLookup \subseteq hmHarvestLookup'
         /\ loading' = loading
         /\ pc[r] \in OwnerPCs \/ UNCHANGED job
<1> USE DEF Goto, Return, Leave, OwnerPCs, harvesterVars, quartzVars, bootVars, managerVars
<1>1. /\ UNCHANGED <<on, arg, lock>> /\ loading' = loading
      /\ hmHarvestLookup \subseteq hmHarvestLookup'
      /\ pc[r] \in {"add", "added", "updateNode", "clear", "remove"} \cup OwnerPCs
      /\ pc[r] \in OwnerPCs \/ UNCHANGED job
      /\ \E x \in OwnerPCs \cup {"added", "done"} :
              /\ pc' = [pc EXCEPT ![r] = x]
              /\ x \in OwnerPCs => pc[r] \in OwnerPCs \/ on[r] \in hmHarvesters
  <2>1. CASE AddStores(r) \/ AddRegisters(r)
    BY <2>1 DEF AddStores, AddRegisters
  <2>2. CASE \/ Enter(r, "updateNode", "update") \/ Enter(r, "clear", "clearParams")
             \/ Enter(r, "remove", "destroy") \/ EnterUnknown(r)
    BY <2>2 DEF Enter, EnterUnknown, NotFound
  <2>3. CASE ManagedUpdate(r)
    BY <2>3 DEF ManagedUpdate, Update
  <2>4. CASE RemoveDestroys(r) \/ RemoveFails(r)
    BY <2>4 DEF RemoveDestroys, Destroy, RemoveFails, DestroyFails
  <2>5. CASE RemoveUnstores(r) \/ RemoveUnregisters(r)
    BY <2>5 DEF RemoveUnstores, RemoveUnregisters
  <2>6. CASE ClearWaits(r) \/ ClearDeletes(r) \/ ClearLogs(r)
    BY <2>6 DEF ClearWaits, ClearDeletes, ClearLogs
  <2>7. CASE ClearUpdates(r)
    BY <2>7 DEF ClearUpdates
  <2> QED
    BY <2>1, <2>2, <2>3, <2>4, <2>5, <2>6, <2>7 DEF OnManager
<1>2. pc[r] \in OwnerPCs => on[r] \in hmHarvesters
  BY DEF RegistryInv
<1>3. boot = "up" /\ loading = NoHarvester
  BY <1>1 DEF TypeInv, BootTypes
<1>4. hmHarvesters \subseteq hmHarvestLookup
  BY DEF TypeInv, ManagerTypes
<1>5. on[r] \in Harvesters
  BY <1>1 DEF TypeInv, ObjectTypes, ThreadTypes, Threads
<1> QED
  BY <1>1, <1>2, <1>3, <1>4, <1>5

\* The monitor of a harvester goes to the thread that begins a harvest, from
\* nobody, and back to nobody when the thread leaves.
LEMMA ObjectLocks ==
  ASSUME TypeInv, NEW t \in Threads, ObjectStep(t)
  PROVE  \/ lock' = lock /\ (pc'[t] \in RunPCs => pc[t] \in RunPCs)
         \/ /\ Free(on[t]) /\ lock' = [lock EXCEPT ![on[t]] = t] /\ pc'[t] = "harvest"
         \/ /\ lock' = [lock EXCEPT ![on[t]] = NoThread] /\ pc[t] = "closing" /\ pc'[t] = "done"
<1>1. pc \in [Threads -> ManagerPCs]
  BY DEF TypeInv, ObjectTypes, ThreadTypes
<1> USE <1>1 DEF Goto, Return, RunPCs, harvesterVars, threadVars
<1>2. CASE Start(t) \/ Run(t)
  BY <1>2 DEF Start, Run
<1>3. CASE Invoke(t) \/ JobHarvests(t)
  BY <1>3 DEF Invoke, JobHarvests, BeginHarvest
<1>4. CASE StopSetsCancel(t) \/ StopGetsParams(t) \/ StopInterrupts(t) \/ StopBlock(t)
  BY <1>4 DEF StopSetsCancel, StopGetsParams, StopInterrupts, StopBlock
<1>5. CASE HarvestRecord(t) \/ HarvestReturns(t) \/ HarvestFails(t) \/ HarvestCloses(t)
  BY <1>5 DEF HarvestRecord, HarvestReturns, HarvestFails, HarvestCloses
<1> QED
  BY <1>2, <1>3, <1>4, <1>5 DEF ObjectStep, HarvestStep

LEMMA KnownNext ==
  TypeInv /\ RegistryInv /\ KnownInv /\ HolderInv /\ Steps => KnownInv' /\ HolderInv'
<1> SUFFICES ASSUME TypeInv, RegistryInv, KnownInv, HolderInv, Steps
             PROVE  KnownInv' /\ HolderInv'
  OBVIOUS
<1>t. /\ pc \in [Threads -> ManagerPCs] /\ on \in [Threads -> Harvesters \cup {NoHarvester}]
      /\ lock \in [Harvesters -> Threads \cup {NoThread}]
      /\ job \in [Harvesters -> BOOLEAN]
      /\ Requests \subseteq Threads /\ hmHarvesters \subseteq hmHarvestLookup
      /\ NoThread \notin Threads
      /\ \A t \in Threads : pc[t] \notin {"new", "done"} => on[t] \in Harvesters
  BY ThreadAssumption
  DEF TypeInv, ObjectTypes, JobTypes, HarvestTypes, ThreadTypes, ManagerTypes, Threads
<1> USE <1>t DEF KnownInv, HolderInv, ObjectPCs, OwnerPCs, StopPCs, RunPCs
<1>1. ASSUME NEW r \in Requests, NewRequest(r) PROVE KnownInv' /\ HolderInv'
  <2>1. /\ pc[r] = "new" /\ UNCHANGED <<lock, job, hmHarvestLookup, loading>>
        /\ \E x \in {"start", "stop", "run", "invoke", "add", "updateNode", "clear",
                     "remove", "done"} : pc' = [pc EXCEPT ![r] = x]
    BY <1>1, RequestThread DEF harvesterVars, quartzVars, managerVars, bootVars
  <2>2. \A q \in Threads \ {r} : on'[q] = on[q]
    BY <1>1 DEF NewRequest, CallHarvester, Call, CallManager, CallUnknown, NotFound
  <2>3. pc'[r] \in ObjectPCs => on'[r] \in hmHarvesters
    <3>1. ASSUME NEW h \in Harvesters, NEW m \in Methods, CallHarvester(r, h, m)
          PROVE  on'[r] \in hmHarvesters
      BY <3>1 DEF CallHarvester, Call
    <3>2. ASSUME NEW h \in Harvesters, NEW op \in Operations, CallManager(r, h, op)
          PROVE  pc'[r] \notin ObjectPCs
      BY <3>2, ManagerAssumption DEF CallManager, Goto
    <3>3. ASSUME NEW h \in Harvesters, CallUnknown(r, h) PROVE pc'[r] \notin ObjectPCs
      BY <3>3 DEF CallUnknown, NotFound, Return, Goto
    <3> QED
      BY <1>1, <3>1, <3>2, <3>3 DEF NewRequest
  <2> QED
    BY <2>1, <2>2, <2>3
<1>2. ASSUME NEW t \in Threads, ObjectStep(t), UNCHANGED <<managerVars, bootVars, late>>
      PROVE  KnownInv' /\ HolderInv'
  <2>1. /\ on' = on /\ pc[t] \in ObjectPCs /\ on[t] \in Harvesters
        /\ \E x \in ObjectPCs \cup {"done"} : pc' = [pc EXCEPT ![t] = x]
        /\ UNCHANGED <<hmHarvestLookup, loading>>
    BY <1>2, ObjectThread DEF managerVars, bootVars
  <2>2. \A h \in Harvesters \ {on[t]} : job'[h] = job[h]
    BY <1>2, ObjectTouches DEF Same
  <2>3. KnownInv'
    BY <2>1, <2>2
  <2>4. HolderInv'
    BY <1>2, <2>1, ObjectLocks DEF Free
  <2> QED
    BY <2>3, <2>4
<1>3. ASSUME NEW r \in Requests, OnManager(r) PROVE KnownInv' /\ HolderInv'
  <2>1. HolderInv'
    BY <1>3, ManagerThread
  <2>2. \A t \in Threads : pc'[t] \in ObjectPCs \cup OwnerPCs => on'[t] \in hmHarvestLookup'
    BY <1>3, ManagerThread
  <2>3. \A h \in Harvesters : job'[h] => job[h] \/ h = on[r]
    <3>1. /\ pc[r] \notin OwnerPCs => UNCHANGED job
          /\ on[r] \in Harvesters
      BY <1>3, ManagerThread
    <3>2. CASE ManagedUpdate(r) \/ ClearUpdates(r)
      <4>1. Reconfigure(on[r]) \/ ReconfigureThrows(on[r]) \/ UNCHANGED <<dbStatus, quartzVars>>
        BY <3>2 DEF ManagedUpdate, Update, ClearUpdates
      <4> QED
        BY <3>1, <4>1, ReconfigureTypes DEF TypeInv, ObjectTypes
    <3>3. CASE UNCHANGED job
      BY <3>3
    <3>4. CASE Unschedule(on[r])
      BY <3>1, <3>4 DEF Unschedule
    <3> QED
      BY <1>3, <3>2, <3>3, <3>4
      DEF OnManager, AddStores, AddRegisters, Enter, EnterUnknown, NotFound,
          RemoveDestroys, Destroy, RemoveFails, DestroyFails, RemoveUnstores,
          RemoveUnregisters, ClearWaits, ClearDeletes, ClearLogs, quartzVars
  <2>4. \A h \in Harvesters : job'[h] => h \in hmHarvestLookup' \cup {loading'}
    BY <1>3, <2>3, ManagerThread
  <2> QED
    BY <2>1, <2>2, <2>4
<1>4. ASSUME NEW f \in Firings, NEW h \in Harvesters, FireFor(f, h) \/ FireForNobody(f, h)
      PROVE  KnownInv' /\ HolderInv'
  BY <1>4, FireThread DEF harvesterVars, managerVars, bootVars
<1>5. CASE Crash
  BY <1>5 DEF Crash
<1>6. CASE Boot
  <2>1. UNCHANGED <<pc, on, lock>> /\ hmHarvestLookup \subseteq hmHarvestLookup'
    BY <1>6 DEF Boot, LoadInit, LoadPuts, LoadFails, LoadEnds, vars, harvesterVars,
                threadVars, managerVars
  <2>2. ASSUME NEW h \in Harvesters, LoadInit(h)
        PROVE  \A k \in Harvesters : job'[k] => k \in hmHarvestLookup' \cup {loading'}
    <3>1. /\ loading' = h /\ loading = NoHarvester /\ hmHarvestLookup' = hmHarvestLookup
          /\ \A k \in Harvesters \ {h} : job'[k] = job[k]
      BY <2>2 DEF LoadInit, managerVars
    <3> QED
      BY <3>1, ThreadAssumption
  <2>3. CASE LoadPuts
    BY <2>1, <2>3 DEF LoadPuts, vars, quartzVars
  <2>4. ASSUME NEW h \in Harvesters, LoadFails(h) PROVE KnownInv'
    BY <2>1, <2>4 DEF LoadFails, vars, quartzVars
  <2>5. CASE LoadEnds
    BY <2>1, <2>5 DEF LoadEnds, vars, quartzVars
  <2> QED
    BY <1>6, <2>1, <2>2, <2>3, <2>4, <2>5 DEF Boot
<1>7. CASE UNCHANGED allVars
  BY <1>7 DEF allVars, vars, harvesterVars, quartzVars, threadVars, managerVars, bootVars
<1> QED
  BY <1>1, <1>2, <1>3, <1>4, <1>5, <1>6, <1>7 DEF Steps

-----------------------------------------------------------------------------
(* The schedule.                                                            *)

\* An invoke() in progress will make h inactive.
Lowering(h) ==
  \E r \in Requests : on[r] = h /\ pc[r] \in RunPCs /\ arg[r] = "inactive"

ScheduleInv ==
  /\ ScheduledIsActive
  /\ \A h \in Harvesters : Lowering(h) => ~job[h]

LEMMA ScheduleInit == ManagerInit => ScheduleInv
<1> SUFFICES ASSUME ManagerInit PROVE ScheduleInv
  OBVIOUS
<1>1. \A h \in Harvesters : job[h] => status[h] = "active"
  BY DEF ManagerInit, InitWith
<1>2. \A r \in Requests : pc[r] \notin RunPCs
  BY DEF ManagerInit, InitWith, RunPCs, Threads
<1> QED
  BY <1>1, <1>2 DEF ScheduleInv, ScheduledIsActive, Lowering

\* Nobody begins an invoke(), and what gets a job is active and its monitor free.
LEMMA ScheduleKept ==
  ASSUME TypeInv, HolderInv, ScheduleInv,
         \A r \in Requests : pc'[r] \in RunPCs =>
            pc[r] \in RunPCs /\ on'[r] = on[r] /\ arg'[r] = arg[r],
         \A h \in Harvesters :
            \/ job'[h] => job[h] /\ status'[h] \in {"active", status[h]}
            \/ Free(h) /\ status'[h] = "active"
  PROVE  ScheduleInv'
<1>1. \A h \in Harvesters : Lowering(h)' => Lowering(h)
  BY DEF Lowering
<1>2. \A h \in Harvesters : Free(h) => ~Lowering(h)
  BY ThreadAssumption DEF Free, Lowering, HolderInv, Threads
<1> QED
  BY <1>1, <1>2 DEF ScheduleInv, ScheduledIsActive

LEMMA ScheduleObject ==
  ASSUME TypeInv, HolderInv, ScheduleInv, NEW t \in Threads, ObjectStep(t)
  PROVE  ScheduleInv'
<1> DEFINE h == on[t]
<1>t. /\ pc \in [Threads -> ManagerPCs] /\ arg \in [Threads -> Status]
      /\ StatusTypes /\ JobTypes /\ Requests \subseteq Threads
  BY DEF TypeInv, ObjectTypes, ThreadTypes, Threads
<1>h. /\ on' = on /\ h \in Harvesters
      /\ \E x \in ObjectPCs \cup {"done"} : pc' = [pc EXCEPT ![t] = x]
      /\ \A k \in Harvesters \ {h} : status'[k] = status[k] /\ job'[k] = job[k]
  BY ObjectThread, ObjectTouches DEF Same
\* It is enough to look at the thread and its harvester.
<1>k. ASSUME pc'[t] \in RunPCs => pc[t] \in RunPCs, UNCHANGED arg,
             \/ job'[h] => job[h] /\ status'[h] \in {"active", status[h]}
             \/ Free(h) /\ status'[h] = "active"
      PROVE  ScheduleInv'
  <2>1. \A r \in Requests : pc'[r] \in RunPCs => pc[r] \in RunPCs
    BY <1>t, <1>h, <1>k
  <2> QED
    BY <1>h, <1>k, <2>1, ScheduleKept
<1> USE <1>t, <1>h DEF Goto, Return, RunPCs, StatusTypes, JobTypes, Status, Unschedule,
                       harvesterVars, quartzVars, threadVars
<1>1. CASE Start(t) \/ Run(t)
  <2>1. Free(h) /\ pc'[t] = "done" /\ UNCHANGED arg
    BY <1>1 DEF Start, Run
  <2>2. status'[h] = "active" \/ UNCHANGED <<status, job>>
    BY <1>1 DEF Start, Run, Activate, ActivateThrows
  <2> QED
    BY <1>k, <2>1, <2>2
<1>2. CASE Invoke(t)
  <2>1. /\ arg' = [arg EXCEPT ![t] = status[h]] /\ status'[h] = "active" /\ UNCHANGED job
    BY <1>2 DEF Invoke, BeginHarvest
  <2>2. \A k \in Harvesters : Lowering(k)' => Lowering(k) \/ (k = h /\ status[h] = "inactive")
    BY <2>1 DEF Lowering
  <2>3. status[h] = "inactive" => ~job[h]
    BY DEF ScheduleInv, ScheduledIsActive
  <2> QED
    BY <2>1, <2>2, <2>3 DEF ScheduleInv, ScheduledIsActive
<1>3. CASE t \in Firings /\ JobHarvests(t)
  <2>1. UNCHANGED <<status, job, arg>> /\ t \notin Requests
    BY <1>3, ThreadAssumption DEF JobHarvests, BeginHarvest
  <2>2. \A r \in Requests : pc'[r] = pc[r]
    BY <2>1
  <2> QED
    BY <2>1, <2>2, ScheduleKept
<1>4. CASE StopSetsCancel(t) \/ StopGetsParams(t) \/ StopInterrupts(t)
  BY <1>4, <1>k DEF StopSetsCancel, StopGetsParams, StopInterrupts
<1>5. CASE StopBlock(t)
  BY <1>5, <1>k DEF StopBlock
<1>6. CASE HarvestRecord(t) \/ HarvestFails(t)
  BY <1>6, <1>k DEF HarvestRecord, HarvestFails
<1>7. CASE HarvestReturns(t)
  <2>1. job[h] => status[h] = "active"
    BY DEF ScheduleInv, ScheduledIsActive
  <2> QED
    BY <1>7, <1>k, <2>1 DEF HarvestReturns
<1>8. CASE HarvestCloses(t)
  <2>1. /\ pc[t] = "closing" /\ pc'[t] = "done" /\ UNCHANGED <<job, arg>>
        /\ status'[h] = IF t \in Requests THEN arg[t] ELSE status[h]
    BY <1>8 DEF HarvestCloses
  <2>2. t \in Requests /\ job[h] => arg[t] = "active"
    BY <2>1 DEF ScheduleInv, Lowering
  <2> QED
    BY <1>k, <2>1, <2>2
<1> QED
  BY <1>1, <1>2, <1>3, <1>4, <1>5, <1>6, <1>7, <1>8 DEF ObjectStep, HarvestStep

LEMMA ScheduleManager ==
  ASSUME TypeInv, RegistryInv, KnownInv, HolderInv, ScheduleInv,
         NEW r \in Requests, OnManager(r)
  PROVE  ScheduleInv'
<1> DEFINE h == on[r]
<1>t. StatusTypes /\ JobTypes /\ r \in Threads /\ pc \in [Threads -> ManagerPCs]
      /\ Requests \subseteq Threads
  BY DEF TypeInv, ObjectTypes, ThreadTypes, Threads
<1>h. /\ h \in Harvesters /\ loading = NoHarvester /\ UNCHANGED <<on, arg>>
      /\ \A q \in Requests : pc'[q] \in RunPCs => pc[q] \in RunPCs
  BY <1>t, ManagerThread DEF OwnerPCs, RunPCs
<1> USE <1>t, <1>h DEF StatusTypes, JobTypes, harvesterVars, quartzVars, Unschedule
<1>1. CASE AddStores(r)
  <2>1. h \notin hmHarvestLookup
    BY <1>1 DEF AddStores, RegistryInv, Adding
  <2>2. ~job[h]
    BY <2>1, ThreadAssumption DEF KnownInv
  <2> QED
    BY <1>1, <2>2, ScheduleKept DEF AddStores
<1>2. CASE ManagedUpdate(r) \/ ClearUpdates(r)
  <2>1. Free(h) /\ UNCHANGED status
    BY <1>2 DEF ManagedUpdate, Update, ClearUpdates
  <2>2. \/ UNCHANGED job
        \/ job' = [job EXCEPT ![h] = FALSE]
        \/ job' = [job EXCEPT ![h] = @ \/ status[h] = "active"]
    BY <1>2 DEF ManagedUpdate, Update, ClearUpdates, Reconfigure, ReconfigureThrows
  <2>3. \A k \in Harvesters : job'[k] => job[k] \/ (k = h /\ status[h] = "active")
    BY <2>2
  <2> QED
    BY <2>1, <2>3, ScheduleKept
<1>3. CASE RemoveDestroys(r) \/ RemoveFails(r)
  <2>1. Unschedule(h) /\ UNCHANGED status
    BY <1>3 DEF RemoveDestroys, Destroy, RemoveFails, DestroyFails
  <2> QED
    BY <2>1, ScheduleKept
<1>4. CASE UNCHANGED <<status, job>>
  BY <1>4, ScheduleKept
<1> QED
  BY <1>1, <1>2, <1>3, <1>4
  DEF OnManager, AddRegisters, Enter, EnterUnknown, NotFound, RemoveUnstores,
      RemoveUnregisters, ClearWaits, ClearDeletes, ClearLogs

LEMMA ScheduleNext ==
  TypeInv /\ RegistryInv /\ KnownInv /\ HolderInv /\ ScheduleInv /\ Steps => ScheduleInv'
<1> SUFFICES ASSUME TypeInv, RegistryInv, KnownInv, HolderInv, ScheduleInv, Steps
             PROVE  ScheduleInv'
  OBVIOUS
<1>t. pc \in [Threads -> ManagerPCs] /\ Requests \subseteq Threads
  BY DEF TypeInv, ObjectTypes, ThreadTypes, Threads
<1>1. ASSUME NEW r \in Requests, NewRequest(r) PROVE ScheduleInv'
  <2>1. /\ \A q \in Requests : pc'[q] \in RunPCs => q # r /\ pc[q] \in RunPCs
        /\ UNCHANGED <<status, job>>
    BY <1>t, <1>1, RequestThread DEF RunPCs, harvesterVars, quartzVars
  <2>2. \A q \in Threads \ {r} : on'[q] = on[q] /\ arg'[q] = arg[q]
    BY <1>1 DEF NewRequest, CallHarvester, Call, CallManager, CallUnknown, NotFound,
                TypeInv, ObjectTypes, ThreadTypes
  <2> QED
    BY <1>t, <2>1, <2>2, ScheduleKept
<1>2. ASSUME NEW f \in Firings, NEW h \in Harvesters, FireFor(f, h) \/ FireForNobody(f, h)
      PROVE  ScheduleInv'
  <2>1. \A q \in Requests : pc'[q] = pc[q] /\ on'[q] = on[q]
    BY <1>t, <1>2, FireThread DEF TypeInv, ObjectTypes, ThreadTypes
  <2>2. UNCHANGED <<status, job, arg>>
    BY <1>2 DEF FireFor, FireForNobody, FireScheduled, FireTriggered, Fired, harvesterVars,
                quartzVars
  <2> QED
    BY <2>1, <2>2, ScheduleKept
<1>3. CASE Crash
  <2>1. \A q \in Requests : pc'[q] \notin RunPCs
    BY <1>t, <1>3 DEF Crash, RunPCs
  <2>2. \A h \in Harvesters : ~job'[h]
    BY <1>3 DEF Crash
  <2> QED
    BY <2>1, <2>2 DEF ScheduleInv, ScheduledIsActive, Lowering
<1>4. CASE Boot
  <2>1. UNCHANGED threadVars
    BY <1>4, BootThread
  <2>2. ASSUME NEW h \in Harvesters, LoadInit(h) PROVE ScheduleInv'
    <3>1. /\ status' = [status EXCEPT ![h] = dbStatus[h]]
          /\ job' = [job EXCEPT ![h] = dbStatus[h] = "active"]
          /\ boot = "loading"
      BY <2>2 DEF LoadInit
    <3>2. \A q \in Requests : pc'[q] \notin RunPCs
      BY <2>1, <3>1 DEF TypeInv, BootTypes, threadVars, RunPCs
    <3>3. \A k \in Harvesters : job'[k] => status'[k] = "active"
      BY <3>1 DEF ScheduleInv, ScheduledIsActive, TypeInv, ObjectTypes, StatusTypes, JobTypes
    <3> QED
      BY <3>2, <3>3 DEF ScheduleInv, ScheduledIsActive, Lowering
  <2>3. CASE UNCHANGED vars
    BY <2>1, <2>3, ScheduleKept DEF vars, harvesterVars, quartzVars, threadVars
  <2> QED
    BY <1>4, <2>2, <2>3 DEF Boot, LoadPuts, LoadFails, LoadEnds
<1>5. CASE UNCHANGED allVars
  BY <1>5, ScheduleKept DEF allVars, vars, harvesterVars, quartzVars, threadVars
<1> QED
  BY <1>1, <1>2, <1>3, <1>4, <1>5, ScheduleObject, ScheduleManager DEF Steps

HarvestersInv == /\ TypeInv /\ ManagerMonitor /\ RegistryInv
                 /\ KnownInv /\ HolderInv /\ ScheduleInv

LEMMA HarvestersInit == ManagerInit => HarvestersInv
  BY TypeInit, MonitorInit, RegistryInit, KnownInit, ScheduleInit DEF HarvestersInv

LEMMA HarvestersNext == HarvestersInv /\ [ManagerNext]_allVars => HarvestersInv'
  BY StepsAre, TypeNext, MonitorNext, RegistryNext, KnownNext, ScheduleNext DEF HarvestersInv

\* Only an active harvester has a job in the scheduler, under the manager's
\* operations and over restarts (AbstractHarvester.init, HarvestManagerImpl.init).
THEOREM ManagedJobIsOfActive == ManagerSpec => []ManagedScheduledIsActive
<1>1. HarvestersInv => ManagedScheduledIsActive
  BY DEF HarvestersInv, ScheduleInv, ManagedScheduledIsActive
<1> QED
  BY <1>1, HarvestersInit, HarvestersNext, PTL DEF ManagerSpec

-----------------------------------------------------------------------------
(* The restart.                                                             *)

\* What init has loaded is as it was stored, whichever jobs have fired since.
RestartInv ==
  boot = "loading" =>
    \A h \in Harvesters : h \in hmHarvesters \cup {loading} =>
      status[h] = dbStatus[h] /\ (job[h] <=> status[h] = "active")

LEMMA RestartObject ==
  ASSUME HarvestersInv, RestartInv, NEW t \in Threads, ObjectStep(t),
         UNCHANGED <<managerVars, bootVars, late>>
  PROVE  RestartInv'
<1> SUFFICES ASSUME boot = "loading", NEW h \in Harvesters, h \in hmHarvesters \cup {loading}
             PROVE  status'[h] = dbStatus'[h] /\ (job'[h] <=> status'[h] = "active")
  BY DEF RestartInv, managerVars, bootVars
<1>t. StatusTypes /\ JobTypes
  BY DEF HarvestersInv, TypeInv, ObjectTypes
<1>1. status[h] = dbStatus[h] /\ (job[h] <=> status[h] = "active")
  BY DEF RestartInv
\* No request is on its way: the thread is a fired job.
<1>2. t \notin Requests
  BY ObjectThread DEF HarvestersInv, TypeInv, BootTypes, ObjectPCs, StopPCs, RunPCs
<1>3. CASE h # on[t]
  BY <1>1, <1>3, ObjectTouches DEF HarvestersInv, Same
<1>4. CASE h = on[t]
  <2> USE <1>t, <1>1, <1>4 DEF StatusTypes, JobTypes, Status, SetDbStatus, Unschedule, quartzVars,
                               dbVars, harvesterVars
  <2>1. CASE JobHarvests(t) \/ HarvestRecord(t) \/ HarvestFails(t)
    BY <2>1 DEF JobHarvests, BeginHarvest, HarvestRecord, HarvestFails
  <2>2. CASE HarvestReturns(t)
    BY <2>2 DEF HarvestReturns
  <2>3. CASE HarvestCloses(t)
    BY <1>2, <2>3 DEF HarvestCloses
  <2> QED
    BY <1>2, <2>1, <2>2, <2>3 DEF ObjectStep, HarvestStep
<1> QED
  BY <1>3, <1>4

LEMMA RestartNext == HarvestersInv /\ RestartInv /\ Steps => RestartInv'
<1> SUFFICES ASSUME HarvestersInv, RestartInv, Steps PROVE RestartInv'
  OBVIOUS
<1>t. StatusTypes /\ JobTypes /\ NoHarvester \notin Harvesters
  BY ThreadAssumption DEF HarvestersInv, TypeInv, ObjectTypes
<1>1. ASSUME NEW r \in Requests, NewRequest(r) \/ OnManager(r) PROVE RestartInv'
  <2>1. boot' = "up"
    <3>1. CASE NewRequest(r)
      BY <3>1, RequestThread DEF HarvestersInv, bootVars
    <3>2. CASE OnManager(r)
      BY <3>2, ManagerThread
      DEF HarvestersInv, OnManager, AddStores, AddRegisters, Enter, EnterUnknown, NotFound,
          ManagedUpdate, RemoveDestroys, RemoveFails, RemoveUnstores, RemoveUnregisters,
          ClearWaits, ClearDeletes, ClearUpdates, ClearLogs, bootVars
    <3> QED
      BY <1>1, <3>1, <3>2
  <2> QED
    BY <2>1 DEF RestartInv
<1>2. ASSUME NEW f \in Firings, NEW h \in Harvesters, FireFor(f, h) \/ FireForNobody(f, h)
      PROVE  RestartInv'
  BY <1>2, FireThread DEF HarvestersInv, RestartInv, harvesterVars, dbVars, managerVars, bootVars
<1>3. CASE Crash
  BY <1>t, <1>3 DEF RestartInv, Crash
<1>4. CASE Boot
  <2>1. ASSUME NEW h \in Harvesters, LoadInit(h) PROVE RestartInv'
    <3>1. /\ status' = [status EXCEPT ![h] = dbStatus[h]]
          /\ job' = [job EXCEPT ![h] = dbStatus[h] = "active"]
          /\ boot = "loading" /\ loading = NoHarvester /\ loading' = h
          /\ UNCHANGED <<dbStatus, hmHarvesters>>
      BY <2>1 DEF LoadInit, dbVars, managerVars
    <3> QED
      BY <1>t, <3>1 DEF RestartInv, StatusTypes, JobTypes
  <2>2. CASE LoadPuts
    BY <1>t, <2>2 DEF LoadPuts, RestartInv, vars, harvesterVars, dbVars, quartzVars
  <2>3. ASSUME NEW h \in Harvesters, LoadFails(h) PROVE RestartInv'
    BY <2>3 DEF LoadFails, RestartInv
  <2>4. CASE LoadEnds
    BY <2>4 DEF LoadEnds, RestartInv
  <2> QED
    BY <1>4, <2>1, <2>2, <2>3, <2>4 DEF Boot
<1>5. CASE UNCHANGED allVars
  BY <1>5 DEF RestartInv, allVars, vars, harvesterVars, dbVars, quartzVars, managerVars, bootVars
<1> QED
  BY <1>1, <1>2, <1>3, <1>4, <1>5, RestartObject DEF Steps

\* A restart that comes to its end has registered every stored harvester and
\* scheduled exactly the active ones, although jobs fire and harvest while it is
\* under way (HarvestManagerImpl.init, AbstractHarvester.init).
THEOREM RestartIsComplete == ManagerSpec => RestartRestores
<1> DEFINE IInv == HarvestersInv /\ RestartInv
<1>1. ManagerInit => IInv
  BY HarvestersInit DEF ManagerInit, RestartInv
<1>2. IInv /\ [ManagerNext]_allVars => IInv'
  BY HarvestersNext, RestartNext, StepsAre
<1>3. ASSUME IInv, Steps, boot = "loading", boot' = "up"
      PROVE  hmHarvesters = Stored /\ \A h \in Stored : job[h] <=> dbStatus[h] = "active"
  <2>1. LoadEnds
    <3>1. \A r \in Requests : ~NewRequest(r) /\ ~OnManager(r)
      BY <1>3, RequestThread, ManagerThread DEF HarvestersInv
    <3>2. ASSUME NEW f \in Firings, NEW h \in Harvesters PROVE ~(FireFor(f, h) \/ FireForNobody(f, h))
      BY <1>3, FireThread DEF HarvestersInv, bootVars
    <3> QED
      BY <1>3, <3>1, <3>2
      DEF Steps, Boot, LoadInit, LoadPuts, LoadFails, Crash, bootVars, allVars
  <2>2. toLoad = {} /\ loading = NoHarvester
    BY <2>1 DEF LoadEnds
  <2>3. hmHarvesters \subseteq Harvesters
    BY <1>3 DEF HarvestersInv, TypeInv, ManagerTypes
  <2>4. hmHarvesters = Stored
    BY <1>3, <2>2, <2>3 DEF HarvestersInv, RegistryInv, Stored
  <2> QED
    BY <1>3, <2>4 DEF RestartInv, Stored
<1>4. IInv /\ [ManagerNext]_allVars
        => [boot = "loading" /\ boot' = "up" =>
              /\ hmHarvesters = Stored
              /\ \A h \in Stored : job[h] <=> dbStatus[h] = "active"]_allVars
  BY <1>3, StepsAre
<1> QED
  BY <1>1, <1>2, <1>4, PTL DEF ManagerSpec, RestartRestores
=============================================================================
