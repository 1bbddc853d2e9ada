-------------------------- MODULE HarvestManager --------------------------
(***************************************************************************)
(* HarvestManagerImpl over the harvesters: the two maps that lead from an  *)
(* id and from a uuid to the harvester object, the operations that add,    *)
(* update, clear and remove a harvester, and the restart of the catalogue, *)
(* which builds the objects again from the settings table.                 *)
(*                                                                         *)
(* update, clearBatch and remove are synchronized on the manager and take  *)
(* the harvester's monitor inside; start, stop, run, invoke and the add    *)
(* operations are not, so a look-up in hmHarvesters and the call on the    *)
(* object it returned are two steps.                                       *)
(*                                                                         *)
(* A request's writes are one database transaction, committed when it has  *)
(* been answered.  They show here where the statement stands; a crash in   *)
(* the middle of a transaction is, for the tables, a crash before it, so   *)
(* Crash waits until no transaction of a multi-step operation is open.     *)
(***************************************************************************)
EXTENDS Harvester

CONSTANTS
  Operations,   \* the manager operations that requests call
  Existing,     \* the harvesters in the settings table at the beginning
  MaxCrashes    \* a bound on the number of crashes

ASSUME ManagerAssumption ==
  /\ Operations \subseteq {"add", "updateNode", "clear", "remove"}
  /\ Existing \subseteq Harvesters
  /\ MaxCrashes \in Nat

VARIABLES
  hmHarvesters,     \* the harvesters in the map by id
  hmHarvestLookup,  \* the harvesters in the map by uuid
  managerLock,      \* the owner of the manager's monitor
  cleared,          \* the records an open clearBatch has deleted and may still
                    \* have to give back
  boot,             \* "loading" while init runs, "up", or "failed"
  loading,          \* the harvester init has built and not yet put in the maps
  toLoad,           \* the settings nodes init has still to read
  late,             \* history: harvesters that some thread had a reference to
                    \* while they were being removed
  crashes           \* the crashes so far

managerVars == <<hmHarvesters, hmHarvestLookup, managerLock, cleared>>
bootVars    == <<boot, loading, toLoad, crashes>>
allVars     == <<vars, managerVars, bootVars, late>>

\* The places of a thread that owns the manager's monitor, then the others.
OwnerPCs   == {"destroy", "unstore", "unregister", "update",
               "clearParams", "clearDelete", "clearUpdate", "clearHistory"}
ManagerPCs == PCs \cup OwnerPCs \cup {"add", "added", "updateNode", "clear", "remove"}

ManagerTypeOK ==
  /\ status   \in [Harvesters -> Status]
  /\ lock     \in [Harvesters -> Threads \cup {NoThread}]
  /\ dbStatus \in [Harvesters -> Status \cup {"none"}]
  /\ records  \in [Harvesters -> SUBSET Records]
  /\ manual   \in [Harvesters -> Nat]
  /\ pc       \in [Threads -> ManagerPCs]
  /\ on       \in [Threads -> Harvesters \cup {NoHarvester}]
  /\ reply    \in [Threads -> Replies]
  /\ hmHarvesters \subseteq hmHarvestLookup
  /\ hmHarvestLookup \subseteq Harvesters
  /\ managerLock \in Requests \cup {NoThread}
  /\ cleared \subseteq Records
  /\ boot \in {"loading", "up", "failed"}
  /\ loading \in Harvesters \cup {NoHarvester}
  /\ toLoad \subseteq Harvesters
  /\ late \subseteq Harvesters
  /\ crashes \in 0..MaxCrashes

Stored       == {h \in Harvesters : dbStatus[h] # "none"}
InFlight(t)  == pc[t] \notin {"new", "done"}
InUse(h, r)  == \E t \in Threads \ {r} : on[t] = h /\ InFlight(t)
BeingRemoved(h) == \E r \in Requests : on[r] = h /\ pc[r] \in {"unstore", "unregister"}

ManagerInit ==
  /\ \E settings \in [Harvesters -> Status \cup {"none"}] :
       /\ \A h \in Harvesters : h \in Existing <=> settings[h] # "none"
       /\ \A h \in NeverFires : settings[h] # "active"
       /\ InitWith(settings)
  /\ hmHarvesters = Existing
  /\ hmHarvestLookup = Existing
  /\ managerLock = NoThread
  /\ cleared = {}
  /\ boot = "up"
  /\ loading = NoHarvester
  /\ toLoad = {}
  /\ late = {}
  /\ crashes = 0

----------------------------------------------------------------------------
(* Operations that are not synchronized on the manager.                     *)

\* start, stop, run, invoke: hmHarvesters.get(id), then a call on the object.
CallHarvester(r, h, m) ==
  /\ m \in {"start", "stop", "run", "invoke"}
  /\ h \in hmHarvesters
  /\ Call(r, h, m)
  /\ late' = IF BeingRemoved(h) THEN late \cup {h} ELSE late
  /\ UNCHANGED <<managerVars, bootVars>>

\* The answer to an id that is not in the map.
NotFound(r, h) ==
  /\ h \notin hmHarvesters
  /\ Return(r, "notFound")
  /\ UNCHANGED <<harvesterVars, dbVars, quartzVars, on, arg, managerVars, bootVars, late>>

CallUnknown(r, h) ==
  /\ pc[r] = "new"
  /\ NotFound(r, h)

\* Ids and uuids are new ones: nobody has used h yet.
Unused(h) ==
  /\ dbStatus[h] = "none"
  /\ h \notin hmHarvestLookup
  /\ \A t \in Threads : on[t] # h

CallManager(r, h, op) ==
  /\ pc[r] = "new"
  /\ op \in Operations
  /\ op = "add" => Unused(h)
  /\ Goto(r, op)
  /\ on' = [on EXCEPT ![r] = h]
  /\ UNCHANGED <<harvesterVars, dbVars, quartzVars, arg, reply, managerVars, bootVars, late>>

\* ah.add(node): an inactive harvester and its rows.
AddStores(r) ==
  LET h == on[r] IN
  /\ pc[r] = "add"
  /\ status'   = [status EXCEPT ![h] = "inactive"]
  /\ dbStatus' = [dbStatus EXCEPT ![h] = "inactive"]
  /\ Goto(r, "added")
  /\ UNCHANGED <<running, cancel, lock, todo, records, history, quartzVars,
                 on, arg, reply, managerVars, bootVars, late>>

\* Mutant of AddRegisters: only the map by id.
AddRegistersById(r) ==
  /\ pc[r] = "added"
  /\ hmHarvesters' = hmHarvesters \cup {on[r]}
  /\ Return(r, "ok")
  /\ UNCHANGED <<harvesterVars, dbVars, quartzVars, on, arg, hmHarvestLookup,
                 managerLock, cleared, bootVars, late>>

AddRegisters(r) ==
  /\ pc[r] = "added"
  /\ hmHarvesters'    = hmHarvesters \cup {on[r]}
  /\ hmHarvestLookup' = hmHarvestLookup \cup {on[r]}
  /\ Return(r, "ok")
  /\ UNCHANGED <<harvesterVars, dbVars, quartzVars, on, arg, managerLock, cleared, bootVars, late>>

----------------------------------------------------------------------------
(* Operations that are synchronized on the manager.                         *)

Enter(r, op, next) ==
  /\ pc[r] = op
  /\ managerLock = NoThread
  /\ on[r] \in hmHarvesters
  /\ managerLock' = r
  /\ Goto(r, next)
  /\ UNCHANGED <<harvesterVars, dbVars, quartzVars, on, arg, reply,
                 hmHarvesters, hmHarvestLookup, cleared, bootVars, late>>

EnterUnknown(r) ==
  /\ pc[r] \in {"updateNode", "clear", "remove"}
  /\ managerLock = NoThread
  /\ NotFound(r, on[r])

Leave == /\ managerLock' = NoThread
         /\ cleared' = {}
         /\ UNCHANGED <<hmHarvesters, hmHarvestLookup>>

ManagedUpdate(r) ==
  /\ Update(r)
  /\ Leave
  /\ UNCHANGED <<bootVars, late>>

\* remove: ah.destroy() ...
RemoveDestroys(r) ==
  /\ Destroy(r, "unstore")
  /\ late' = IF InUse(on[r], r) THEN late \cup {on[r]} ELSE late
  /\ UNCHANGED <<reply, managerVars, bootVars>>

\* ... or it throws, and the harvester stays registered and stored ...
RemoveFails(r) ==
  /\ DestroyFails(r)
  /\ Leave
  /\ UNCHANGED <<bootVars, late>>

\* Mutant of RemoveUnstores: begins again while somebody uses the harvester.
RemoveUnstoresUnused(r) ==
  /\ pc[r] = "unstore"
  /\ IF InUse(on[r], r)
     THEN Goto(r, "destroy") /\ UNCHANGED dbStatus
     ELSE Goto(r, "unregister") /\ dbStatus' = [dbStatus EXCEPT ![on[r]] = "none"]
  /\ UNCHANGED <<harvesterVars, records, history, quartzVars, on, arg, reply,
                 managerVars, bootVars, late>>

\* ... settingMan.remove ...
RemoveUnstores(r) ==
  /\ pc[r] = "unstore"
  /\ dbStatus' = [dbStatus EXCEPT ![on[r]] = "none"]
  /\ Goto(r, "unregister")
  /\ UNCHANGED <<harvesterVars, records, history, quartzVars, on, arg, reply,
                 managerVars, bootVars, late>>

\* Mutant of RemoveUnregisters: the history is not marked as deleted.
RemoveUnregistersOnly(r) ==
  /\ pc[r] = "unregister"
  /\ Free(on[r])
  /\ hmHarvesters' = hmHarvesters \ {on[r]}
  /\ managerLock' = NoThread
  /\ Return(r, "ok")
  /\ UNCHANGED <<harvesterVars, dbVars, quartzVars, on, arg,
                 hmHarvestLookup, cleared, bootVars, late>>

\* ... markAllAsDeleted, for a uuid that takes the monitor to read, and the map
\* by id.  The map by uuid keeps the harvester.
RemoveUnregisters(r) ==
  LET h == on[r] IN
  /\ pc[r] = "unregister"
  /\ Free(h)
  /\ history' = [history EXCEPT ![h] = FALSE]
  /\ hmHarvesters' = hmHarvesters \ {h}
  /\ managerLock' = NoThread
  /\ Return(r, "ok")
  /\ UNCHANGED <<harvesterVars, dbStatus, records, quartzVars, on, arg,
                 hmHarvestLookup, cleared, bootVars, late>>

\* clearBatch: the uuid, which waits for a harvest that runs ...
ClearWaits(r) ==
  /\ pc[r] = "clearParams"
  /\ Free(on[r])
  /\ Goto(r, "clearDelete")
  /\ UNCHANGED <<harvesterVars, dbVars, quartzVars, on, arg, reply,
                 managerVars, bootVars, late>>

\* ... the records, with no monitor of the harvester held ...
ClearDeletes(r) ==
  LET h == on[r] IN
  /\ pc[r] = "clearDelete"
  /\ records' = [records EXCEPT ![h] = {}]
  /\ cleared' = records[h]
  /\ Goto(r, "clearUpdate")
  /\ UNCHANGED <<harvesterVars, dbStatus, history, quartzVars, on, arg, reply,
                 hmHarvesters, hmHarvestLookup, managerLock, bootVars, late>>

\* ... removeInfo, which is an update with the stored node; when it throws, the
\* rollback brings the records back ...
ClearUpdates(r) ==
  LET h == on[r] IN
  /\ pc[r] = "clearUpdate"
  /\ Free(h)
  /\ \/ /\ Reconfigure(h)
        /\ Goto(r, "clearHistory")
        /\ UNCHANGED <<records, reply, managerVars>>
     \/ /\ ReconfigureThrows(h)
        /\ records' = [records EXCEPT ![h] = @ \cup cleared]
        /\ Return(r, "exception")
        /\ Leave
  /\ UNCHANGED <<harvesterVars, history, on, arg, bootVars, late>>

\* ... and a history row, marked as deleted.
ClearLogs(r) ==
  /\ pc[r] = "clearHistory"
  /\ Free(on[r])
  /\ Return(r, "ok")
  /\ Leave
  /\ UNCHANGED <<harvesterVars, dbVars, quartzVars, on, arg, bootVars, late>>

----------------------------------------------------------------------------
(* Quartz and the job listener, which looks the harvester up by its uuid.   *)

FireFor(f, h) ==
  /\ h \in hmHarvestLookup
  /\ FireScheduled(f, h) \/ FireTriggered(f, h)
  /\ UNCHANGED <<managerVars, bootVars, late>>

\* The listener finds no harvester: execute() throws, and Quartz drops it.
FireForNobody(f, h) ==
  /\ h \notin hmHarvestLookup
  /\ CanFire(f, h)
  /\ Return(f, "exception")
  /\ on' = [on EXCEPT ![f] = h]
  /\ UNCHANGED <<harvesterVars, dbVars, quartzVars, arg, managerVars, bootVars, late>>

----------------------------------------------------------------------------
(* Crash and restart.                                                       *)

OpenTransaction(r) ==
  pc[r] \in {"added", "unstore", "unregister", "clearUpdate", "clearHistory"} \cup RunPCs

Crash ==
  /\ crashes < MaxCrashes
  /\ boot # "failed"
  /\ \A r \in Requests : ~OpenTransaction(r)
  /\ crashes' = crashes + 1
  /\ boot'    = "loading"
  /\ loading' = NoHarvester
  /\ toLoad'  = Stored
  /\ hmHarvesters'    = {}
  /\ hmHarvestLookup' = {}
  /\ managerLock'     = NoThread
  /\ cleared'         = {}
  /\ status'  = [h \in Harvesters |-> "inactive"]
  /\ running' = [h \in Harvesters |-> FALSE]
  /\ cancel'  = [h \in Harvesters |-> FALSE]
  /\ lock'    = [h \in Harvesters |-> NoThread]
  /\ todo'    = [h \in Harvesters |-> {}]
  /\ job'     = [h \in Harvesters |-> FALSE]
  /\ manual'  = [h \in Harvesters |-> 0]
  /\ pc'      = [t \in Threads |-> IF pc[t] = "new" THEN "new" ELSE "done"]
  /\ UNCHANGED <<dbVars, on, arg, reply, late>>

\* Mutant of LoadInit: every harvester is scheduled.
LoadInitAll(h) ==
  /\ boot = "loading" /\ loading = NoHarvester
  /\ h \in toLoad \ NeverFires
  /\ status' = [status EXCEPT ![h] = dbStatus[h]]
  /\ job'    = [job EXCEPT ![h] = TRUE]
  /\ loading' = h
  /\ UNCHANGED <<running, cancel, lock, todo, dbVars, manual, threadVars,
                 managerVars, boot, toLoad, late, crashes>>

\* Mutant of LoadInit: nothing is scheduled.
LoadInitIdle(h) ==
  /\ boot = "loading" /\ loading = NoHarvester
  /\ h \in toLoad
  /\ status' = [status EXCEPT ![h] = dbStatus[h]]
  /\ loading' = h
  /\ UNCHANGED <<running, cancel, lock, todo, dbVars, quartzVars, threadVars,
                 managerVars, boot, toLoad, late, crashes>>

\* init: AbstractHarvester.init schedules the job of an active harvester ...
LoadInit(h) ==
  /\ boot = "loading" /\ loading = NoHarvester
  /\ h \in toLoad
  /\ dbStatus[h] = "active" => h \notin NeverFires
  /\ status' = [status EXCEPT ![h] = dbStatus[h]]
  /\ job'    = [job EXCEPT ![h] = dbStatus[h] = "active"]
  /\ loading' = h
  /\ UNCHANGED <<running, cancel, lock, todo, dbVars, manual, threadVars,
                 managerVars, boot, toLoad, late, crashes>>

\* ... before the maps know the harvester ...
LoadPuts ==
  /\ loading # NoHarvester
  /\ hmHarvesters'    = hmHarvesters \cup {loading}
  /\ hmHarvestLookup' = hmHarvestLookup \cup {loading}
  /\ toLoad'  = toLoad \ {loading}
  /\ loading' = NoHarvester
  /\ UNCHANGED <<vars, managerLock, cleared, boot, late, crashes>>

\* ... and a schedule that Quartz refuses ends init, and the start-up with it.
LoadFails(h) ==
  /\ boot = "loading" /\ loading = NoHarvester
  /\ h \in toLoad
  /\ dbStatus[h] = "active" /\ h \in NeverFires
  /\ boot' = "failed"
  /\ UNCHANGED <<vars, managerVars, loading, toLoad, late, crashes>>

LoadEnds ==
  /\ boot = "loading" /\ loading = NoHarvester
  /\ toLoad = {}
  /\ boot' = "up"
  /\ UNCHANGED <<vars, managerVars, loading, toLoad, late, crashes>>

----------------------------------------------------------------------------

NewRequest(r) ==
  /\ boot = "up"
  /\ \E h \in Harvesters :
       \/ \E m \in Methods : CallHarvester(r, h, m)
       \/ \E op \in Operations : CallManager(r, h, op)
       \/ CallUnknown(r, h)

OnObject(r) ==
  /\ \/ Start(r) \/ Run(r) \/ Invoke(r)
     \/ StopSetsCancel(r) \/ StopGetsParams(r) \/ StopInterrupts(r) \/ StopBlock(r)
  /\ UNCHANGED <<managerVars, bootVars, late>>

OnManager(r) ==
  \/ AddStores(r) \/ AddRegisters(r)
  \/ Enter(r, "updateNode", "update") \/ Enter(r, "clear", "clearParams")
  \/ Enter(r, "remove", "destroy") \/ EnterUnknown(r)
  \/ ManagedUpdate(r)
  \/ RemoveDestroys(r) \/ RemoveFails(r) \/ RemoveUnstores(r) \/ RemoveUnregisters(r)
  \/ ClearWaits(r) \/ ClearDeletes(r) \/ ClearUpdates(r) \/ ClearLogs(r)

ManagerQuartz(f) ==
  \/ \E h \in Harvesters : FireFor(f, h) \/ FireForNobody(f, h)
  \/ JobHarvests(f) /\ UNCHANGED <<managerVars, bootVars, late>>

ManagedHarvest(t) == HarvestStep(t) /\ UNCHANGED <<managerVars, bootVars, late>>

Boot == LoadPuts \/ LoadEnds \/ \E h \in Harvesters : LoadInit(h) \/ LoadFails(h)

ManagerTerminating == Quiet /\ boot = "up" /\ UNCHANGED allVars
StartupFailed      == boot = "failed" /\ UNCHANGED allVars

ManagerNext ==
  \/ \E r \in Requests : NewRequest(r) \/ OnObject(r) \/ OnManager(r)
  \/ \E f \in Firings : ManagerQuartz(f)
  \/ \E t \in Threads : ManagedHarvest(t)
  \/ Crash
  \/ Boot
  \/ ManagerTerminating
  \/ StartupFailed

ManagerSpec == ManagerInit /\ [][ManagerNext]_allVars

----------------------------------------------------------------------------
(* What must hold.                                                          *)

\* The map by id and the settings table tell the same harvesters whenever no
\* add or remove is under way: no interleaving of start, run, stop, update and
\* late harvests with a remove brings rows back that it has deleted, and none
\* leaves rows without a harvester.
RegistryAgrees ==
  boot = "up" =>
    \A h \in Harvesters :
      \/ h \in hmHarvesters <=> h \in Stored
      \/ BeingRemoved(h)
      \/ \E r \in Requests : on[r] = h /\ pc[r] = "added"

\* A removed harvester leaves no record, no live history and no job behind,
\* unless somebody already had a reference to it while it was being removed: a
\* fired job that waited for the monitor, or a call between look-up and monitor.
RemovedIsClean ==
  \A h \in Harvesters \ (Stored \cup late) :
    ~BeingRemoved(h) => records[h] = {} /\ ~history[h] /\ ~job[h]

\* A restart that comes to its end has registered every stored harvester and
\* scheduled those that are stored as active, whichever of the jobs already
\* scheduled have fired and harvested meanwhile.
RestartRestores ==
  [][boot = "loading" /\ boot' = "up" =>
       /\ hmHarvesters = Stored
       /\ \A h \in Stored : job[h] <=> dbStatus[h] = "active"]_allVars

\* The harvesters' own invariants hold under the manager and over restarts.
ManagedScheduledIsActive == ScheduledIsActive

----------------------------------------------------------------------------
(* Liveness, under the weak fairness of Harvester.                          *)

ManagerFairness ==
  /\ \A r \in Requests : WF_allVars(OnObject(r) \/ OnManager(r))
  /\ \A f \in Firings  : WF_allVars(JobHarvests(f) /\ UNCHANGED <<managerVars, bootVars, late>>)
  /\ \A t \in Threads  :
       WF_allVars(/\ HarvestRecord(t) \/ HarvestReturns(t) \/ HarvestCloses(t)
                  /\ UNCHANGED <<managerVars, bootVars, late>>)
  /\ WF_allVars(Boot)

ManagerFairSpec == ManagerSpec /\ ManagerFairness

\* Every operation returns: the manager's monitor is always taken before a
\* harvester's, and a harvest takes no monitor but its own, so nobody waits in
\* a circle, however many harvesters are updated, cleared and removed at once.
OperationsReturn ==
  \A r \in Requests : pc[r] # "new" ~> pc[r] = "done"

----------------------------------------------------------------------------
(* What documents and comments of the repository say.                       *)

\* "When a harvester is removed, all metadata records associated with that
\* harvester are removed" (users/.../harvesting/index.rst:58): a harvester that
\* is gone has no records.
RemovedHasNoRecords ==
  \A h \in Harvesters : h \notin Stored /\ ~BeingRemoved(h) => records[h] = {}

=============================================================================
