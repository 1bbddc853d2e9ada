----------------------------- MODULE Harvester -----------------------------
(***************************************************************************)
(* The life of the harvesters of the catalogue: the AbstractHarvester      *)
(* objects, the HTTP requests that call their methods, and the jobs the    *)
(* Quartz scheduler fires for them.                                        *)
(*                                                                         *)
(* A harvester is a Java object with a monitor.  start, run, invoke,       *)
(* update, destroy and harvest are synchronized and hold the monitor from  *)
(* their first line to their last; stop takes it twice, and touches the    *)
(* cancelMonitor flag before and between.  A harvest holds the monitor for *)
(* as long as the remote catalogue takes to answer; every other critical   *)
(* section is one atomic step here.                                        *)
(*                                                                         *)
(* A request is one HTTP call and makes one method call; a firing is one   *)
(* execution of a Quartz job.  Both are threads.                           *)
(***************************************************************************)
EXTENDS Naturals, FiniteSets

CONSTANTS
  Harvesters,    \* the AbstractHarvester objects
  Records,       \* the records a remote catalogue offers
  Requests,      \* HTTP requests, one method call each
  Firings,       \* executions of Quartz jobs, scheduled or triggered
  PoolSize,      \* worker threads of the harvester scheduler
  Methods,       \* the methods that the requests call
  StopStatuses,  \* the values of the "status" parameter that stop is called with
  OneRunOnly,    \* harvesters whose options set oneRunOnly
  NeverFires,    \* harvesters whose cron expression has no firing time left
  NoThread,      \* nobody: the owner of a free monitor
  NoHarvester    \* the target of a thread that has not been started

Threads  == Requests \cup Firings
Status   == {"active", "inactive"}
Replies  == {"none", "ok", "notFound", "alreadyActive", "alreadyInactive",
             "alreadyRunning", "error", "exception"}
CallPCs  == {"start", "run", "stop", "invoke", "update", "destroy"}
StopPCs  == {"params", "interrupt", "deactivate"}  \* the lines of stop, in order
RunPCs   == {"harvest", "closing"}                 \* inside harvest()
PCs      == {"new", "fired", "done"} \cup CallPCs \cup StopPCs \cup RunPCs

ASSUME ThreadAssumption ==
  /\ Requests \cap Firings = {}
  /\ NoThread \notin Threads
  /\ NoHarvester \notin Harvesters
ASSUME OptionAssumption ==
  /\ Methods \subseteq CallPCs
  /\ StopStatuses \subseteq Status
  /\ OneRunOnly \subseteq Harvesters
  /\ NeverFires \subseteq Harvesters
  /\ PoolSize \in Nat \ {0}

VARIABLES
  status,    \* AbstractHarvester.status
  running,   \* AbstractHarvester.running
  cancel,    \* AbstractHarvester.cancelMonitor
  lock,      \* the owner of the harvester's monitor
  todo,      \* the remote records the current harvest has still to process
  dbStatus,  \* the settings row options/status, "none" when it does not exist
  records,   \* the catalogue's records with this harvester's uuid
  history,   \* is there a harvest history row not marked as deleted?
  job,       \* does Quartz have a job, with its scheduled trigger, for the uuid?
  manual,    \* one-shot triggers that triggerJob stored and Quartz has not fired
  pc,        \* where a thread is
  on,        \* the harvester a thread has a reference to
  arg,       \* stop's newStatus, invoke's oldStatus
  reply      \* what a method returned or threw

harvesterVars == <<status, running, cancel, lock, todo>>
dbVars        == <<dbStatus, records, history>>
quartzVars    == <<job, manual>>
threadVars    == <<pc, on, arg, reply>>
vars          == <<harvesterVars, dbVars, quartzVars, threadVars>>

TypeOK ==
  /\ status   \in [Harvesters -> Status]
  /\ running  \in [Harvesters -> BOOLEAN]
  /\ cancel   \in [Harvesters -> BOOLEAN]
  /\ lock     \in [Harvesters -> Threads \cup {NoThread}]
  /\ todo     \in [Harvesters -> SUBSET Records]
  /\ dbStatus \in [Harvesters -> Status \cup {"none"}]
  /\ records  \in [Harvesters -> SUBSET Records]
  /\ history  \in [Harvesters -> BOOLEAN]
  /\ job      \in [Harvesters -> BOOLEAN]
  /\ manual   \in [Harvesters -> Nat]
  /\ pc       \in [Threads -> PCs]
  /\ on       \in [Threads -> Harvesters \cup {NoHarvester}]
  /\ arg      \in [Threads -> Status]
  /\ reply    \in [Threads -> Replies]

Free(h)       == lock[h] = NoThread
\* The job execution contexts that Quartz lists for the harvester's job.
Executing(h)  == \E f \in Firings : on[f] = h /\ pc[f] \in {"fired"} \cup RunPCs
BusyWorkers   == {f \in Firings : pc[f] \in {"fired"} \cup RunPCs}
Harvesting(h) == \E t \in Threads : on[t] = h /\ pc[t] \in RunPCs

Goto(t, place) == pc' = [pc EXCEPT ![t] = place]
Return(t, r)   == /\ Goto(t, "done")
                  /\ reply' = [reply EXCEPT ![t] = r]

\* HarvestManagerImpl.init has built every harvester from its settings row.
InitWith(settings) ==
  /\ dbStatus = settings
  /\ status   = [h \in Harvesters |-> IF settings[h] = "active" THEN "active" ELSE "inactive"]
  /\ job      = [h \in Harvesters |-> settings[h] = "active"]
  /\ running  = [h \in Harvesters |-> FALSE]
  /\ cancel   = [h \in Harvesters |-> FALSE]
  /\ lock     = [h \in Harvesters |-> NoThread]
  /\ todo     = [h \in Harvesters |-> {}]
  /\ records  = [h \in Harvesters |-> {}]
  /\ history  = [h \in Harvesters |-> FALSE]
  /\ manual   = [h \in Harvesters |-> 0]
  /\ pc       = [t \in Threads |-> "new"]
  /\ on       = [t \in Threads |-> NoHarvester]
  /\ arg      = [t \in Threads |-> "inactive"]
  /\ reply    = [t \in Threads |-> "none"]

Init == \E settings \in [Harvesters -> Status] :
          /\ \A h \in NeverFires : settings[h] = "inactive"
          /\ InitWith(settings)

----------------------------------------------------------------------------
(* Requests: a servlet thread has looked the harvester up and calls one of  *)
(* its methods.                                                             *)

Call(r, h, m) ==
  /\ pc[r] = "new"
  /\ Goto(r, m)
  /\ on' = [on EXCEPT ![r] = h]
  /\ \E s \in (IF m = "stop" THEN StopStatuses ELSE {"inactive"}) :
       arg' = [arg EXCEPT ![r] = s]
  /\ UNCHANGED <<harvesterVars, dbVars, quartzVars, reply>>

\* Mutant of SetDbStatus: setValue creates the row that is missing.
SetDbStatusCreating(h, s) ==
  dbStatus' = [dbStatus EXCEPT ![h] = s]

\* setValue: a row that does not exist is not created.
SetDbStatus(h, s) ==
  dbStatus' = [dbStatus EXCEPT ![h] = IF @ = "none" THEN "none" ELSE s]

\* Mutant of Unschedule: takes one trigger away, whether there is one or not.
UnscheduleOne(h) ==
  /\ job'    = [job EXCEPT ![h] = FALSE]
  /\ manual' = [manual EXCEPT ![h] = @ - 1]

\* deleteJob: the job goes with all its triggers; executions go on.
Unschedule(h) ==
  /\ job'    = [job EXCEPT ![h] = FALSE]
  /\ manual' = [manual EXCEPT ![h] = 0]

\* Mutant of Activate: the status is not written to the settings table.
ActivateInMemory(h) ==
  /\ status' = [status EXCEPT ![h] = "active"]
  /\ job'    = [job EXCEPT ![h] = TRUE]
  /\ UNCHANGED dbStatus

\* start() on an inactive harvester, up to and with a successful doSchedule.
Activate(h) ==
  /\ SetDbStatus(h, "active")
  /\ status' = [status EXCEPT ![h] = "active"]
  /\ job'    = [job EXCEPT ![h] = TRUE]

\* scheduleJob refuses a trigger that never fires: the request's transaction
\* is rolled back, the fields of the object are not.
ActivateThrows(h) ==
  /\ status' = [status EXCEPT ![h] = "active"]
  /\ UNCHANGED <<dbStatus, job>>

Start(r) ==
  LET h == on[r] IN
  /\ pc[r] = "start"
  /\ Free(h)
  /\ \/ /\ status[h] # "inactive"
        /\ Return(r, "alreadyActive")
        /\ UNCHANGED <<status, dbStatus, job>>
     \/ /\ status[h] = "inactive" /\ h \notin NeverFires
        /\ Activate(h)
        /\ Return(r, "ok")
     \/ /\ status[h] = "inactive" /\ h \in NeverFires
        /\ ActivateThrows(h)
        /\ Return(r, "exception")
  /\ UNCHANGED <<running, cancel, lock, todo, records, history, manual, on, arg>>

Run(r) ==
  LET h == on[r]
      scheduled == job[h] \/ status[h] = "inactive"  \* start() has just seen to it
      answer == CASE running[h]                 -> "alreadyRunning"
                  [] ~running[h] /\ scheduled   -> "ok"
                  [] ~running[h] /\ ~scheduled  -> "exception"  \* no job to trigger
  IN
  /\ pc[r] = "run"
  /\ Free(h)
  /\ \/ /\ status[h] = "inactive" /\ h \in NeverFires
        /\ ActivateThrows(h)
        /\ Return(r, "exception")
        /\ UNCHANGED manual
     \/ /\ \/ status[h] = "inactive" /\ h \notin NeverFires /\ Activate(h)
           \/ status[h] = "active" /\ UNCHANGED <<status, dbStatus, job>>
        /\ manual' = [manual EXCEPT ![h] = IF answer = "ok" THEN @ + 1 ELSE @]
        /\ Return(r, answer)
  /\ UNCHANGED <<running, cancel, lock, todo, records, history, on, arg>>

(* stop(newStatus).  Nothing is held when the flag is set ...               *)
StopSetsCancel(r) ==
  /\ pc[r] = "stop"
  /\ cancel' = [cancel EXCEPT ![on[r]] = TRUE]
  /\ Goto(r, "params")
  /\ UNCHANGED <<status, running, lock, todo, dbVars, quartzVars, on, arg, reply>>

(* ... but getParams() is synchronized, so the job key that interrupt needs *)
(* is not to be had before a harvest in progress has ended.                 *)
StopGetsParams(r) ==
  /\ pc[r] = "params"
  /\ Free(on[r])
  /\ Goto(r, "interrupt")
  /\ UNCHANGED <<harvesterVars, dbVars, quartzVars, on, arg, reply>>

\* Scheduler.interrupt calls HarvesterJob.interrupt on the executing jobs.
StopInterrupts(r) ==
  LET h == on[r] IN
  /\ pc[r] = "interrupt"
  /\ cancel' = [cancel EXCEPT ![h] = @ \/ Executing(h)]
  /\ Goto(r, "deactivate")
  /\ UNCHANGED <<status, running, lock, todo, dbVars, quartzVars, on, arg, reply>>

\* Mutant of StopBlock: the job stays in the scheduler.
StopBlockKeepingJob(r) ==
  LET h == on[r] IN
  /\ pc[r] = "deactivate"
  /\ Free(h)
  /\ running' = [running EXCEPT ![h] = FALSE]
  /\ SetDbStatus(h, arg[r])
  /\ status' = [status EXCEPT ![h] = arg[r]]
  /\ Return(r, IF arg[r] = status[h] THEN "alreadyInactive" ELSE "ok")
  /\ UNCHANGED <<cancel, lock, todo, records, history, quartzVars, on, arg>>

\* Mutant of StopBlock: the block is not synchronized.
StopBlockUnlocked(r) ==
  LET h == on[r] IN
  /\ pc[r] = "deactivate"
  /\ running' = [running EXCEPT ![h] = FALSE]
  /\ SetDbStatus(h, arg[r])
  /\ status' = [status EXCEPT ![h] = arg[r]]
  /\ IF arg[r] = "inactive" THEN Unschedule(h) ELSE UNCHANGED quartzVars
  /\ Return(r, "ok")
  /\ UNCHANGED <<cancel, lock, todo, records, history, on, arg>>

(* The synchronized block.  The settings row is written first, whatever the *)
(* answer will be; newStatus = active neither schedules nor unschedules.    *)
StopBlock(r) ==
  LET h == on[r] IN
  /\ pc[r] = "deactivate"
  /\ Free(h)
  /\ running' = [running EXCEPT ![h] = FALSE]
  /\ SetDbStatus(h, arg[r])
  /\ \/ /\ arg[r] = "inactive" /\ status[h] # "active"
        /\ Return(r, "alreadyInactive")
        /\ UNCHANGED <<status, quartzVars>>
     \/ /\ arg[r] = "inactive" /\ status[h] = "active"
        /\ Unschedule(h)
        /\ status' = [status EXCEPT ![h] = "inactive"]
        /\ Return(r, "ok")
     \/ /\ arg[r] = "active"
        /\ status' = [status EXCEPT ![h] = "active"]
        /\ Return(r, "ok")
        /\ UNCHANGED quartzVars
  /\ UNCHANGED <<cancel, lock, todo, records, history, on, arg>>

(* update(node) rewrites the settings, with the status the object has; an   *)
(* active harvester's job is deleted and scheduled anew.                    *)
Reconfigure(h) ==
  /\ status[h] = "active" => h \notin NeverFires
  /\ SetDbStatus(h, status[h])
  /\ job'    = [job EXCEPT ![h] = @ \/ status[h] = "active"]
  /\ manual' = [manual EXCEPT ![h] = IF status[h] = "active" THEN 0 ELSE @]

\* A schedule that never fires is refused when the old job is already gone.
ReconfigureThrows(h) ==
  /\ status[h] = "active" /\ h \in NeverFires
  /\ Unschedule(h)
  /\ UNCHANGED dbStatus

\* Mutant of Update: the job that was deleted is not scheduled again.
UpdateUnscheduling(r) ==
  LET h == on[r] IN
  /\ pc[r] = "update"
  /\ Free(h)
  /\ SetDbStatus(h, status[h])
  /\ Unschedule(h)
  /\ Return(r, "ok")
  /\ UNCHANGED <<harvesterVars, records, history, on, arg>>

Update(r) ==
  LET h == on[r] IN
  /\ pc[r] = "update"
  /\ Free(h)
  /\ \/ Return(r, "exception") /\ UNCHANGED <<dbStatus, quartzVars>>  \* BadInputEx
     \/ Reconfigure(h) /\ Return(r, "ok")
     \/ ReconfigureThrows(h) /\ Return(r, "exception")
  /\ UNCHANGED <<harvesterVars, records, history, on, arg>>

(* destroy(): the job first, then record by record.  A deletion that throws *)
(* leaves the harvester in place without its job, and leaves the records    *)
(* that the rollback of the request's transaction brings back.              *)
Destroy(r, next) ==
  LET h == on[r] IN
  /\ pc[r] = "destroy"
  /\ Free(h)
  /\ Unschedule(h)
  /\ records' = [records EXCEPT ![h] = {}]
  /\ Goto(r, next)
  /\ UNCHANGED <<harvesterVars, dbStatus, history, on, arg>>

DestroyFails(r) ==
  LET h == on[r] IN
  /\ pc[r] = "destroy"
  /\ Free(h)
  /\ records[h] # {}
  /\ Unschedule(h)
  /\ \E left \in SUBSET records[h] : records' = [records EXCEPT ![h] = left]
  /\ Return(r, "exception")
  /\ UNCHANGED <<harvesterVars, dbStatus, history, on, arg>>

----------------------------------------------------------------------------
(* Quartz.  A job never executes twice at the same time, a free worker is   *)
(* needed, and the JobListener hands the job its harvester.                 *)

CanFire(f, h) ==
  /\ pc[f] = "new"
  /\ job[h]
  /\ ~Executing(h)
  /\ Cardinality(BusyWorkers) < PoolSize

Fired(f, h) ==
  /\ Goto(f, "fired")
  /\ on' = [on EXCEPT ![f] = h]
  /\ UNCHANGED <<harvesterVars, dbVars, job, arg, reply>>

FireScheduled(f, h) ==
  /\ CanFire(f, h)
  /\ Fired(f, h)
  /\ UNCHANGED manual

FireTriggered(f, h) ==
  /\ CanFire(f, h)
  /\ manual[h] > 0
  /\ manual' = [manual EXCEPT ![h] = @ - 1]
  /\ Fired(f, h)

----------------------------------------------------------------------------
(* harvest(): by a fired job, or by the request that called invoke().       *)

\* Mutant of BeginHarvest: harvest() is not synchronized.
BeginHarvestUnlocked(t, h) ==
  /\ lock'    = [lock    EXCEPT ![h] = t]
  /\ running' = [running EXCEPT ![h] = TRUE]
  /\ cancel'  = [cancel  EXCEPT ![h] = FALSE]
  /\ todo'    = [todo    EXCEPT ![h] = Records]
  /\ Goto(t, "harvest")
  /\ UNCHANGED <<dbVars, quartzVars, on, reply>>

\* Mutant of BeginHarvest: cancelMonitor keeps its value.
BeginHarvestNoReset(t, h) ==
  /\ Free(h)
  /\ lock'    = [lock    EXCEPT ![h] = t]
  /\ running' = [running EXCEPT ![h] = TRUE]
  /\ todo'    = [todo    EXCEPT ![h] = Records]
  /\ Goto(t, "harvest")
  /\ UNCHANGED <<cancel, dbVars, quartzVars, on, reply>>

BeginHarvest(t, h) ==
  /\ Free(h)
  /\ lock'    = [lock    EXCEPT ![h] = t]
  /\ running' = [running EXCEPT ![h] = TRUE]
  /\ cancel'  = [cancel  EXCEPT ![h] = FALSE]
  /\ todo'    = [todo    EXCEPT ![h] = Records]
  /\ Goto(t, "harvest")
  /\ UNCHANGED <<dbVars, quartzVars, on, reply>>

JobHarvests(f) ==
  /\ pc[f] = "fired"
  /\ BeginHarvest(f, on[f])
  /\ UNCHANGED <<status, arg>>

Invoke(r) ==
  LET h == on[r] IN
  /\ pc[r] = "invoke"
  /\ arg'    = [arg EXCEPT ![r] = status[h]]
  /\ status' = [status EXCEPT ![h] = "active"]
  /\ BeginHarvest(r, h)

(* doHarvest: the aligner looks at cancelMonitor before each record; a      *)
(* record that fails is noted and the harvest goes on.                      *)
HarvestRecord(t) ==
  LET h == on[t] IN
  /\ pc[t] = "harvest"
  /\ ~cancel[h]
  /\ \E x \in todo[h] :
       /\ todo' = [todo EXCEPT ![h] = @ \ {x}]
       /\ records' \in {records, [records EXCEPT ![h] = @ \cup {x}]}
  /\ UNCHANGED <<status, running, cancel, lock, dbStatus, history, quartzVars, threadVars>>

\* Mutant of HarvestReturns: the aligner's loop ends only with the records.
HarvestReturnsUncancelled(t) ==
  LET h == on[t] IN
  /\ pc[t] = "harvest"
  /\ todo[h] = {}
  /\ reply' = [reply EXCEPT ![t] = "ok"]
  /\ Goto(t, "closing")
  /\ UNCHANGED <<harvesterVars, dbVars, quartzVars, on, arg>>

(* doHarvest returns: all records done, or cancelMonitor set.  A one-run    *)
(* harvester then calls stop(INACTIVE) on itself, monitor in hand.          *)
HarvestReturns(t) ==
  LET h == on[t] IN
  /\ pc[t] = "harvest"
  /\ cancel[h] \/ todo[h] = {}
  /\ \/ /\ h \notin OneRunOnly
        /\ UNCHANGED <<status, running, cancel, dbStatus, quartzVars>>
     \/ /\ h \in OneRunOnly
        /\ cancel'  = [cancel  EXCEPT ![h] = TRUE]
        /\ running' = [running EXCEPT ![h] = FALSE]
        /\ SetDbStatus(h, "inactive")
        /\ status'  = [status  EXCEPT ![h] = "inactive"]
        /\ IF status[h] = "active" THEN Unschedule(h) ELSE UNCHANGED quartzVars
  /\ reply' = [reply EXCEPT ![t] = "ok"]
  /\ Goto(t, "closing")
  /\ UNCHANGED <<lock, todo, records, history, on, arg>>

\* Mutant of HarvestFails: what fails is tried again for ever.
HarvestFailsRetrying(t) ==
  /\ pc[t] = "harvest"
  /\ todo' = [todo EXCEPT ![on[t]] = Records]
  /\ UNCHANGED <<status, running, cancel, lock, dbVars, quartzVars, threadVars>>

\* login, the search or anything else outside the record loop throws.  The
\* exception is caught (AbstractHarvester.java:576-584) and the harvester stays
\* active and scheduled, a one-run one included, which the exception keeps from
\* its own stop; harvesting/index.rst:56 says that it "is automatically stopped".
HarvestFails(t) ==
  /\ pc[t] = "harvest"
  /\ reply' = [reply EXCEPT ![t] = "error"]
  /\ Goto(t, "closing")
  /\ UNCHANGED <<harvesterVars, dbVars, quartzVars, on, arg>>

(* logHarvest, whose own exceptions are swallowed, and the finally blocks   *)
(* of harvest() and of invoke(), which puts the old status back.            *)
HarvestCloses(t) ==
  LET h == on[t] IN
  /\ pc[t] = "closing"
  /\ history' \in {history, [history EXCEPT ![h] = TRUE]}
  /\ cancel'  = [cancel  EXCEPT ![h] = FALSE]
  /\ running' = [running EXCEPT ![h] = FALSE]
  /\ lock'    = [lock    EXCEPT ![h] = NoThread]
  /\ todo'    = [todo    EXCEPT ![h] = {}]
  /\ status'  = [status  EXCEPT ![h] = IF t \in Requests THEN arg[t] ELSE @]
  /\ Goto(t, "done")
  /\ UNCHANGED <<dbStatus, records, quartzVars, on, arg, reply>>

----------------------------------------------------------------------------

RequestStep(r) ==
  \/ Start(r) \/ Run(r) \/ Update(r) \/ Invoke(r)
  \/ StopSetsCancel(r) \/ StopGetsParams(r) \/ StopInterrupts(r) \/ StopBlock(r)

HarvestStep(t) ==
  \/ HarvestRecord(t) \/ HarvestReturns(t) \/ HarvestFails(t) \/ HarvestCloses(t)

Quartz(f) ==
  \/ \E h \in Harvesters : FireScheduled(f, h) \/ FireTriggered(f, h)
  \/ JobHarvests(f)

DestroyStep(r) ==
  \/ Destroy(r, "done") /\ reply' = [reply EXCEPT ![r] = "ok"]
  \/ DestroyFails(r)

\* Every request has been answered and no job executes.
Quiet ==
  /\ \A r \in Requests : pc[r] = "done"
  /\ \A f \in Firings  : pc[f] \in {"new", "done"}
Terminating == Quiet /\ UNCHANGED vars

Next ==
  \/ \E r \in Requests :
       \/ \E h \in Harvesters, m \in Methods : Call(r, h, m)
       \/ RequestStep(r)
       \/ DestroyStep(r)
  \/ \E f \in Firings : Quartz(f)
  \/ \E t \in Threads : HarvestStep(t)
  \/ Terminating

Spec == Init /\ [][Next]_vars

----------------------------------------------------------------------------
(* What must hold.                                                          *)

\* The monitor is owned by the thread inside harvest(), and by nobody else for
\* longer than a step.
LockIsHarvest ==
  \A h \in Harvesters, t \in Threads :
    lock[h] = t <=> on[t] = h /\ pc[t] \in RunPCs

\* Two threads never harvest with the same object (AbstractHarvester.java:543,
\* the reason why harvest() is synchronized: it writes error, errors, result
\* and cancelMonitor), and the "running" that addInfo shows is never left on
\* after the harvest, whatever stop() did to it in between.
ExclusiveHarvest ==
  \A h \in Harvesters :
    /\ \A t, u \in Threads :
         (on[t] = h /\ pc[t] \in RunPCs /\ on[u] = h /\ pc[u] \in RunPCs) => t = u
    /\ running[h] => Harvesting(h)

\* A harvester that is not active has no job in the scheduler, so nothing will
\* ever fire for it: through every mixture of start, run, stop, update, invoke
\* (which raises the status for a while and then lowers it again) and one-run
\* harvests that deactivate themselves.
ScheduledIsActive ==
  \A h \in Harvesters : job[h] => status[h] = "active"

\* A harvest is cut short only on behalf of a stop() that is still waiting for
\* it, or of the one-run harvest's own stop: the flag that an earlier stop or
\* an interrupt left behind never cancels a later harvest.
CancelHasCause ==
  \A h \in Harvesters :
    Harvesting(h) /\ cancel[h] =>
      \/ \E r \in Requests : on[r] = h /\ pc[r] \in {"params", "interrupt", "deactivate"}
      \/ h \in OneRunOnly /\ \E t \in Threads : on[t] = h /\ pc[t] = "closing"

\* "if the harvester is waiting for the next scheduled harvest (active)"
\* (settings/index.rst:156): outside a harvest, an active harvester has a job in
\* the scheduler, through every start, run, update and failing call.
ActiveIsScheduled ==
  \A h \in Harvesters : Free(h) /\ status[h] = "active" => job[h]

\* What a restart would rebuild from the settings table is what the object
\* says now: the two copies of the status differ only inside a harvest.
DbStatusAgrees ==
  \A h \in Harvesters : Free(h) /\ dbStatus[h] # "none" => dbStatus[h] = status[h]

phaseOf == [h \in Harvesters |->
              IF \E t \in Threads : on[t] = h /\ pc[t] = "harvest" THEN "harvest"
              ELSE IF \E t \in Threads : on[t] = h /\ pc[t] = "closing" THEN "closing"
              ELSE "idle"]

Serial == INSTANCE SerialHarvest
            WITH phase  <- phaseOf,
                 active <- [h \in Harvesters |-> dbStatus[h] = "active"]

\* Harvests of a harvester are serial and undisturbed: no other thread changes
\* the stored status or removes records between the start of a harvest and the
\* end of it (the monitor that harvest, start, stop, update, destroy share).
HarvestsAreSerial == Serial!SerialSpec

----------------------------------------------------------------------------
(* Liveness.  A thread that can take its next step takes it: the threads    *)
(* are the container's and the scheduler's, and a remote server that does   *)
(* not answer is a failed harvest.  A monitor need not be handed out in any *)
(* order: a call may be overtaken, but only by the firings and requests     *)
(* there are.                                                               *)

Fairness ==
  /\ \A r \in Requests : WF_vars(RequestStep(r) \/ DestroyStep(r))
  /\ \A f \in Firings  : WF_vars(JobHarvests(f))
  /\ \A t \in Threads  : WF_vars(HarvestRecord(t) \/ HarvestReturns(t) \/ HarvestCloses(t))

FairSpec == Spec /\ Fairness

\* Every call returns: stop() waits twice for the monitor, run() and start()
\* once, and whoever holds it gives it back, the failing paths included.
CallsReturn ==
  \A r \in Requests : pc[r] # "new" ~> pc[r] = "done"

\* The serial view with its own liveness: every harvest comes to its end.
SerialHarvestsEnd == Serial!SerialFairSpec

=============================================================================
