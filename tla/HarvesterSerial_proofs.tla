----------------------- MODULE HarvesterSerial_proofs -----------------------
(***************************************************************************)
(* Harvester implements SerialHarvest, for any sets of harvesters,         *)
(* requests, firings and records: every step of a thread is a step of the  *)
(* serial view or leaves it as it is.  The monitor is what makes it so: a  *)
(* step that changes the stored status or deletes records holds it, and so *)
(* meets an idle harvester or is the harvest's own.                        *)
(***************************************************************************)
EXTENDS Harvester_proofs

storedActive == [h \in Harvesters |-> dbStatus[h] = "active"]

-----------------------------------------------------------------------------
(* The phase of a harvester, read off the monitor.                          *)

LEMMA PhaseIs ==
  ASSUME TypeInv, MonitorInv, NEW h \in Harvesters
  PROVE  phaseOf[h] = IF lock[h] = NoThread THEN "idle" ELSE pc[lock[h]]
<1>1. \A t \in Threads : on[t] = h /\ pc[t] \in RunPCs <=> lock[h] = t
  BY DEF MonitorInv, LockIsHarvest
<1>2. lock[h] \in Threads \cup {NoThread}
  BY DEF TypeInv, TypeOK
<1>3. CASE lock[h] = NoThread
  BY <1>1, <1>3, ThreadAssumption DEF phaseOf, RunPCs
<1>4. CASE lock[h] # NoThread
  <2>1. lock[h] \in Threads /\ on[lock[h]] = h /\ pc[lock[h]] \in RunPCs
    BY <1>1, <1>2, <1>4
  <2>2. CASE pc[lock[h]] = "harvest"
    BY <1>4, <2>1, <2>2 DEF phaseOf
  <2>3. CASE pc[lock[h]] = "closing"
    BY <1>1, <1>4, <2>1, <2>3 DEF phaseOf, RunPCs
  <2> QED
    BY <2>1, <2>2, <2>3 DEF RunPCs
<1> QED
  BY <1>3, <1>4

LEMMA PhaseThen ==
  ASSUME TypeInv', MonitorInv', NEW h \in Harvesters
  PROVE  phaseOf'[h] = IF lock'[h] = NoThread THEN "idle" ELSE pc'[lock'[h]]
<1>1. \A t \in Threads : on'[t] = h /\ pc'[t] \in RunPCs <=> lock'[h] = t
  BY DEF MonitorInv, LockIsHarvest
<1>2. lock'[h] \in Threads \cup {NoThread}
  BY DEF TypeInv, TypeOK
<1>3. CASE lock'[h] = NoThread
  BY <1>1, <1>3, ThreadAssumption DEF phaseOf, RunPCs
<1>4. CASE lock'[h] # NoThread
  <2>1. lock'[h] \in Threads /\ on'[lock'[h]] = h /\ pc'[lock'[h]] \in RunPCs
    BY <1>1, <1>2, <1>4
  <2>2. CASE pc'[lock'[h]] = "harvest"
    BY <1>4, <2>1, <2>2 DEF phaseOf
  <2>3. CASE pc'[lock'[h]] = "closing"
    BY <1>1, <1>4, <2>1, <2>3 DEF phaseOf, RunPCs
  <2> QED
    BY <2>1, <2>2, <2>3 DEF RunPCs
<1> QED
  BY <1>3, <1>4

\* A step of a thread that leaves the monitors alone, and its own place inside
\* harvest(), if it is there, leaves the phases alone.
LEMMA PhasesKept ==
  ASSUME TypeInv, MonitorInv, TypeInv', MonitorInv', UNCHANGED lock,
         NEW t, \A u \in Threads \ {t} : pc'[u] = pc[u],
         pc[t] \in RunPCs => pc'[t] = pc[t]
  PROVE  phaseOf' = phaseOf
<1>1. \A h \in Harvesters : phaseOf'[h] = phaseOf[h]
  <2> SUFFICES ASSUME NEW h \in Harvesters PROVE phaseOf'[h] = phaseOf[h]
    OBVIOUS
  <2>1. lock[h] # NoThread => lock[h] \in Threads /\ pc[lock[h]] \in RunPCs
    BY DEF TypeInv, TypeOK, MonitorInv, LockIsHarvest
  <2> QED
    BY <2>1, PhaseIs, PhaseThen
<1> QED
  BY <1>1 DEF phaseOf

-----------------------------------------------------------------------------
(* Steps of the serial view.                                                *)

LEMMA SerialInit == Init => Serial!SerialInit
<1> SUFFICES ASSUME Init PROVE Serial!SerialInit
  OBVIOUS
<1>1. phaseOf = [h \in Harvesters |-> "idle"]
  BY DEF Init, InitWith, phaseOf
<1>2. storedActive \in [Harvesters -> BOOLEAN]
  BY DEF storedActive
<1>3. records = [h \in Harvesters |-> {}]
  BY DEF Init, InitWith
<1> QED
  BY <1>1, <1>2, <1>3 DEF Serial!SerialInit, storedActive

\* Somebody administers an idle harvester.
LEMMA AdministerStep ==
  ASSUME TypeInv, MonitorInv, TypeInv', MonitorInv', UNCHANGED lock,
         NEW h \in Harvesters, Free(h),
         NEW r \in Threads, \A u \in Threads \ {r} : pc'[u] = pc[u], pc[r] \notin RunPCs,
         \A k \in Harvesters \ {h} : dbStatus'[k] = dbStatus[k],
         records' = records \/ \E left \in SUBSET records[h] : records' = [records EXCEPT ![h] = left]
  PROVE  Serial!Administer(h)
<1>1. phaseOf' = phaseOf
  BY PhasesKept
<1>2. phaseOf[h] = "idle"
  BY PhaseIs DEF Free
<1>3. storedActive' = [storedActive EXCEPT ![h] = (dbStatus'[h] = "active")]
  BY DEF storedActive
<1>4. \E left \in SUBSET records[h] : records' = [records EXCEPT ![h] = left]
  <2>1. CASE records' = records
    <3>1. records' = [records EXCEPT ![h] = records[h]]
      BY <2>1 DEF TypeInv, TypeOK
    <3> QED
      BY <3>1
  <2> QED
    BY <2>1
<1>5. (dbStatus'[h] = "active") \in BOOLEAN
  OBVIOUS
<1>6. \E b \in BOOLEAN : storedActive' = [storedActive EXCEPT ![h] = b]
  BY <1>3, <1>5
<1> QED
  BY <1>1, <1>2, <1>4, <1>6 DEF Serial!Administer, storedActive

LEMMA UnseenStep ==
  ASSUME TypeInv, MonitorInv, TypeInv', MonitorInv', UNCHANGED <<lock, dbStatus, records>>,
         NEW r \in Threads, \A u \in Threads \ {r} : pc'[u] = pc[u],
         pc[r] \in RunPCs => pc'[r] = pc[r]
  PROVE  UNCHANGED Serial!abstractVars
<1>1. phaseOf' = phaseOf
  BY PhasesKept
<1> QED
  BY <1>1 DEF Serial!abstractVars

\* The thread inside harvest() is the one that the phase follows.
LEMMA OwnPhase ==
  ASSUME TypeInv, MonitorInv, NEW t \in Threads, pc[t] \in RunPCs
  PROVE  /\ on[t] \in Harvesters
         /\ lock[on[t]] = t
         /\ phaseOf[on[t]] = pc[t]
         /\ \A k \in Harvesters \ {on[t]} : lock[k] # t
<1>1. on[t] \in Harvesters
  BY DEF TypeInv, Targets, RunPCs
<1>2. lock[on[t]] = t
  BY <1>1 DEF MonitorInv, LockIsHarvest
<1>3. phaseOf[on[t]] = pc[t]
  BY <1>1, <1>2, PhaseIs, ThreadAssumption
<1>4. \A k \in Harvesters \ {on[t]} : lock[k] # t
  BY DEF MonitorInv, LockIsHarvest
<1> QED
  BY <1>1, <1>2, <1>3, <1>4

\* A harvest moves the phase of its own harvester only.
LEMMA PhaseMoves ==
  ASSUME TypeInv, MonitorInv, TypeInv', MonitorInv',
         NEW t \in Threads, NEW h \in Harvesters,
         \A u \in Threads \ {t} : pc'[u] = pc[u],
         \A k \in Harvesters \ {h} : lock'[k] = lock[k] /\ lock[k] # t
  PROVE  phaseOf' = [phaseOf EXCEPT ![h] = IF lock'[h] = NoThread THEN "idle" ELSE pc'[lock'[h]]]
<1>1. phaseOf'[h] = IF lock'[h] = NoThread THEN "idle" ELSE pc'[lock'[h]]
  BY PhaseThen
<1>2. ASSUME NEW k \in Harvesters \ {h} PROVE phaseOf'[k] = phaseOf[k]
  <2>1. lock[k] # NoThread => lock[k] \in Threads \ {t}
    BY DEF TypeInv, TypeOK
  <2>2. lock'[k] = lock[k]
    OBVIOUS
  <2>3. phaseOf[k] = IF lock[k] = NoThread THEN "idle" ELSE pc[lock[k]]
    BY PhaseIs
  <2>4. phaseOf'[k] = IF lock'[k] = NoThread THEN "idle" ELSE pc'[lock'[k]]
    BY PhaseThen
  <2> QED
    BY <2>1, <2>2, <2>3, <2>4
<1>3. phaseOf \in [Harvesters -> {phaseOf[k] : k \in Harvesters}] /\ DOMAIN phaseOf' = Harvesters
  BY DEF phaseOf
<1>4. phaseOf' = [k \in Harvesters |-> phaseOf'[k]] /\ phaseOf = [k \in Harvesters |-> phaseOf[k]]
  BY DEF phaseOf
<1> QED
  BY <1>1, <1>2, <1>4

-----------------------------------------------------------------------------
(* The steps of the code, one by one.                                       *)

\* harvest() begins: by a fired job or by invoke().
LEMMA BeginIsSerial ==
  ASSUME TypeInv, MonitorInv, TypeInv', MonitorInv', NEW t \in Threads,
         pc[t] \in {"fired", "invoke"}, BeginHarvest(t, on[t])
  PROVE  Serial!BeginSerial(on[t])
<1> PICK h \in Harvesters : h = on[t]
  BY DEF TypeInv, Targets
<1>1. /\ lock[h] = NoThread
      /\ lock' = [lock EXCEPT ![h] = t]
      /\ pc' = [pc EXCEPT ![t] = "harvest"]
      /\ UNCHANGED <<dbStatus, records>>
  BY DEF BeginHarvest, Goto, Free, dbVars
<1>2. \A k \in Harvesters \ {h} : lock'[k] = lock[k] /\ lock[k] # t
  BY <1>1 DEF TypeInv, TypeOK, MonitorInv, LockIsHarvest, RunPCs
<1>3. \A u \in Threads \ {t} : pc'[u] = pc[u]
  BY <1>1 DEF TypeInv, TypeOK
<1>4. lock'[h] = t /\ pc'[t] = "harvest"
  BY <1>1 DEF TypeInv, TypeOK
<1>5. phaseOf' = [phaseOf EXCEPT ![h] = "harvest"]
  <2>1. phaseOf' = [phaseOf EXCEPT ![h] = IF lock'[h] = NoThread THEN "idle" ELSE pc'[lock'[h]]]
    BY <1>2, <1>3, PhaseMoves
  <2> QED
    BY <2>1, <1>4, ThreadAssumption
<1>6. phaseOf[h] = "idle"
  BY <1>1, PhaseIs
<1> QED
  BY <1>1, <1>5, <1>6 DEF Serial!BeginSerial

\* A request or a firing that is not inside harvest().
LEMMA RequestIsSerial ==
  ASSUME TypeInv, MonitorInv, TypeInv', MonitorInv', NEW r \in Requests, RequestStep(r)
  PROVE  Serial!SerialNext \/ UNCHANGED Serial!abstractVars
<1>r. r \in Threads
  BY DEF Threads
<1>1. CASE StopSetsCancel(r) \/ StopGetsParams(r) \/ StopInterrupts(r)
  <2>1. UNCHANGED <<lock, dbStatus, records>> /\ pc[r] \notin RunPCs
    BY <1>1 DEF StopSetsCancel, StopGetsParams, StopInterrupts, harvesterVars, dbVars, RunPCs
  <2>2. \A u \in Threads \ {r} : pc'[u] = pc[u]
    BY <1>1 DEF StopSetsCancel, StopGetsParams, StopInterrupts, Goto, TypeInv, TypeOK
  <2> QED
    BY <1>r, <2>1, <2>2, UnseenStep
<1>2. CASE Invoke(r)
  <2>1. Serial!BeginSerial(on[r])
    BY <1>r, <1>2, BeginIsSerial DEF Invoke
  <2>2. on[r] \in Harvesters
    BY <1>r, <1>2 DEF Invoke, TypeInv, Targets
  <2> QED
    BY <2>1, <2>2 DEF Serial!SerialNext
<1>3. CASE Start(r) \/ Run(r) \/ StopBlock(r) \/ Update(r)
  <2> USE DEF Start, Run, StopBlock, Update
  <2>1. pc[r] # "new" /\ pc[r] \notin RunPCs
    BY <1>3 DEF RunPCs
  <2> PICK h \in Harvesters : h = on[r]
    BY <1>r, <2>1 DEF TypeInv, Targets
  <2>2. UNCHANGED <<lock, records>> /\ Free(h) /\ Goto(r, "done")
    BY <1>3 DEF Return, harvesterVars
  <2>3. \A u \in Threads \ {r} : pc'[u] = pc[u]
    BY <2>2 DEF Goto, TypeInv, TypeOK
  <2>4. dbStatus' = dbStatus \/ \E s \in Status : SetDbStatus(h, s)
    BY <1>3, <1>r DEF Activate, ActivateThrows, Reconfigure, ReconfigureThrows, Status, TypeInv, TypeOK
  <2>5. \A k \in Harvesters \ {h} : dbStatus'[k] = dbStatus[k]
    BY <2>4 DEF SetDbStatus, TypeInv, TypeOK
  <2>6. Serial!Administer(h)
    BY <1>r, <2>1, <2>2, <2>3, <2>5, AdministerStep
  <2> QED
    BY <2>6 DEF Serial!SerialNext
<1> QED
  BY <1>1, <1>2, <1>3 DEF RequestStep

LEMMA DestroyIsSerial ==
  ASSUME TypeInv, MonitorInv, TypeInv', MonitorInv', NEW r \in Requests, DestroyStep(r)
  PROVE  Serial!SerialNext
<1> USE DEF DestroyStep, Destroy, DestroyFails
<1>r. r \in Threads /\ pc[r] # "new" /\ pc[r] \notin RunPCs
  BY DEF Threads, RunPCs
<1> PICK h \in Harvesters : h = on[r]
  BY <1>r DEF TypeInv, Targets
<1>1. UNCHANGED <<lock, dbStatus>> /\ Free(h) /\ Goto(r, "done")
  BY DEF Return, harvesterVars
<1>2. \A u \in Threads \ {r} : pc'[u] = pc[u]
  BY <1>1 DEF Goto, TypeInv, TypeOK
<1>3. \E left \in SUBSET records[h] : records' = [records EXCEPT ![h] = left]
  OBVIOUS
<1>4. Serial!Administer(h)
  BY <1>r, <1>1, <1>2, <1>3, AdministerStep
<1> QED
  BY <1>4 DEF Serial!SerialNext

LEMMA QuartzIsSerial ==
  ASSUME TypeInv, MonitorInv, TypeInv', MonitorInv', NEW f \in Firings, Quartz(f)
  PROVE  Serial!SerialNext \/ UNCHANGED Serial!abstractVars
<1>f. f \in Threads
  BY DEF Threads
<1>1. ASSUME NEW h \in Harvesters, CanFire(f, h), Fired(f, h)
      PROVE  UNCHANGED Serial!abstractVars
  <2>1. UNCHANGED <<lock, dbStatus, records>> /\ pc[f] \notin RunPCs
    BY <1>1 DEF CanFire, Fired, harvesterVars, dbVars, RunPCs
  <2>2. \A u \in Threads \ {f} : pc'[u] = pc[u]
    BY <1>1 DEF Fired, Goto, TypeInv, TypeOK
  <2> QED
    BY <1>f, <2>1, <2>2, UnseenStep
<1>2. CASE JobHarvests(f)
  <2>1. Serial!BeginSerial(on[f])
    BY <1>f, <1>2, BeginIsSerial DEF JobHarvests
  <2>2. on[f] \in Harvesters
    BY <1>f, <1>2 DEF JobHarvests, TypeInv, Targets
  <2> QED
    BY <2>1, <2>2 DEF Serial!SerialNext
<1> QED
  BY <1>1, <1>2 DEF Quartz, FireScheduled, FireTriggered

\* The steps inside harvest().
LEMMA RecordIsSerial ==
  ASSUME TypeInv, MonitorInv, TypeInv', MonitorInv', NEW t \in Threads, HarvestRecord(t)
  PROVE  Serial!SerialNext \/ UNCHANGED Serial!abstractVars
<1>1. pc[t] = "harvest" /\ UNCHANGED <<lock, dbStatus, pc>>
  BY DEF HarvestRecord, threadVars
<1> PICK h \in Harvesters : h = on[t] /\ phaseOf[h] = "harvest"
  BY <1>1, OwnPhase DEF RunPCs
<1>2. phaseOf' = phaseOf
  BY <1>1, PhasesKept
<1>3. PICK x \in todo[h] : records' \in {records, [records EXCEPT ![h] = @ \cup {x}]}
  BY DEF HarvestRecord
<1>4. x \in Records
  BY DEF TypeInv, TypeOK
<1>5. CASE records' = records
  BY <1>1, <1>2, <1>5 DEF Serial!abstractVars
<1>6. CASE records' = [records EXCEPT ![h] = @ \cup {x}]
  <2>1. Serial!Store(h)
    BY <1>1, <1>2, <1>4, <1>6 DEF Serial!Store
  <2> QED
    BY <2>1 DEF Serial!SerialNext
<1> QED
  BY <1>3, <1>5, <1>6

LEMMA FinishIsSerial ==
  ASSUME TypeInv, MonitorInv, TypeInv', MonitorInv', NEW t \in Threads,
         HarvestReturns(t) \/ HarvestFails(t)
  PROVE  Serial!SerialNext
<1>1. pc[t] = "harvest" /\ Goto(t, "closing") /\ UNCHANGED <<lock, records>>
  BY DEF HarvestReturns, HarvestFails, harvesterVars, dbVars
<1> PICK h \in Harvesters :
      /\ h = on[t]
      /\ lock[h] = t
      /\ phaseOf[h] = "harvest"
      /\ \A k \in Harvesters \ {h} : lock[k] # t
  BY <1>1, OwnPhase DEF RunPCs
<1>2. \A u \in Threads \ {t} : pc'[u] = pc[u]
  BY <1>1 DEF Goto, TypeInv, TypeOK
<1>3. pc'[t] = "closing" /\ lock' = lock
  BY <1>1 DEF Goto, TypeInv, TypeOK
<1>4. phaseOf' = [phaseOf EXCEPT ![h] = "closing"]
  <2>1. phaseOf' = [phaseOf EXCEPT ![h] = IF lock'[h] = NoThread THEN "idle" ELSE pc'[lock'[h]]]
    BY <1>2, <1>3, PhaseMoves
  <2> QED
    BY <2>1, <1>3, ThreadAssumption
<1>5. \/ dbStatus' = dbStatus
      \/ h \in OneRunOnly /\ SetDbStatus(h, "inactive")
  BY DEF HarvestReturns, HarvestFails, dbVars
<1>6. \/ storedActive' = storedActive
      \/ h \in OneRunOnly /\ storedActive' = [storedActive EXCEPT ![h] = FALSE]
  <2>1. CASE dbStatus' = dbStatus
    BY <2>1 DEF storedActive
  <2>2. CASE h \in OneRunOnly /\ SetDbStatus(h, "inactive")
    <3>1. dbStatus'[h] # "active" /\ \A k \in Harvesters \ {h} : dbStatus'[k] = dbStatus[k]
      BY <2>2 DEF SetDbStatus, TypeInv, TypeOK
    <3>2. storedActive' = [storedActive EXCEPT ![h] = FALSE]
      BY <3>1 DEF storedActive
    <3> QED
      BY <2>2, <3>2
  <2> QED
    BY <1>5, <2>1, <2>2
<1>7. Serial!Finish(h)
  BY <1>1, <1>4, <1>6 DEF Serial!Finish, storedActive
<1> QED
  BY <1>7 DEF Serial!SerialNext

LEMMA CloseIsSerial ==
  ASSUME TypeInv, MonitorInv, TypeInv', MonitorInv', NEW t \in Threads, HarvestCloses(t)
  PROVE  Serial!SerialNext
<1>1. pc[t] = "closing" /\ Goto(t, "done") /\ UNCHANGED <<dbStatus, records>>
      /\ lock' = [lock EXCEPT ![on[t]] = NoThread]
  BY DEF HarvestCloses
<1> PICK h \in Harvesters :
      /\ h = on[t]
      /\ phaseOf[h] = "closing"
      /\ \A k \in Harvesters \ {h} : lock[k] # t
  BY <1>1, OwnPhase DEF RunPCs
<1>2. \A u \in Threads \ {t} : pc'[u] = pc[u]
  BY <1>1 DEF Goto, TypeInv, TypeOK
<1>3. lock'[h] = NoThread /\ \A k \in Harvesters \ {h} : lock'[k] = lock[k]
  BY <1>1 DEF TypeInv, TypeOK
<1>4. phaseOf' = [phaseOf EXCEPT ![h] = "idle"]
  <2>1. phaseOf' = [phaseOf EXCEPT ![h] = IF lock'[h] = NoThread THEN "idle" ELSE pc'[lock'[h]]]
    BY <1>2, <1>3, PhaseMoves
  <2> QED
    BY <2>1, <1>3
<1>5. Serial!Close(h)
  BY <1>1, <1>4 DEF Serial!Close
<1> QED
  BY <1>5 DEF Serial!SerialNext

-----------------------------------------------------------------------------

LEMMA SerialStep ==
  TypeInv /\ MonitorInv /\ TypeInv' /\ MonitorInv' /\ [Next]_vars
    => [Serial!SerialNext]_(Serial!abstractVars)
<1> SUFFICES ASSUME TypeInv, MonitorInv, TypeInv', MonitorInv', [Next]_vars
             PROVE  Serial!SerialNext \/ UNCHANGED Serial!abstractVars
  OBVIOUS
<1>1. ASSUME NEW r \in Requests, NEW h \in Harvesters, NEW m \in Methods, Call(r, h, m)
      PROVE  UNCHANGED Serial!abstractVars
  <2>1. UNCHANGED <<lock, dbStatus, records>> /\ pc[r] \notin RunPCs
    BY <1>1 DEF Call, harvesterVars, dbVars, RunPCs
  <2>2. \A u \in Threads \ {r} : pc'[u] = pc[u]
    BY <1>1 DEF Call, Goto, TypeInv, TypeOK
  <2> QED
    BY <2>1, <2>2, UnseenStep DEF Threads
<1>2. ASSUME NEW t \in Threads, HarvestStep(t)
      PROVE  Serial!SerialNext \/ UNCHANGED Serial!abstractVars
  BY <1>2, RecordIsSerial, FinishIsSerial, CloseIsSerial DEF HarvestStep
<1>3. CASE UNCHANGED vars
  BY <1>3 DEF vars, harvesterVars, dbVars, quartzVars, threadVars, phaseOf, Serial!abstractVars
<1> QED
  BY <1>1, <1>2, <1>3, RequestIsSerial, DestroyIsSerial, QuartzIsSerial DEF Next, Terminating

\* Harvests of a harvester are serial and undisturbed (AbstractHarvester's
\* synchronized start, stop, update, destroy and harvest): whatever the
\* requests and the scheduler do at once, the stored status and the records
\* change as if harvests and administration took turns.
THEOREM HarvesterIsSerial == Spec => HarvestsAreSerial
<1>1. Spec => [](TypeInv /\ MonitorInv)
  <2>1. Init => TypeInv /\ MonitorInv
    BY TypeInit, MonitorInit
  <2>2. TypeInv /\ MonitorInv /\ [Next]_vars => (TypeInv /\ MonitorInv)'
    BY TypeNext, MonitorNext
  <2> QED
    BY <2>1, <2>2, PTL DEF Spec
<1> QED
  BY <1>1, SerialInit, SerialStep, PTL DEF Spec, HarvestsAreSerial, Serial!SerialSpec

=============================================================================
