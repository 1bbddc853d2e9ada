--------------------------- MODULE SerialHarvest ---------------------------
(***************************************************************************)
(* What a harvester promises to its users, without threads, monitors or a  *)
(* scheduler: harvests of one harvester come one after the other, each one *)
(* ends, and between its beginning and its end nobody but the harvest      *)
(* itself changes the stored status or the harvested records.              *)
(***************************************************************************)
CONSTANTS
  Harvesters,  \* the harvesters
  Records,     \* the records that can be harvested
  OneRunOnly   \* the harvesters that deactivate themselves after a harvest

VARIABLES
  phase,    \* "idle", "harvest" while records arrive, "closing" until it has ended
  active,   \* is the harvester stored as active?
  records   \* the harvested records

abstractVars == <<phase, active, records>>

SerialTypeOK ==
  /\ phase   \in [Harvesters -> {"idle", "harvest", "closing"}]
  /\ active  \in [Harvesters -> BOOLEAN]
  /\ records \in [Harvesters -> SUBSET Records]

SerialInit ==
  /\ phase   = [h \in Harvesters |-> "idle"]
  /\ active  \in [Harvesters -> BOOLEAN]
  /\ records = [h \in Harvesters |-> {}]

\* Start, stop and update a harvester, or delete its records: between harvests.
Administer(h) ==
  /\ phase[h] = "idle"
  /\ \E on \in BOOLEAN : active' = [active EXCEPT ![h] = on]
  /\ \E left \in SUBSET records[h] : records' = [records EXCEPT ![h] = left]
  /\ UNCHANGED phase

BeginSerial(h) ==
  /\ phase[h] = "idle"
  /\ phase' = [phase EXCEPT ![h] = "harvest"]
  /\ UNCHANGED <<active, records>>

Store(h) ==
  /\ phase[h] = "harvest"
  /\ \E x \in Records : records' = [records EXCEPT ![h] = @ \cup {x}]
  /\ UNCHANGED <<phase, active>>

Finish(h) ==
  /\ phase[h] = "harvest"
  /\ phase' = [phase EXCEPT ![h] = "closing"]
  /\ \/ UNCHANGED active
     \/ h \in OneRunOnly /\ active' = [active EXCEPT ![h] = FALSE]
  /\ UNCHANGED records

Close(h) ==
  /\ phase[h] = "closing"
  /\ phase' = [phase EXCEPT ![h] = "idle"]
  /\ UNCHANGED <<active, records>>

SerialNext ==
  \E h \in Harvesters :
    Administer(h) \/ BeginSerial(h) \/ Store(h) \/ Finish(h) \/ Close(h)

SerialSpec == SerialInit /\ [][SerialNext]_abstractVars

\* Every harvest ends, whatever its records and its administrators do.
SerialFairness == \A h \in Harvesters : WF_abstractVars(Finish(h)) /\ WF_abstractVars(Close(h))

SerialFairSpec == SerialSpec /\ SerialFairness

=============================================================================
