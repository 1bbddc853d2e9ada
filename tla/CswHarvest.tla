----------------------------- MODULE CswHarvest -----------------------------
(***************************************************************************)
(* What the harvest of a CSW node does: Harvester.search pages through the *)
(* summaries of a remote catalogue, and Aligner.align removes, adds and    *)
(* updates local records accordingly.  Several nodes are harvested at the  *)
(* same time into one catalogue, the remote catalogues and the users of    *)
(* the local one do not wait for a harvest to end, and any request to the  *)
(* remote server may fail.                                                 *)
(*                                                                         *)
(* One step is one request to the remote server or one database operation. *)
(* The clock ticks with every change of a remote record, so the time of    *)
(* its last change names its content.                                      *)
(***************************************************************************)
EXTENDS Integers, Sequences, FiniteSets

CONSTANTS
  Nodes,         \* CSW harvesters, one remote catalogue each
  Uuids,         \* the uuids of metadata records
  NoNode,        \* the owner of a record that is not in the catalogue
  PageSize,      \* GETRECORDS_NUMBER_OF_RESULTS_PER_PAGE
  Day,           \* RecordInfo.SECONDS_PER_DAY
  Granularity,   \* the ticks that a remote change date cannot tell apart
  RemoteOps,     \* what happens in the remote catalogues
  Disturbances,  \* what may go wrong, or be done by others, during a harvest
  MaxClock,      \* a bound on the changes in the remote catalogues
  MaxDisturbed   \* a bound on the disturbances

ASSUME CswAssumption ==
  /\ NoNode \notin Nodes \cup Uuids
  /\ IsFiniteSet(Uuids)
  /\ PageSize \in Nat \ {0} /\ Day \in Nat \ {0} /\ Granularity \in Nat \ {0}
  /\ RemoteOps \subseteq {"change", "add", "delete"}
  /\ Disturbances \subseteq {"capabilities", "search", "unreadable", "retrieve", "stop", "edit"}
  /\ MaxClock \in Nat /\ MaxDisturbed \in Nat

VARIABLES
  offer,      \* the uuids a remote catalogue answers with, in its order
  changed,    \* when a remote record was changed for the last time
  clock,
  catalogue,  \* the local record with a uuid: id, owner, change date, content
  pc,         \* where the harvest of a node is
  start,      \* search: the first record of the page to request
  found,      \* the change dates of the records that search has found
  local,      \* UUIDMapper: id and change date of the node's own records
  left,       \* the uuids that the loop of align has still to process
  current,    \* the uuid, and the id, of the record that is being retrieved
  cancel,     \* AbstractHarvester.cancelMonitor
  disturbed,  \* the disturbances so far
  gone,       \* history: the uuids the remote catalogue has been without at some
              \* moment since the harvest began
  overlooked  \* history: the uuids that the search of this harvest cannot have
              \* found though they may have been offered all the time

remoteVars  == <<offer, changed, clock>>
searchVars  == <<start, found>>
alignVars   == <<local, left, current>>
cswVars     == <<remoteVars, catalogue, pc, searchVars, alignVars, cancel, disturbed, gone, overlooked>>

NoDate      == -1
NoRecord    == [uuid |-> NoNode, id |-> 0]
NoCopy      == [id |-> 0, date |-> NoDate]
Time        == 0..MaxClock
PCs         == {"idle", "search", "align", "remove", "records", "add", "update"}

Offered(n)    == {offer[n][i] : i \in 1..Len(offer[n])}
Stored(u)     == catalogue[u].owner # NoNode
Stamp(t)      == (t \div Granularity) * Granularity
RemoteDate(n, u) == Stamp(changed[n][u])
Copy(u)       == [id |-> catalogue[u].id, date |-> catalogue[u].date]
Content(n, u) == <<n, changed[n][u]>>
NothingFound  == [u \in Uuids |-> NoDate]

CswTypeOK ==
  /\ \A n \in Nodes : Offered(n) \subseteq Uuids /\ Len(offer[n]) <= Cardinality(Uuids)
  /\ changed \in [Nodes -> [Uuids -> Time]]
  /\ clock \in Time
  /\ \A u \in Uuids :
       /\ catalogue[u].id \in Nat
       /\ catalogue[u].owner \in Nodes \cup {NoNode}
       /\ catalogue[u].date \in Time \cup {NoDate}
  /\ pc \in [Nodes -> PCs]
  /\ start \in [Nodes -> 1..Cardinality(Uuids)]
  /\ found \in [Nodes -> [Uuids -> Time \cup {NoDate}]]
  /\ left \in [Nodes -> SUBSET Uuids]
  /\ \A n \in Nodes : current[n].uuid \in Uuids \cup {NoNode} /\ current[n].id \in Nat
  /\ cancel \in [Nodes -> BOOLEAN]
  /\ disturbed \in 0..MaxDisturbed
  /\ gone \in [Nodes -> SUBSET Uuids]
  /\ overlooked \in [Nodes -> SUBSET Uuids]

CswInit ==
  /\ offer \in [Nodes -> {s \in UNION {[1..k -> Uuids] : k \in 0..Cardinality(Uuids)} :
                            \A i, j \in DOMAIN s : s[i] = s[j] => i = j}]
  /\ changed   = [n \in Nodes |-> [u \in Uuids |-> 0]]
  /\ clock     = 0
  /\ catalogue = [u \in Uuids |-> [id |-> 0, owner |-> NoNode, date |-> NoDate,
                                   content |-> <<NoNode, 0>>]]
  /\ pc        = [n \in Nodes |-> "idle"]
  /\ start     = [n \in Nodes |-> 1]
  /\ found     = [n \in Nodes |-> NothingFound]
  /\ local     = [n \in Nodes |-> [u \in Uuids |-> NoCopy]]
  /\ left      = [n \in Nodes |-> {}]
  /\ current   = [n \in Nodes |-> NoRecord]
  /\ cancel    = [n \in Nodes |-> FALSE]
  /\ disturbed = 0
  /\ gone      = [n \in Nodes |-> {}]
  /\ overlooked = [n \in Nodes |-> {}]

Goto(n, place) == pc' = [pc EXCEPT ![n] = place]
Disturb(kind)  == /\ kind \in Disturbances
                  /\ disturbed < MaxDisturbed
                  /\ disturbed' = disturbed + 1
\* The end of a harvest: nothing of it is used again.
End(n) ==
  /\ Goto(n, "idle")
  /\ cancel' = [cancel EXCEPT ![n] = FALSE]
  /\ start'  = [start  EXCEPT ![n] = 1]
  /\ found'  = [found  EXCEPT ![n] = NothingFound]
  /\ local'  = [local  EXCEPT ![n] = [u \in Uuids |-> NoCopy]]
  /\ left'   = [left   EXCEPT ![n] = {}]
  /\ current' = [current EXCEPT ![n] = NoRecord]

----------------------------------------------------------------------------
(* The remote catalogues, and the users of the local one.                   *)

\* A record that comes before the page to request is deleted: the first record
\* of that page moves to the page that has been read.
Shifted(n, u) ==
  IF /\ pc[n] = "search" /\ start[n] <= Len(offer[n])
     /\ \E i \in 1..Len(offer[n]) : offer[n][i] = u /\ i < start[n]
  THEN {offer[n][start[n]]} ELSE {}

RemoteStep(n, op, u, answers) ==
  /\ op \in RemoteOps
  /\ clock < MaxClock
  /\ clock' = clock + 1
  /\ changed' = [changed EXCEPT ![n][u] = clock + 1]
  /\ offer' = [offer EXCEPT ![n] = answers]
  /\ gone' = [gone EXCEPT ![n] = IF op = "delete" THEN @ \cup {u} ELSE @]
  /\ overlooked' = [overlooked EXCEPT ![n] = IF op = "delete" THEN @ \cup Shifted(n, u) ELSE @]
  /\ UNCHANGED <<catalogue, pc, searchVars, alignVars, cancel, disturbed>>

\* An answer without its i-th record.
Without(answers, i) ==
  [k \in 1..(Len(answers) - 1) |-> answers[IF k < i THEN k ELSE k + 1]]

Remote(n, u) ==
  \/ /\ u \in Offered(n)
     /\ \/ RemoteStep(n, "change", u, offer[n])
        \/ \E i \in 1..Len(offer[n]) :
             offer[n][i] = u /\ RemoteStep(n, "delete", u, Without(offer[n], i))
  \/ /\ u \notin Offered(n)
     /\ \/ RemoteStep(n, "add", u, Append(offer[n], u))
        \/ RemoteStep(n, "add", u, <<u>> \o offer[n])

\* An editor deletes a harvested record, or clearBatch does.
UserDeletes(u) ==
  /\ Stored(u)
  /\ Disturb("edit")
  /\ catalogue' = [catalogue EXCEPT ![u].owner = NoNode]
  /\ UNCHANGED <<remoteVars, pc, searchVars, alignVars, cancel, gone, overlooked>>

\* AbstractHarvester.stop.
Cancel(n) ==
  /\ pc[n] # "idle"
  /\ Disturb("stop")
  /\ cancel' = [cancel EXCEPT ![n] = TRUE]
  /\ UNCHANGED <<remoteVars, catalogue, pc, searchVars, alignVars, gone, overlooked>>

----------------------------------------------------------------------------
(* Harvester.harvest: the capabilities, then the search.                    *)

Begin(n) ==
  /\ pc[n] = "idle"
  /\ Goto(n, "search")
  /\ gone' = [gone EXCEPT ![n] = Uuids \ Offered(n)]
  /\ overlooked' = [overlooked EXCEPT ![n] = {}]
  /\ UNCHANGED <<remoteVars, catalogue, searchVars, alignVars, cancel, disturbed>>

\* No usable answer: the harvest fails.
NoCapabilities(n) ==
  /\ pc[n] = "search" /\ start[n] = 1
  /\ Disturb("capabilities")
  /\ End(n)
  /\ UNCHANGED <<remoteVars, catalogue, gone, overlooked>>

\* cancelMonitor is looked at before the search, and then not before its end.
CancelledBeforeSearch(n) ==
  /\ pc[n] = "search" /\ start[n] = 1
  /\ cancel[n]
  /\ End(n)
  /\ UNCHANGED <<remoteVars, catalogue, disturbed, gone, overlooked>>

Page(n) == {offer[n][i] : i \in {j \in 1..Len(offer[n]) : j \in start[n]..start[n] + PageSize - 1}}

\* The summaries of a page that can be read; a uuid found before keeps its date.
Read(n, page) ==
  found' = [found EXCEPT ![n] =
              [u \in Uuids |-> IF u \in page /\ @[u] = NoDate THEN RemoteDate(n, u) ELSE @[u]]]

\* Mutant of NextPage: the record after the last full page is not asked for.
NextPageTooFew(n) ==
  IF start[n] + PageSize >= Len(offer[n])
  THEN Goto(n, "align") /\ UNCHANGED start
  ELSE start' = [start EXCEPT ![n] = @ + PageSize] /\ UNCHANGED pc

\* Mutant of NextPage: one page too many.
NextPageTooMany(n) ==
  IF start[n] > Len(offer[n])
  THEN Goto(n, "align") /\ UNCHANGED start
  ELSE start' = [start EXCEPT ![n] = @ + PageSize] /\ UNCHANGED pc

\* Mutant of NextPage: the start position is not advanced.
NextPageAgain(n) ==
  IF start[n] + PageSize > Len(offer[n])
  THEN Goto(n, "align") /\ UNCHANGED start
  ELSE UNCHANGED <<start, pc>>

\* numberOfRecordsMatched, as this very answer says, decides.
NextPage(n) ==
  IF start[n] + PageSize > Len(offer[n])
  THEN Goto(n, "align") /\ UNCHANGED start
  ELSE start' = [start EXCEPT ![n] = @ + PageSize] /\ UNCHANGED pc

SearchPage(n) ==
  /\ pc[n] = "search"
  /\ \/ Read(n, Page(n)) /\ UNCHANGED <<disturbed, overlooked>>
     \/ \E u \in Page(n) :
          /\ Read(n, Page(n) \ {u})
          /\ Disturb("unreadable")
          /\ overlooked' = [overlooked EXCEPT ![n] = @ \cup {u}]
  /\ NextPage(n)
  /\ UNCHANGED <<remoteVars, catalogue, alignVars, cancel, gone>>

\* The exception is caught, with no record in the set that align gets.
SearchFails(n) ==
  /\ pc[n] = "search"
  /\ Disturb("search")
  /\ found' = [found EXCEPT ![n] = NothingFound]
  /\ overlooked' = [overlooked EXCEPT ![n] = Uuids]
  /\ Goto(n, "align")
  /\ UNCHANGED <<remoteVars, catalogue, start, alignVars, cancel, gone>>

----------------------------------------------------------------------------
(* Aligner.align.  Each loop looks at cancelMonitor before each record.     *)

Cancelled(n) ==
  /\ \/ pc[n] = "align"
     \/ pc[n] \in {"remove", "records"} /\ left[n] # {}
  /\ cancel[n]
  /\ End(n)
  /\ UNCHANGED <<remoteVars, catalogue, disturbed, gone, overlooked>>

\* UUIDMapper: the records with the harvester's uuid, as they are now.
Align(n) ==
  LET mine == {u \in Uuids : catalogue[u].owner = n} IN
  /\ pc[n] = "align"
  /\ ~cancel[n]
  /\ local' = [local EXCEPT ![n] = [u \in Uuids |-> IF u \in mine THEN Copy(u) ELSE NoCopy]]
  /\ left' = [left EXCEPT ![n] = mine]
  /\ Goto(n, "remove")
  /\ UNCHANGED <<remoteVars, catalogue, searchVars, current, cancel, disturbed, gone, overlooked>>

Found(n)        == {u \in Uuids : found[n][u] # NoDate}
Processed(n, u) == left' = [left EXCEPT ![n] = @ \ {u}]

\* deleteMetadata, by the id of the mapper; one that is gone ends the harvest.
RemoveOld(n) ==
  /\ pc[n] = "remove"
  /\ ~cancel[n]
  /\ \E u \in left[n] \ Found(n) :
       IF Stored(u) /\ catalogue[u].id = local[n][u].id
       THEN /\ catalogue' = [catalogue EXCEPT ![u].owner = NoNode]
            /\ Processed(n, u)
            /\ UNCHANGED <<pc, searchVars, local, current, cancel>>
       ELSE /\ End(n)
            /\ UNCHANGED catalogue
  /\ UNCHANGED <<remoteVars, disturbed, gone, overlooked>>

KeepOld(n) ==
  /\ pc[n] = "remove"
  /\ ~cancel[n]
  /\ \E u \in left[n] \cap Found(n) : Processed(n, u)
  /\ UNCHANGED <<remoteVars, catalogue, pc, searchVars, local, current, cancel, disturbed, gone, overlooked>>

OldRemoved(n) ==
  /\ pc[n] = "remove"
  /\ left[n] = {}
  /\ left' = [left EXCEPT ![n] = Found(n)]
  /\ Goto(n, "records")
  /\ UNCHANGED <<remoteVars, catalogue, searchVars, local, current, cancel, disturbed, gone, overlooked>>

\* Mutant of MoreRecent: only a day later is later.
MoreRecentByADay(remoteDate, localDate) == remoteDate - localDate > Day

\* RecordInfo.isMoreRecentThan.
MoreRecent(remoteDate, localDate) ==
  remoteDate # localDate /\ remoteDate - localDate > -Day

\* Mutant of MustUpdate: the date is not the mapper's but the record's.
MustUpdateAny(n, u) == MoreRecent(found[n][u], catalogue[u].date)

\* A record that the mapper does not know belongs to another node.
MustUpdate(n, u) ==
  /\ local[n][u].date # NoDate
  /\ MoreRecent(found[n][u], local[n][u].date)

\* The uuid is looked up when its turn comes: to add, to update or to leave.
LookUp(n) ==
  /\ pc[n] = "records"
  /\ ~cancel[n]
  /\ \E u \in left[n] :
       \/ /\ ~Stored(u)
          /\ current' = [current EXCEPT ![n] = [uuid |-> u, id |-> 0]]
          /\ Goto(n, "add")
          /\ UNCHANGED left
       \/ /\ Stored(u) /\ MustUpdate(n, u)
          /\ current' = [current EXCEPT ![n] = [uuid |-> u, id |-> catalogue[u].id]]
          /\ Goto(n, "update")
          /\ UNCHANGED left
       \/ /\ Stored(u) /\ ~MustUpdate(n, u)
          /\ Processed(n, u)
          /\ UNCHANGED <<pc, current>>
  /\ UNCHANGED <<remoteVars, catalogue, searchVars, local, cancel, disturbed, gone, overlooked>>

NextRecord(n) ==
  /\ Processed(n, current[n].uuid)
  /\ current' = [current EXCEPT ![n] = NoRecord]
  /\ Goto(n, "records")
  /\ UNCHANGED <<remoteVars, searchVars, local, cancel, gone, overlooked>>

\* insertMetadata: a uuid that somebody has inserted meanwhile is refused.
Add(n) ==
  LET u == current[n].uuid IN
  /\ pc[n] = "add"
  /\ u \in Offered(n)
  /\ catalogue' = [catalogue EXCEPT ![u] =
                     IF Stored(u) THEN @
                     ELSE [id |-> @.id + 1, owner |-> n, date |-> found[n][u],
                           content |-> Content(n, u)]]
  /\ NextRecord(n)
  /\ UNCHANGED disturbed

\* updateMetadata, by the id that LookUp has read; an id that is gone is refused.
Update(n) ==
  LET u == current[n].uuid IN
  /\ pc[n] = "update"
  /\ u \in Offered(n)
  /\ catalogue' = [catalogue EXCEPT ![u] =
                     IF Stored(u) /\ @.id = current[n].id
                     THEN [@ EXCEPT !.date = found[n][u], !.content = Content(n, u)]
                     ELSE @]
  /\ NextRecord(n)
  /\ UNCHANGED disturbed

\* retrieveMetadata returns null: the record is no longer there, or the request
\* fails, or its answer is not valid; and addMetadata looks at cancelMonitor.
Skip(n) ==
  /\ pc[n] \in {"add", "update"}
  /\ \/ current[n].uuid \notin Offered(n) /\ UNCHANGED disturbed
     \/ pc[n] = "add" /\ cancel[n] /\ UNCHANGED disturbed
     \/ Disturb("retrieve")
  /\ NextRecord(n)
  /\ UNCHANGED catalogue

Aligned(n) ==
  /\ pc[n] = "records"
  /\ left[n] = {}
  /\ End(n)
  /\ UNCHANGED <<remoteVars, catalogue, disturbed, gone, overlooked>>

----------------------------------------------------------------------------

\* The steps of a harvest that is on.
HarvestGoesOn(n) ==
  \/ NoCapabilities(n) \/ CancelledBeforeSearch(n)
  \/ SearchPage(n) \/ SearchFails(n)
  \/ Align(n) \/ Cancelled(n) \/ RemoveOld(n) \/ KeepOld(n) \/ OldRemoved(n)
  \/ LookUp(n) \/ Add(n) \/ Update(n) \/ Skip(n) \/ Aligned(n)

HarvestNode(n) == Begin(n) \/ HarvestGoesOn(n)

CswNext ==
  \/ \E n \in Nodes : HarvestNode(n) \/ Cancel(n)
  \/ \E n \in Nodes, u \in Uuids : Remote(n, u)
  \/ \E u \in Uuids : UserDeletes(u)

CswSpec == CswInit /\ [][CswNext]_cswVars

----------------------------------------------------------------------------
(* What must hold.                                                          *)

\* A harvest changes and removes only records of its own node (Aligner.java:298,
\* "Skipped metadata managed by another harvesting node"), though the owner is
\* read once for all records, the id later, and the record written later still,
\* while other nodes harvest records with the same uuids.
OwnRecordsOnly ==
  [][\A n \in Nodes, u \in Uuids :
       left'[n] # left[n] /\ Stored(u) /\ catalogue[u].owner # n
         => catalogue'[u] = catalogue[u]]_cswVars

\* "remove it locally if it has been removed remotely" (harvesting/index.rst:36).
\* The code removes more, and this says how much more: a record that the remote
\* catalogue has offered all the time since the harvest began is removed only if
\* the search failed (Harvester.java:111 goes on with no record), if its summary
\* could not be read (608), or if a record of a page read before was deleted
\* while the pages were being asked for by position (303).  Nothing else, neither
\* the end of the paging, nor records that are added or move while it goes on,
\* nor a cancelled harvest, costs a record.
KeepsWhatIsOffered ==
  [][\A n \in Nodes, u \in Uuids :
       left'[n] # left[n] /\ Stored(u) /\ catalogue'[u].owner = NoNode
         => u \in gone[n] \cup overlooked[n]]_cswVars

\* A local record that has not the remote content has a change date that shows
\* it, so that the next harvest will fetch it: date and content are written
\* together, but come from two requests with changes in between.
DateTellsChange ==
  \A n \in Nodes, u \in Uuids :
    catalogue[u].owner = n /\ u \in Offered(n) /\ catalogue[u].content # Content(n, u)
      => MoreRecent(RemoteDate(n, u), catalogue[u].date)

----------------------------------------------------------------------------
(* Liveness.  A harvest that is on goes on, as Harvester's fairness says.   *)
(* Nothing is assumed of the next one: stop() deletes the job               *)
(* (AbstractHarvester.java:357-361), and nobody need start it again.        *)

CswFairSpec == CswSpec /\ \A n \in Nodes : WF_cswVars(HarvestGoesOn(n))

\* A harvest ends, cancelled or not: its search by what the answers say, though
\* it never looks at cancelMonitor (Harvester.java:248), its loops with records
\* that are gone by the time they are asked for.
HarvestsEnd == \A n \in Nodes : pc[n] # "idle" ~> pc[n] = "idle"

InSync(u) ==
  LET nodes == {n \in Nodes : u \in Offered(n)} IN
  IF nodes = {} THEN ~Stored(u)
  ELSE \E n \in nodes : catalogue[u].owner = n /\ catalogue[u].content = Content(n, u)

\* When the remote catalogues rest, nothing goes wrong any more, and every node
\* is harvested again and again, the local catalogue comes to hold exactly what
\* they offer, as they offer it, whatever the failed searches, lost requests,
\* cancelled harvests and deletions before have left behind.  A harvest that
\* failed is followed by another one: "In this case the harvester is
\* automatically stopped" (harvesting/index.rst:56) is not what the code does,
\* see Harvester!HarvestFails.
Converges ==
  (\A n \in Nodes : []<><<Begin(n)>>_cswVars) => <>[](\A u \in Uuids : InSync(u))

=============================================================================
