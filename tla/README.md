# Verification of geocat's harvesting, editor and search pages

geocat is a GeoNetwork catalogue.  It keeps copies of the records of remote
catalogues (*harvesting*), lets users change its own records (the *editor*) and
find both (the *search page*).  What is hard in it is not the storage of a
record but that many actors work on the same ones: servlet threads, jobs of a
scheduler, remote servers, and pages in browsers whose requests and answers
overtake each other.  This directory holds TLA+ models of these parts, what TLC
checks of them, and what TLAPS proves.

Paths are given from the root of the repository; `harvest/` abbreviates
`src/harvesters/src/main/java/org/fao/geonet/kernel/harvest/` and `catalog/`
`src/web-ui/src/main/resources/catalog/`.

## 1. The system

| Component | State | Operations | Hard because |
|---|---|---|---|
| Harvester (`harvest/harvester/AbstractHarvester.java`, `HarvesterJob`, `HarversterJobListener`, `AbstractParams`) | `status`, `running`, `cancelMonitor`, monitor; status row, records, history | `start stop run invoke update destroy harvest` | servlet threads, Quartz workers; `stop` is only partly synchronized; failures roll back the tables, not the object |
| Harvest manager (`harvest/HarvestManagerImpl.java`, `HarvesterSettingsManager`) | maps by id and by uuid, manager monitor, settings tree | `init add update clearBatch remove start stop run invoke` | two levels of monitors, look-up then call, restart while jobs fire |
| CSW harvesting (`harvest/harvester/csw/Harvester.java`, `Aligner.java`, `UUIDMapper`, `RecordInfo`) | set of remote summaries, snapshot of the local records | page through the remote catalogue, remove, add, update | remote catalogue changes between requests, requests fail, users and other nodes change the same records |
| Harvester page (`catalog/js/admin/HarvestController.js`, `HarvestSettingsController.js`, `gnClickAndSpin`) | list, selected form, history, polling, buttons | select, new, save, run, stop, clear, remove, clone, refresh, poll | every callback changes what is shown by then; failed requests; timers |
| Metadata editor (`catalog/components/metadatamanager/EditorService.js`, `catalog/js/edit/EditorController.js`; `AjaxEditUtils`, `Update`, `EditLib`) | a form per window; a numbered working copy and a backup per session; a version per record | open, type, save, add, remove, move, cancel, close, process | forms act on elements by number, the working copy changes beneath them; optimistic version check that is not one step with the commit |
| Search page (`catalog/components/search/searchmanager/`, `facets/`, `pagination/`, `resultsview/SelectionDirective.js`; `XmlSearch`, `SelectionManager`) | parameters, facets, page, results, address bar; the session's last search and selection | search, reset, facet, page, open and close a record, back, select | the address is the state; searches are answered in any order; a search is skipped on the way back |
| Quartz | jobs, triggers, worker pool | `scheduleJob deleteJob triggerJob interrupt` | a deleted job's executions go on; external |
| Other harvester types (OAI-PMH, GeoNetwork, WebDAV, WFS, THREDDS, ...) | as CSW | search and align | as CSW, plus resumption tokens |
| DataManager, XmlSerializer | metadata table, Lucene index | insert, update, delete by id | used by everything |
| Batch indexing, NRT index, formatter cache, OAI-PMH resumption tokens | queues and caches | submit, acquire, evict, expire | bounds, stale versions |
| CSW server, shared objects, thesauri, other pages | | | see `PROJECT.json` |

Interaction: an XML service calls the manager, the manager
looks an object up and calls a method on it; a Quartz worker gets its object
from the manager through the job listener, and calls `harvest()` on it;
`harvest()` calls `doHarvest` of the harvester's type, which reads a remote
catalogue and writes through DataManager; `stop()` and `HarvesterJob.interrupt`
set the flag `cancelMonitor` which that code looks at between records.  The
harvester page sees all of this through the services' answers and learns of a
harvest's end by polling.  The editor's pages and services share the working copy
in the HTTP session and the version numbers of `EditLib`.  The search page and the
session share the selection and the last search; a search is made by changing the
address, to which the page listens.

What makes the components correct:

* *Harvester*: one harvest at a time per object; status, schedule and stored
  status agree; a cancellation concerns the harvest it was meant for; every call
  returns.
* *Manager*: the maps and the settings name the same harvesters; a removed
  harvester leaves nothing behind; a restart restores what was stored; the two
  levels of monitors never deadlock.
* *CSW harvesting*: a node touches only its own records; it removes only what
  the remote catalogue no longer has; an outdated copy is recognisable as such;
  when things are quiet, the local copies become what the remote catalogue has.
* *Harvester page*: polling goes on as long as something runs; what the page
  shows agrees with the server once every answer has arrived.
* *Editor*: what is typed next to an element's label ends in that element; a save
  does not silently replace another user's; a page is not blocked for ever.
* *Search page*: results, page number and address belong together; the check
  boxes are those of the session's selection.

## 2. The modules

| Module | Models |
|---|---|
| `Harvester` | the objects, the calls of their methods, the scheduler |
| `SerialHarvest` | the abstract view: harvests of one harvester are serial, undisturbed and end |
| `HarvestManager` | extends `Harvester` with the manager, crash and restart |
| `CswHarvest` | the search and the alignment of CSW nodes |
| `HarvestPage` | the harvester administration page against the services |
| `Editor` | editor windows, sessions and the services of one record |
| `SearchForm` | the search page, the address bar and the session |
| `MCHarvester`, `MCHarvestManager`, `MCCswHarvest`, `MCHarvestPage`, `MCEditor`, `MCSearchForm` | instances for TLC |
| `Harvester_proofs`, `HarvesterSerial_proofs` | theorems about `Harvester` |
| `HarvestManager_proofs`, `HarvestRestart_proofs` | theorems about `HarvestManager`; the second extends the first |
| `CswHarvest_proofs`, `Editor_proofs`, `HarvestPage_proofs`, `SearchForm_proofs` | theorems about `CswHarvest`, `Editor`, `HarvestPage` and `SearchForm` |

### Harvester

Threads are HTTP requests (one method call each) and firings (executions of a
Quartz job); `pc` says where a thread is, `on` which object it has, `lock` who
owns the object's monitor.  The critical sections of `start`, `run`, `update`
and `destroy`, and the block inside `stop`, make no call to a remote server and
are one atomic step each, taken when the monitor is free.
`harvest()` holds the monitor over many steps: `BeginHarvest`, one
`HarvestRecord` per record, `HarvestReturns` or `HarvestFails`, and
`HarvestCloses` for the history row and the `finally` blocks.  A fired job
reaches it through `JobHarvests`; `Invoke` reaches it from a request and keeps
the old status in `arg`.
`stop` is four steps, since it owns the monitor only in two of them:
`StopSetsCancel` (line 347), `StopGetsParams` and `StopInterrupts` (348, the
argument `getParams()` is synchronized), `StopBlock` (350-365).

`job` is the job with its recurring trigger, `manual` the number of one-shot
triggers stored by `triggerJob`.  `deleteJob` removes both, and leaves executions
alone.  A firing needs a free worker (`PoolSize`) and no other execution of the
same job (`@DisallowConcurrentExecution`); it is `"fired"` while it waits for the
monitor.  A schedule that never fires (`NeverFires`, a cron expression in the
past) makes `scheduleJob` throw: the request's transaction is rolled back, the
fields of the object are not (`ActivateThrows`, `ReconfigureThrows`).

The remote records, errors, log files, e-mails and the result counters are
abstracted to a set `Records` of which a harvest stores some.

### HarvestManager

`hmHarvesters` and `hmHarvestLookup` are the two maps.  A look-up and the call
on the object that it returned are two steps (`CallHarvester`, then the actions
of `Harvester`).  `Enter` takes the manager's monitor for `update`, `clearBatch`
and `remove`; `remove` is `RemoveDestroys`, `RemoveUnstores`, `RemoveUnregisters`,
or `RemoveFails`, and `clearBatch` is `ClearWaits`, `ClearDeletes`,
`ClearUpdates`, `ClearLogs`.  `cleared` holds what a rollback gives back.
`late` is a history variable: the harvesters to which some thread had a
reference while they were being removed.

`Crash` loses all objects, jobs (Quartz keeps them in memory) and threads, keeps
the tables, and waits until no multi-step transaction is open, because for the
tables a crash inside a transaction is one before it.  `LoadInit`, `LoadPuts`,
`LoadFails`, `LoadEnds` are the loop of `init`; the jobs of the harvesters already
loaded fire in between.  Requests come when the catalogue is up.

### CswHarvest

A step is one request to the remote server or one database operation.  `offer`
is the ordered answer of the remote catalogue, `changed` the time of a record's
last change, which also names its content.  `SearchPage` reads the summaries
of a page and lets `numberOfRecordsMatched` of that same answer decide if there is
another one; `SearchFails` is the caught exception.  `gone` and `overlooked` are
history: the records that the remote catalogue did not offer at some time since the
harvest began, and those that the search missed although they were offered, because it
failed, the summary could not be read, or the record moved to a page that had been
read (`Shifted`).  `Align` takes the snapshot
of `UUIDMapper`; `RemoveOld`, `KeepOld` are its first loop; `LookUp`, `Add`,
`Update`, `Skip` its second, with the look-up of the id, the remote request and the
write apart.  `deleteMetadata` with an id that is gone throws outside any
per-record catch: `RemoveOld` then ends the harvest.  `Remote` changes the remote
catalogues at any time; `UserDeletes` and `Cancel` are other threads of the local
one; `Disturbances` says which of them, and of the failures, a run contains.
`Stamp` gives remote dates a granularity (a date without time), `MoreRecent` is
`RecordInfo.isMoreRecentThan`.

A job's thread opens no transaction around the harvest, so each repository call
commits and is seen by the others at once.  (A harvest by `invoke()` runs in the
request's transaction; the model does not hide its writes until the end.)

Simplified: records always have a modification date (without one they are always
fetched); the first, discarded page of the fallback from GET to POST is not
modelled; a unit of the clock is one change.

### HarvestPage

`list`, `form`, `isNew`, `history`, `deleting`, `stopping` and `polling` are the
variables of the two scopes; `busy` are the buttons that `gnClickAndSpin` has
disabled, `timers` the calls that `setTimeout` still has to make.  A click sends
a request, or two (`Save`); `Handle` is what the server does with it and
`Receive` the callback, whenever it arrives.  `loadHarvesters().then(...)` is one
request that remembers what to do with the list (`after`).  `failed` is history:
which requests failed, and for which harvester.  A button blocks the pointer while it is
`busy`; the keyboard is not modelled.  `form.listed` says
whether the form is still the object that is in the list: the poll updates the list's
objects, and reaches the form only through that identity.  The harvesters themselves are
kept to what the page can see: whether they exist, are active and run; `HarvestStarts`,
`HarvestEnds` and `OtherRemoves` are everybody else.

`orderly` remembers whether the user waited for answers, nothing failed and
nobody else removed a harvester; `SettledPageAgrees` is about such a user.

### Editor

One record, any number of windows and sessions.  `copy[s]` is the session
property `METADATA_EDITING`: elements with their refs; `before[s]` is
`METADATA_BEFORE_ANY_CHANGES`.  An element is known by a number of its own (`el`) that no
code sees, so that a property can say which element a ref meant.  A request goes through
stages.  A save: `Check` (version check and working copy), `Write` (commit), and with a
refresh, as `md.edit.save` forwards to `md.edit`, `Read` and `Load`.  `Load` is
apart from `Read` because the record is read at `DataManager.java:1850` and the
number taken at 1870.  Structural changes (`Change`) act on the working copy by
ref and carry no version.  `Expire` ends a login, after which every request is
answered by the login page (`LoginPage`), which the page takes for an answer
(`HearNoForm`, `HearNotSaved`, `HearAndClose`, `ChangedFields`).

An element has a text and a set of translations.  The form has an input `lang_` for a
translation that the record has not (`lang`), and `Translated` is what a save does with it: it is
added to the element in the working copy with an empty ref (`blank`), where it stays until
the form is loaded again.  As long as it is there `findMaximumRef` throws, so that an
addition (`Change`) fails when the new element is already in the working copy, without a
ref, and `geonet:info` is taken out of it.  `half` holds such elements, which the next
save stores, and `info` says whether `geonet:info` is there; without it, every addition and
removal fails.  A translation for an element that is not in the copy (`Strays`) ends the
save with some changes made in place (`Fail`, `PartlyChanged`), in whatever order the
parameters come.

`saves`, `base`, `crossed` and `loader` are history: how many saves were stored,
how many of them a session's working copy has seen, whether a save was between
check and commit when the copy was loaded, and who loaded last.  `orderly` is
about a session whose windows wait for answers and change elements only of the
form loaded last; the pages do not enforce it.

Simplified: an element has no children, and one text and one language besides it; all elements are of one
kind, so that a new one is the last of its siblings.  Left out are validation, status changes and
the minor flag of a save, and the XML fragments and XPath snippets among the changes of a save
(`AjaxEditUtils.java:125-151` and 240-262), which put elements without any ref into the working copy
(`findMaximumRef` does not mind those).

### SearchForm

`params`, `current` and `facetsParams` are the form; `GoesTo` is the change of the
address with both listeners in their order (`initSearchRouting`, which remembers the
search that is left, then the form's, which searches unless the new address is that
one).  `Triggers` is `triggerSearch`: another address is gone to (`GoesTo`); the address where the
page is already is searched again (`SendsAgain`), or not at all (`SendsNothing`).
An address holds the parameters of the form and, in `extra`, what a search adds to them
(`fast`, `similarity`, `_content_type`, `sortBy`), so that the first search of a query and its second have
different addresses.  `text` says whether the numbers in the address are text, as they are when it comes
from the browser and not from the form: then they equal no number of the form, and `triggerSearch`
sets the address to what it is and nothing happens.  `CloseRecord` goes back to `origin`, the page the
record was opened from: by `restoreSearch` if that is the search, else by the path.
`Restored` is the timeout of `restoreSearch`.
`Looked` and `Kept` are the loop of `removeFacetsFromParams`, which shortens the
array it is going through.  Lucene's answer is a constant, `Hits`; a page of results is
a range of positions in it.  `lastRequest` and `selection` are the session's; add-all selects the first
`SelectionMax` records of `lastRequest` (`AllSelected`), or none when its search throws (`SelectAllFails`),
and the page checks every box all the same; `cut` remembers that.

`orderly` is about a user who waits for every answer and does not use the
browser's history together with facets; `skipped` says that a search was left
out whose results are not those shown or on their way.

## 3. The runs

Passing runs (sizes are distinct states):

| Run | Instance | Shows |
|---|---|---|
| `harvester_safety` (510 000) | 1 one-run harvester, 3 requests, 2 firings, 2 records, all methods, both arguments of `stop` | `TypeOK ExclusiveHarvest ScheduledIsActive CancelHasCause`, and `HarvestsAreSerial`: refinement of `SerialHarvest` |
| `harvester_live` (64 000) | 1 harvester that is not run once, 2 requests, 2 firings, 1 worker, no `stop(active)`, no `destroy` | `ActiveIsScheduled DbStatusAgrees`, and under fairness `CallsReturn SerialHarvestsEnd` |
| `manager` (214 000) | 1 stored one-run harvester and 1 to add whose schedule never fires, 2 requests, 1 firing, all methods and operations, 2 crashes | `ManagerTypeOK RegistryAgrees RemovedIsClean ManagedScheduledIsActive RestartRestores`, and under fairness `OperationsReturn` |
| `csw_pages` (351 000) | 1 node, 2 uuids, pages of 1, 3 remote changes (deletions too), 1 failed search, unreadable summary, stop or deletion by a user | `DateTellsChange KeepsWhatIsOffered`, and under fairness `HarvestsEnd` |
| `csw_shared` (358 000) | 2 nodes, 1 uuid, every failure, no user deletions | `CswTypeOK OwnRecordsOnly`, and under fairness `Converges` |
| `editor_users` (2 828 000) | 2 windows of 2 users, 4 requests, 1 text or translation typed | `OneFormIsCurrent NoQuietOverwrite RefusedForCause` |
| `editor_session` (191 000) | 1 window, every click, 3 requests, 1 text or translation typed, the login may expire once | `EditorTypeOK RefsAreUnique FormMatchesCopy AcceptedIsStored ChangesFailForCause`, and under fairness `SavesSettle` |
| `harvest_page` (273 000) | 1 harvester and 1 to add, every button, 2 clicks, 1 failed request, 1 removal by somebody else, answers in any order | `PageTypeOK PollingIsAlive BlockedForCause SettledPageAgrees`, and under fairness `EndedIsShown` |
| `search_form` (2 282 000) | 3 records on pages of 1, at most 2 selected by add-all, 2 queries, 2 facets, 4 clicks, 1 failed request, answers in any order | `FormTypeOK PaginationAgrees ResultsAreOfAddress SelectionAgrees` |

Some properties hold only in an instance that leaves something out, and
what happens with it is in one of the two lists below: `ActiveIsScheduled` and
`DbStatusAgrees` need that nobody calls `stop(active)`, invokes a one-run
harvester or starts one whose schedule never fires (the object stays active when
`scheduleJob` has thrown), and the former that nobody destroys it; `OwnRecordsOnly` needs that users delete no harvested record during a
harvest; `DateTellsChange` needs remote dates that distinguish
the changes; with both user deletions and two nodes `Converges` does not hold
either, for a record updated by the wrong node keeps the newer date for ever.
Others carry their condition in their statement.  `orderly` stands for a user who waits
for answers, and `skipped` for a search that the page left out:
`RefusedForCause`, `FormMatchesCopy`, `AcceptedIsStored`, `ChangesFailForCause`, `SettledPageAgrees`,
`ResultsAreOfAddress` and `SelectionAgrees` are false without it, as the pages let
their users click on.  `OneFormIsCurrent`, `NoQuietOverwrite`, `RefsAreUnique`,
`PollingIsAlive`, `BlockedForCause` and the liveness properties ask nothing of the user.

Three of them say how far the code goes and not how far it should: `KeepsWhatIsOffered` names the three
ways in which a record that is still offered is removed (a failed search, an unreadable summary, a
page that shifted), `ChangesFailForCause` the one in which an addition or a removal of an orderly user fails (a translation
without a ref), and `SelectionAgrees` the boxes that are checked without being selected (those add-all
left out).  `BlockedForCause` holds although `deleting.indexOf(3)`
(`HarvestSettingsController.js:290`) finds nobody and takes the last entry: the button is blocked while
a removal is on its way and for good after one that failed, so that the list never has a second entry.

Runs that end in a counterexample.  Each one checks a sentence of the repository
that the code does not keep; `PROJECT.json` quotes them.

| Run | Sentence | What happens |
|---|---|---|
| `orphans` | removing a harvester removes its records | an execution that waits for the monitor stores new ones |
| `editor_race` | a save checks whether the record was modified since | a save committed between the reading of a form and its number, or between another save's check and its commit, is replaced |
| `search_skipped` | a search is skipped as its results are shown | the search that was left is remembered after the browser's back button, and skipped when other results are shown; the trace goes there by the browser's history, and the search button does too once the remembered address has the parameters that a search adds, that is, after one more search |

Other sentences that the modelled code does not keep.  The models contain the
steps, and the properties above are stated around them; no run is kept for them.
Files are named by their last part.

- `AbstractHarvester.java:371`, run answers "ALREADY_RUNNING if harvester is
  currently running": `run` is synchronized like `harvest`, so a caller waits for
  the harvest to end, never sees `running`, and triggers another harvest.
- `AbstractHarvester.java:369`, "Trigger a harvester job to run immediately":
  `update` deletes the job, and the trigger that has not fired with it (413).
- `services_harvesting.rst:560`, of a stopped harvester "it will no longer be
  executed at the scheduled time": an execution that waits for the monitor while
  `stop` has it harvests afterwards (542).
- `services_harvesting.rst:560`, stop "will *not* stop a harvester that is already
  performing a harvest": `stop` sets `cancelMonitor`, and the aligner leaves its loop
  (`csw/Aligner.java:186`).
- `settings/index.rst:151`, a one-run harvester "will harvest just once and then it
  will set the status to inactive": `invoke()` on an active one puts the old status back
  in its `finally` block (396), after the harvest's own `stop`.
- `settings/index.rst:156`, active is "waiting for the next scheduled harvest":
  `stop(ACTIVE)` on a harvester that is inactive makes it active without a job (363).
- `HarvestManager.java:85`, clearBatch will "Remove all metadata associated to one
  harvester": it deletes without the harvester's monitor (`HarvestManagerImpl.java:629`)
  and a harvest may begin before it answers.
- `HarversterJobListener.java:51`, "Null harvester should not happen": `init` schedules a
  job (125) before it puts the harvester into the maps (127-128).
- `harvesting/index.rst:35`, harvesting will "remove it locally if it has been removed
  remotely": a search that fails is caught (`csw/Harvester.java:109-120`) and what it
  returned so far is aligned, which removes the rest.  Also, pages are requested by
  position (300-303), and a remote deletion between two pages shifts a record past
  the reader; its local copy is removed.
- `harvesting/index.rst:55-56`, harvesting goes on until "An exception arises. In this case the harvester is
  automatically stopped": the exception is caught (`AbstractHarvester.java:569-584`), and the harvester stays
  active and scheduled; a one-run harvester does so too, as the exception skips its own stop (`HarvestFails`).
  `Converges` is therefore conditional: if every node's harvests keep beginning.
- `RecordInfo.java:104`, "we accept metadata modified from 24 hours before to harvest
  several changes during a day (if short date format used)": equal dates have returned
  before that (100-102), so the second change of a day is not harvested.
- `csw/Aligner.java:298`, "Skipped metadata managed by another harvesting node": the
  map that decides is read at the start of `align`; a record deleted meanwhile and
  inserted again by another node is updated as if it were the node's own.
- `SearchFormDirective.js:181`, "the triggerSerach call will in fact just update the url with the params, then the
  event $locationChangeSuccess will call the geonetwork search" (162-164): with the numbers of the address as text, after
  the browser's back button, the url is not updated and the search button does nothing, once.
- `en-shared.json:59`, "Your session has expired. Please reload page to start a new
  session.": every failed save shows it, since the condition is an assignment
  (`EditorController.js:418` and 480, `error.msg = 'loggedout'`).
- `en-admin.json:936`, "Update harvester": the button saves with `harvesterNew` still
  set until the list has come back; when it does not, or the button is
  used before, the harvester is added a second time.

Behaviour of the modelled code that no sentence of the repository is about, and that surprised while modelling:

- `EditLib.java:1403`, adding an element: after a save that added a translation it fails until the
  form is loaded again, the new element is in the working copy without being
  shown, and the next save stores it; every later addition or removal fails as well (`geonet:info` is gone).
- `EditUtils.java:349-416`, the inputs for translations: one that is emptied is not sent on (`EditUtils.java:354`), so that the old
  translation stays; and `ISO19139cheSchemaPlugin.java:34-51` answers null where a translation
  exists, so that each save of the same form adds another.
- `SelectionDirective.js:86`, select all: the page checks every box shown, while the session selects at most
  `selectionManager/maxrecords` records of its last search (`SelectionManager.java:219-226`, 257), and none when that
  search throws (245-247, 265-267), which is logged and answered with success.

**Bounds.**  Harvesters share only the worker pool and the manager's monitor, so
one is enough for what concerns its own monitor, and two for the monitor of the
manager.  Two requests are a call and one that interferes with it;
`harvester_safety` has a third that interferes with both, and so has a firing in every
run. Two firings are an execution and one that follows or waits behind it.  One or two records make "some done, some left" possible.
Two or three remote changes (`MaxClock`) and one or two disturbances (`MaxDisturbed`) suffice for one event
before and one after each point of a harvest; pages of one record with two
uuids put a page boundary between them.  Two crashes include one
during a restart.  `Day = 2` ticks puts changes within and beyond the tolerance
of `isMoreRecentThan`.

In the editor `MaxRequests` counts the requests ever sent and `MaxTyped` the texts ever typed.  Four
requests are two forms and two saves, the least that lets two users overwrite
each other, and leave no room for more of both; that is what the proofs
are for.  Three requests of one window are a form, a change and a save, or a
form, a save with a translation and an addition that fails.  On the harvester page
two clicks with one failure and one foreign event bring any two handlers
together in any order, with the polls and the reloads of the list that they set off, which
are not bounded by a count.  On the search page four clicks
reach a search, a facet, a record opened and the return; three records on pages of
one have a first, a middle and a last page, and a selection of at most two leaves one of them out.  Symmetry is used only in
runs without liveness.

**Fairness.**  Weak fairness for each request and each job in execution: they
are threads of the container and of the Quartz pool, which run.  No fairness for
the firing of a trigger, for failures, for new requests or for the remote
catalogue.  Inside `harvest()` a step is always possible since a request to a remote server
ends with an answer or an exception.  A monitor is not handed out in order; as
the number of threads is finite, weak fairness is enough.  `CswFairSpec` is
weakly fair to a harvest that is on, and not to the beginning of another: a stop deletes the job
(`AbstractHarvester.java:357-361`).  `HarvestsEnd` needs no more; `Converges` has as its condition that harvests
keep beginning at every node.  `EditorFairSpec` is weakly fair to the work of the server and the
callbacks together: some request that can go on does; as the requests are finitely many and each
ends, all do.  `PageFairSpec` says that timers run out and that requests of each kind
are handled and their answers received, which a browser guarantees for a
request that does not fail; a failure is an answer too.  Nobody is made to click,
and a harvest is not made to end.  `SearchForm` states no liveness.

## 4. The proofs

The theorems hold for any value of the constants, from the named assumptions of the
models (sets of harvesters, requests and firings that do not overlap, null values that
are in none of them and are no form, list, search or results either, options within their ranges).
Every invariant that a passing run checks is stated by one.

| Module | Theorem | Property |
|---|---|---|
| `Harvester_proofs` | `TypeCorrect` | `TypeOK` |
| | `HarvestIsExclusive` | `ExclusiveHarvest` |
| | `JobIsOfActive` | `ScheduledIsActive` |
| | `CancellationHasCause` | `CancelHasCause` |
| | `StoredStatusAgrees` | `Calm => DbStatusAgrees` |
| | `ActiveHasJob` | `Calm /\ Keeping => ActiveIsScheduled` |
| `HarvesterSerial_proofs` | `HarvesterIsSerial` | `HarvestsAreSerial` |
| `HarvestManager_proofs` | `ManagerTypeCorrect` | `ManagerTypeOK` |
| | `RegistryIsStored` | `RegistryAgrees` |
| | `RemovedLeavesNothing` | `RemovedIsClean` |
| `HarvestRestart_proofs` | `ManagedJobIsOfActive` | `ManagedScheduledIsActive` |
| | `RestartIsComplete` | `RestartRestores` |
| `CswHarvest_proofs` | `CswTypeCorrect` | `CswTypeOK` |
| | `OwnRecordsAreKept` | `OwnOnly => OwnRecordsOnly` |
| | `OfferedIsKept` | `KeepsWhatIsOffered` |
| | `DatesTellChanges` | `Exact /\ OwnOnly => DateTellsChange` |
| `Editor_proofs` | `CurrentFormIsOfLoader` | `OneFormIsCurrent` |
| | `SavesAreSeen` | `NoQuietOverwrite` |
| | `EditorTypeCorrect` | `EditorTypeOK` |
| | `RefsStayUnique` | `RefsAreUnique` |
| | `FormShowsCopy` | `FormMatchesCopy` |
| | `AcceptedSavesAreStored` | `AcceptedIsStored` |
| | `OrderlySavesAreTaken` | `RefusedForCause` |
| `HarvestPage_proofs` | `PollingGoesOn` | `PollingIsAlive` |
| | `BlockedAsLongAsNeeded` | `BlockedForCause` |
| | `PageTypeCorrect` | `PageTypeOK` |
| | `SettledPageIsTrue` | `SettledPageAgrees` |
| `SearchForm_proofs` | `PagesBelongToResults` | `PaginationAgrees` |
| | `SearchTypeCorrect` | `FormTypeOK` |
| | `ResultsFollowAddress` | `ResultsAreOfAddress` |
| | `SelectionIsShown` | `SelectionAgrees` |

**Harvester.**  The invariant is built in layers, each inductive relative to those
before.

1. `TypeInv`: `TypeOK`, and a started thread has a harvester.
2. `MonitorInv`: the monitor is owned exactly by the thread inside `harvest()`,
   and `running` is on only while it is owned.  `ExclusiveHarvest` alone is not
   inductive: a thread that begins a harvest must know that a free monitor means
   that nobody harvests.  Steps that neither take nor give it back are dealt with
   once (`OutsideKeepsMonitor`).
3. `ScheduleInv`: `ScheduledIsActive`, and no job exists for a harvester whose
   status an `invoke()` in progress is going to lower (`Lowering`).  The second
   part is what makes the `finally` block of `invoke()` safe, and it is kept because
   `start`, `run` and `update`, the only calls that schedule, need the monitor
   (`ScheduledWhileFree`).
4. `CancelInv`: `CancelHasCause` restated.  Relative to `MonitorInv` it is
   inductive as it stands: `stop()` leaves the list of causes only with the monitor
   in hand, when no harvest is on.

*Status.*  `Calm` says that no schedule is refused and that `invoke` is not called when there are
one-run harvesters; `Keeping` that `stop` only deactivates and nobody destroys.  Both are conditions
on constants, and the list of section 3 says what happens without them.  `DbStatusAgrees`
speaks of moments at which nobody is inside an operation, which no step preserves by itself;
`AgreeInv` and `KeptInv` say the same at any time of `Settled(h)`, the status that h has once an
`invoke` in progress has put the old one back.

*Refinement.*  The phase of the abstract harvest is read off the monitor: a
harvester whose monitor is free is idle, else the state of the
thread that owns it gives the phase (`PhaseIs`, from `MonitorInv`).  Every
action of `Harvester` is then either the abstract action of the same name or leaves the
abstract variables alone, because what it changes it changes while the
monitor is free.

**HarvestManager.**  The methods of a harvester are the same actions as in `Harvester`, but the
manager takes part in them, so that the invariants are proved again over crashes and restarts.
`ObjectThread` and `ObjectTouches` say once what a method may change; each layer then deals with
methods, operations of the manager, crash and `init` as a whole.

1. `TypeInv` and `ManagerMonitor`: the manager's monitor is owned by the one request inside `update`,
   `clearBatch` or `remove`, which is how the definitions model `synchronized` and no result of its own.
2. `RegistryInv`: what `RegistryAgrees` leaves open while somebody adds or removes is filled in.
   Two requests never add the same harvester, one that is being added is in no map, the owner of
   the manager's monitor works on a registered harvester, and before `RemoveUnregisters` the row
   is gone.  While `init` runs, the rows are those loaded and those still to load.
3. `CleanInv`: of a harvester that is gone, or being removed past its `destroy`, there is no job and
   no record, and every thread that refers to it, and is not one of `late`, is at a place where it
   does nothing to it (`HarmlessPCs`).  The last part is what `RemovedIsClean` does not say and needs.
4. `KnownInv`, `HolderInv`, `ScheduleInv`: threads and jobs belong to harvesters known to the map by
   uuid, or to the one that `init` has just built; whoever is inside `harvest()` owns the monitor;
   and `ScheduledIsActive` as in `Harvester`.
5. `RestartInv`: while `init` runs, what it has loaded is as stored.  No request has come yet,
   and a job that fires meanwhile changes the status of its harvester only together with the row and the job.

**CswHarvest.**  Two conditions on constants stand in the theorems.  `OwnOnly`: users delete no
records, or there is one node only.  `Exact`: remote dates tell any two changes apart.
(The names stand for the `ASSUME` of the theorems.)  Section 3 says what happens without them.

- `IdInv`: the ids of a uuid only grow, so a record whose id is still the mapper's is the node's own.
  This makes the deletions of the first loop safe, whatever others do.
- `SnapshotInv`: a record that the mapper knows and the search has found stays the node's own
  until the harvest ends, as only the node itself would remove it, and does not, since it was found.
  It makes the updates safe, which look the id up again.
- `SearchInv`: of the uuids offered all the time and not overlooked, those not found yet are on a page that has still to be
  requested.  A record that is added moves the others towards later pages only; one that is deleted from a page
  read before moves exactly one record onto a page that was read, the one `Shifted` names.
- `DateInv`: date found <= change whose content was fetched <= last change; with `SnapshotInv` the
  content of a copy is always from its owner's catalogue.

**Editor.**  `VersionInv`: every version in a form, in an answer or in a save on
its way is at most the current one, and whatever carries the current one is `Owned` by `loader`.
`SeenInv` relates the histories: a session whose form is current has in its working copy every save
that was stored, or a save crossed.  What makes it inductive is that
a save is not one step: between `Check` and `Write` the
version may move on and other saves be committed, and each of those marks the
waiting ones as crossed.

`RefsInv` is about types and refs together: a request in flight carries a form, an answer or a record,
and a working copy is made of what it carries.  Two facts about requests are needed with the types: what passed
the version check is a save, and the answer to an addition holds the new element.  That refs stay
different rests on lemmas about sequences: `findMaximumRef` exists and exceeds every ref (`MaximumRefIs`, from a
bound that every sequence of numbers has), and removal and exchange carry different refs to different places; what a
save changes, a failed one included, are texts and translations (`ApplyIs`, `PartlyIs`), and an addition that
fails adds to `half`, not to the numbered elements.

`OrderInv` is about a session whose user waits for answers.  Either nothing of the session is under way, and
the form that can be saved shows the working copy (`Idle`), or one request is, and what its
answer will make of the form is what the working copy is or will be by then (`Busy`, per kind and stage of the request).
`FormMatchesCopy` alone is not inductive: the page edits its form by its own account of the answer (an element
inserted, taken out, exchanged), the server edits the copy by the refs, and the two agree only because they began alike
and the refs are unique.  `LoginInv` adds that an expired session has no working copy and which answers a
request can have.  From `OrderInv` a save carries the elements of the copy under their refs, so that the change map skips none
(`AcceptedIsStored`), and the version check refuses it only if another window has loaded (`RefusedForCause`).  The lemmas about
sequences say that find, insert, remove, exchange and replace do the same to two sequences with the same refs.

**HarvestPage.**  `PageShape` says that there is at most one unanswered poll, and one exactly when
`polling` is set; `PollInv` that a running harvester in the list has a poll or a
timer, unless the last poll was lost.  Every callback that replaces the list also
calls `pollHarvesterStatus`, which is why the invariant is not broken by a list that arrives late.
`BlockInv` says, per button, which of three things is the case (`SlotOK`): it is free and has neither a request nor a failure,
or it is busy with its one request, or it is busy for good by one that failed.  For the removals it says in addition what the
list `deleting` is (`DeletingOK`): the harvester of that one request and nothing else, so that `splice` takes the right entry
out.  The set of its entries, of which `BlockedForCause` speaks, would not survive the answer.  Requests that are alike are told apart by a number, and there are
more numbers than requests (`WithIsNumbered`, a pigeonhole).

`TypeInv` needs two facts besides types: the answer to an addition has a harvester, whose id the form takes; and an entry
of the list that is the form is in the list that is shown (`PageShape`), so that an edit is one of a harvester.

`OrderInv` is about the user who waits.  A click sets off a chain of requests (a save, the list, the selected harvester, its
history); at any time at most one of them is under way, apart from polls and the schedule of a save, which nobody waits for
(`Calls`).  `SettledPageAgrees` speaks of the end of a chain only; `Busy` says, per kind and stage of the request, what
the list, the form and the buttons may be meanwhile, and what the answer will find.  After an addition, for example,
the form has its id but is still a new one, and that is mended only because the list that is coming has
this id, so that it will be selected.  Polls, schedules, and harvests that start and end, change no part of it
(`SameSettled`); that an answer to a poll finds a list of other harvesters does no harm.

**SearchForm.**  `SearchInv`: every search, sent or in an address, begins at the first record of a page
(`Aligned`), so that `PageFrom` finds the page whatever the page size (`FirstOfPage`); `searching` is at least the
number of searches on their way (`Loading`), so that at 0 none is, and the search that is left out when
coming back is the one shown.  That the page is one of the pages there are
follows from its showing a record (`LastPage`).

`TypeInv` adds the types of searches and results, and that the page of a search is a page there can be.  That
the parameters of a search stay a sequence of facets without repetition, whichever one is taken out, is a lemma.
Every request carries a number (`WithIsNumbered`, the pigeonhole again).

`OrderInv` is about the user who waits.  At most one request of his is under way, and what its answer will make of the
check boxes and of the count is what the session holds by then (`Settled`, per kind and stage of the
request): the boxes alone agree only between requests.  The last search sent is the one shown or still
coming, and is that of the address (`AddressShown`), unless it was skipped because the address already was the one
searched or was left; and closing a record that was opened from the search goes back to an address that is not searched again
because it is shown (`LeftInv`: the search that was left is then the one remembered).  The boxes are those of the selection except
for what `cut` leaves out (`Marked`).

Liveness under fairness is out of the prover's reach and is model-checked only: `CallsReturn`, `SerialHarvestsEnd`,
`OperationsReturn`, `HarvestsEnd`, `Converges`, `SavesSettle` and `EndedIsShown`.  So are the action property
`ChangesFailForCause` and the runs that end in a counterexample.

## 5. What is not modelled

`PROJECT.json` lists every component with its status.

- *Libraries in the repository.*  Most of the roughly one million lines are copies of third-party
  JavaScript, in several builds each: ngeo (130 000 lines), OpenLayers
  (110 000), ExtJS (two builds, 131 000), AngularJS, the minified or concatenated
  applications of the legacy client, and the Z39.50 and XML schema data.  The models use what
  the pages need of them (promises, `$location`, timers) as it is used, and do not model them.
  For that reason the models cover a small part of the lines however completely the
  modelled components are treated.
- *Other harvester types*: OAI-PMH, GeoNetwork, WebDAV, WFS, THREDDS, OGC WxS, Z39.50, GeoPREST,
  ArcSDE, GeoNetwork 2.0.  `Harvester` holds for each of them, as it is about `AbstractHarvester`; their
  search and alignment are not modelled.
- *Of the modelled harvesting*: schedules as strings (`QuartzSchedulerUtils.getTrigger`; the models take
  its result); categories, groups and privileges of harvested records, XSL
  filters, validation and duplicate detection (all of them a record that is
  skipped); read-only mode; data races on the unsynchronized `HashMap`s of the
  manager (a put and a get are atomic).
- *Of the modelled pages*: the map, layout and messages; in the editor batch editing, validation, thumbnails and
  related records, each a request with a reload of the form; on the harvester page the forms of the
  harvester types, which are data to it; on the search page sorting and extents, which are
  parameters like the query, the order of facets in an address (two orders are one address here), and the lists of records
  on the home page, whose searches are the session's last one too (`XmlSearch.java:100`); `OtherSearch` stands for them.
- *Services and storage*: DataManager beyond the editing session and the alignment, the Lucene index and its
  near-real-time searchers, the caches, the CSW server, the OAI-PMH provider, shared objects, thesauri,
  the other administration pages, and the legacy web application.

## 6. Left for later

1. *Schedules*: `QuartzSchedulerUtils.getTrigger` over tokens, in
   32-bit arithmetic, against a reference definition of the period (the unit words
   are added up in seconds and used as milliseconds).
2. *OAI-PMH harvesting*: resumption tokens, from/until windows, deleted records,
   with the same catalogue state as `CswHarvest`; then an abstract specification of
   "a local copy follows a remote catalogue" that both implement.  *GeoNetwork harvesting*:
   the same alignment with MEF transfer.
3. *OAI-PMH provider*: `ResumptionTokenCache`, its bound and expiry against
   clients that come back late.
4. *Formatter cache*: memory cache over a bounded store, validators, the
   asynchronous writer; hits never older than the record.
5. *Near-real-time index*: searchers per version token, acquire and release
   against commits.  *Batch indexing*: `IndexMetadataTask` and the transaction it waits for.
