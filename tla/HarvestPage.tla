----------------------------- MODULE HarvestPage -----------------------------
(***************************************************************************)
(* The harvester administration page (HarvestController.js and             *)
(* HarvestSettingsController.js): the list of harvesters, the form of the  *)
(* selected one, its history, the buttons of the toolbar, and the polling  *)
(* of the harvesters that run.                                             *)
(*                                                                         *)
(* The page never waits: every click sends its requests, and the callback  *)
(* of an answer changes whatever the page shows by then.  Answers arrive   *)
(* in any order, and any request may fail.  What the harvesters are on the *)
(* server is kept to what the page can see of it; other administrators and *)
(* the scheduler change it at any time.                                    *)
(***************************************************************************)
EXTENDS Naturals, FiniteSets, SequencesExt, Functions

CONSTANTS
  Ids,          \* the ids harvesters may have
  Existing,     \* the harvesters there are when the page is opened
  Clicks,       \* what the user does, besides selecting a harvester
  MaxClicks,    \* bound: clicks
  MaxFailures,  \* bound: requests that fail
  MaxOthers,    \* bound: harvests that start, and harvesters removed by somebody else
  NewId,        \* the id of a form that was never saved, ''
  None          \* nothing is shown

AllClicks == {"new", "edit", "save", "run", "stop", "clear", "remove", "clone", "refresh"}
Buttons   == {"save", "run", "stop", "clear", "remove"}
Kinds     == {"list", "poll", "load", "history", "schedule", "add", "update",
              "run", "stop", "clear", "remove", "clone"}

ASSUME IdAssumption    == Existing \subseteq Ids /\ NewId \notin Ids /\ None \notin Ids
                          /\ NewId # None
ASSUME ClickAssumption == Clicks \subseteq AllClicks
ASSUME BoundAssumption == /\ MaxClicks \in Nat /\ MaxFailures \in Nat
                          /\ MaxOthers \in Nat

VARIABLES
  server,     \* the harvesters: are they active, do they run?
  made,       \* the ids given so far: an id is never given again
  list,       \* $scope.harvesters
  polling,    \* isPolling
  timers,     \* calls of pollHarvesterStatus that setTimeout will make
  form,       \* $scope.harvesterSelected
  isNew,      \* $scope.harvesterNew
  loadingOne, \* $scope.isLoadingOneHarvester
  history,    \* whose history $scope.harvesterHistory is
  deleting,   \* $scope.deleting
  stopping,   \* $scope.stopping
  busy,       \* buttons that gnClickAndSpin disabled
  requests,   \* those not answered yet, with numbers to tell them apart
  clicks, failures, others,  \* counted for the bounds
  pollLost,   \* history: has the last poll failed?
  failed,     \* history: the requests that failed, their kinds and what they were about
  orderly     \* history: did the user wait for answers, nothing fail, nobody else remove?

listVars    == <<list, polling, timers>>
formVars    == <<form, isNew, loadingOne, history>>
buttonVars  == <<deleting, stopping, busy>>
counters    == <<clicks, failures, others>>
historyVars == <<pollLost, failed, orderly>>
serverVars == <<server, made>>
vars == <<serverVars, listVars, formVars, buttonVars, requests, counters, historyVars>>

Status     == [active : BOOLEAN, running : BOOLEAN]
Harvesters == UNION {[S -> Status] : S \in SUBSET Ids}
ASSUME NoneAssumption == None \notin Harvesters
Form       == [id : Ids \cup {NewId, None}, active : BOOLEAN, running : BOOLEAN,
               listed : BOOLEAN]  \* is it the very object that is in the list?
Request    == [n : Nat, kind : Kinds, id : Ids \cup {NewId, None}, ids : SUBSET Ids,
               active : BOOLEAN, after : {"nothing", "refresh", "select"},
               stage : {"sent", "handled", "failed"},
               found : Harvesters]   \* what the answer says of harvesters

PageTypeOK ==
  /\ server \in Harvesters /\ made \subseteq Ids
  /\ list \in Harvesters \cup {None}
  /\ polling \in BOOLEAN /\ timers \in Nat
  /\ form \in Form /\ isNew \in BOOLEAN /\ loadingOne \in BOOLEAN
  /\ history \in Ids \cup {NewId, None}
  /\ deleting \in Seq(Ids) /\ stopping \in BOOLEAN /\ busy \subseteq Buttons
  /\ requests \subseteq Request
  /\ clicks \in 0 .. MaxClicks /\ failures \in 0 .. MaxFailures /\ others \in 0 .. MaxOthers
  /\ pollLost \in BOOLEAN /\ failed \subseteq Kinds \X (Ids \cup {NewId, None})
  /\ orderly \in BOOLEAN

----------------------------------------------------------------------------
\* Requests.

Blank(kind) == [n |-> 1, kind |-> kind, id |-> None, ids |-> {}, active |-> FALSE,
                after |-> "nothing", stage |-> "sent", found |-> <<>>]
About(kind, id) == [Blank(kind) EXCEPT !.id = id]
InFlight(k) == {r \in requests : r.kind = k}
Waiting     == {r \in requests : r.kind # "poll"}
\* One more request; those that are alike are told apart by a number.
With(pending, r) ==
  pending \cup {[r EXCEPT !.n = CHOOSE n \in 1 .. Cardinality(pending) + 1 :
                                   [r EXCEPT !.n = n] \notin pending]}

NoForm == [id |-> None, active |-> FALSE, running |-> FALSE, listed |-> FALSE]
FormOf(id, status, listed) ==
  [id |-> id, active |-> status.active, running |-> status.running, listed |-> listed]
\* The list the form was an entry of is not the one that is shown any more.
Unlisted(f) == [f EXCEPT !.listed = FALSE]

----------------------------------------------------------------------------
\* The list, and polling.

ShownRunning(l) == IF l = None THEN {} ELSE {h \in DOMAIN l : l[h].running}

\* pollHarvesterStatus, with l for the list: asks for those that run, unless
\* that was asked already.
MustPoll(l) == ~polling /\ ShownRunning(l) # {}
WithPoll(pending, l) ==
  IF MustPoll(l) THEN With(pending, [Blank("poll") EXCEPT !.ids = ShownRunning(l)])
                 ELSE pending
PollHarvesterStatus(l) ==
  /\ polling'  = (polling \/ MustPoll(l))
  /\ pollLost' = (pollLost /\ ~MustPoll(l))

\* loadHarvesters: the list is emptied until the answer is there.
LoadHarvesters(pending, after, id) ==
  /\ list' = None
  /\ requests' = With(pending, [About("list", id) EXCEPT !.after = after])

\* The answer to loadHarvesters: an empty list of harvesters is "null".
ListOf(found) == IF found = <<>> THEN None ELSE found
\* Mutant of ToSelect: only a clone is selected.
ToSelectClone(r, l) ==
  IF l = None THEN {} ELSE {h \in DOMAIN l : r.after = "select" /\ h = r.id}
\* What then() does with the new list: select the clone, or the selected one again.
ToSelect(r, l) ==
  IF l = None THEN {}
  ELSE {h \in DOMAIN l : \/ r.after = "refresh" /\ h = form.id
                         \/ r.after = "select"  /\ h = r.id}

\* selectHarvester: the entry of the list becomes the form until the harvester
\* is loaded.
Selected(h, l) ==
  /\ form' = FormOf(h, l[h], TRUE)
  /\ isNew' = FALSE /\ history' = None /\ loadingOne' = TRUE

ReceiveList(r) ==
  LET l == ListOf(r.found)
      select == ToSelect(r, l)
      rest == WithPoll(requests \ {r}, l)
  IN  /\ list' = l
      /\ PollHarvesterStatus(l)
      /\ IF select = {}
         THEN /\ form' = Unlisted(form) /\ requests' = rest
              /\ UNCHANGED <<isNew, loadingOne, history>>
         ELSE \E h \in select : Selected(h, l) /\ requests' = With(rest, About("load", h))
      /\ UNCHANGED <<timers, buttonVars>>

\* Mutant of Polled: only harvesters that run are updated.
PolledRunning(l, r) ==
  IF l = None THEN None
  ELSE [h \in DOMAIN l |->
         IF h \in DOMAIN r.found /\ r.found[h].running THEN r.found[h] ELSE l[h]]
\* The status of what was polled, for the harvesters that are still listed.
Polled(l, r) ==
  IF l = None THEN None
  ELSE [h \in DOMAIN l |->
         IF h \in DOMAIN r.found THEN [l[h] EXCEPT !.running = r.found[h].running]
                                 ELSE l[h]]

ReceivePoll(r) ==
  /\ polling' = FALSE
  /\ list' = Polled(list, r)
  /\ form' = IF form.listed /\ form.id \in DOMAIN r.found
             THEN [form EXCEPT !.running = r.found[form.id].running] ELSE form
  /\ timers' = timers + 1
  /\ requests' = requests \ {r}
  /\ UNCHANGED <<isNew, loadingOne, history, buttonVars, pollLost>>

\* The five seconds are over.
PollAgain ==
  /\ timers > 0
  /\ timers' = timers - 1
  /\ PollHarvesterStatus(list)
  /\ requests' = WithPoll(requests, list)
  /\ UNCHANGED <<serverVars, list, formVars, buttonVars, counters, failed, orderly>>

----------------------------------------------------------------------------
\* What the user does.

Init ==
  /\ server \in [Existing -> Status] /\ made = Existing
  /\ list = None /\ polling = FALSE /\ timers = 0
  /\ form = NoForm /\ isNew = FALSE /\ loadingOne = FALSE /\ history = None
  /\ deleting = <<>> /\ stopping = FALSE /\ busy = {}
  /\ requests = {Blank("list")}
  /\ clicks = 0 /\ failures = 0 /\ others = 0
  /\ pollLost = FALSE /\ failed = {} /\ orderly = TRUE

\* An orderly user waits until nothing but polls is on its way.
Click ==
  /\ clicks < MaxClicks /\ clicks' = clicks + 1
  /\ orderly' = (orderly /\ Waiting = {})
  /\ UNCHANGED <<serverVars, polling, timers, failures, others, pollLost, failed>>

Select(h) ==
  /\ list # None /\ h \in DOMAIN list
  /\ Click /\ Selected(h, list)
  /\ requests' = With(requests, About("load", h))
  /\ UNCHANGED <<list, buttonVars>>

\* The form of createNew() is active.
New ==
  /\ "new" \in Clicks /\ Click
  /\ form' = FormOf(NewId, [active |-> TRUE, running |-> FALSE], FALSE)
  /\ isNew' = TRUE /\ history' = None
  /\ UNCHANGED <<list, loadingOne, buttonVars, requests>>

\* The user switches the schedule of the form on or off; the form may still be
\* the entry of the list.
Edit ==
  /\ "edit" \in Clicks /\ form.id # None /\ ~loadingOne /\ form.id \notin ToSet(deleting)
  /\ Click
  /\ form' = [form EXCEPT !.active = ~@]
  /\ list' = IF form.listed THEN [list EXCEPT ![form.id].active = ~form.active] ELSE list
  /\ UNCHANGED <<isNew, loadingOne, history, buttonVars, requests>>

\* A button of the toolbar, with the mouse: gnClickAndSpin takes pointer events from
\* it until its request succeeds.
Press(button) ==
  /\ button \in Clicks \ busy
  /\ form.id # None /\ ~loadingOne /\ form.id \notin ToSet(deleting)
  /\ Click
  /\ busy' = busy \cup {button}
OfForm(kind) == [About(kind, form.id) EXCEPT !.active = form.active]
Asks(kind)   == requests' = With(requests, OfForm(kind))

\* admin.harvester.add or admin.harvester.update
SaveKind == IF isNew THEN "add" ELSE "update"

\* An id is left for one more harvester.
RoomFor(kind) ==
  kind = "add" =>
    Cardinality(made) + Cardinality({r \in InFlight("add") \cup InFlight("clone") :
                                       r.stage = "sent"}) < Cardinality(Ids)

\* saveHarvester: the schedule is set by a request of its own, for which the
\* save does not wait.
Save ==
  /\ Press("save") /\ RoomFor(SaveKind)
  /\ requests' = With(With(requests, OfForm("schedule")), OfForm(SaveKind))
  /\ UNCHANGED <<list, formVars, deleting, stopping>>

Run ==
  /\ Press("run") /\ form.id # NewId /\ ~form.running
  /\ Asks("run")
  /\ UNCHANGED <<list, formVars, deleting, stopping>>

Stop ==
  /\ Press("stop") /\ form.id # NewId /\ form.running /\ ~stopping
  /\ stopping' = TRUE
  /\ Asks("stop")
  /\ UNCHANGED <<list, formVars, deleting>>

DeleteRecords ==
  /\ Press("clear") /\ form.id # NewId /\ ~form.running
  /\ Asks("clear")
  /\ UNCHANGED <<list, formVars, deleting, stopping>>

\* Mutant of DeleteHarvester: the button is there for a new harvester, too.
DeleteAnyForm ==
  /\ Press("remove") /\ ~form.running
  /\ deleting' = Append(deleting, form.id)
  /\ Asks("remove")
  /\ UNCHANGED <<list, formVars, stopping>>
DeleteHarvester ==
  /\ Press("remove") /\ form.id # NewId /\ ~form.running
  /\ deleting' = Append(deleting, form.id)
  /\ Asks("remove")
  /\ UNCHANGED <<list, formVars, stopping>>

Clone(h) ==
  /\ "clone" \in Clicks /\ list # None /\ h \in DOMAIN list
  /\ RoomFor("add") /\ Click
  /\ requests' = With(requests, About("clone", h))
  /\ UNCHANGED <<list, formVars, buttonVars>>

\* refreshHarvester
Refresh ==
  /\ "refresh" \in Clicks /\ list # None /\ Click
  /\ LoadHarvesters(requests, "refresh", None)
  /\ form' = Unlisted(form)
  /\ UNCHANGED <<isNew, loadingOne, history, buttonVars>>

----------------------------------------------------------------------------
\* The server.

Answered(r, found) ==
  requests' = With(requests \ {r}, [r EXCEPT !.stage = "handled", !.found = found])
Refused(r) == requests' = With(requests \ {r}, [r EXCEPT !.stage = "failed", !.found = <<>>])

ReadsOf(r) == CASE r.kind = "list" -> DOMAIN server
                [] r.kind = "poll" -> r.ids
                [] r.kind = "load" -> {r.id}
\* admin.harvester.list: one harvester that does not exist fails the whole request.
HandleRead(r) ==
  /\ r.kind \in {"list", "poll", "load"}
  /\ IF ReadsOf(r) \subseteq DOMAIN server THEN Answered(r, Restrict(server, ReadsOf(r)))
                                           ELSE Refused(r)
  /\ UNCHANGED serverVars

SetActive(id, active) ==
  server' = [h \in DOMAIN server |->
              IF h = id THEN [server[h] EXCEPT !.active = active] ELSE server[h]]

\* admin.harvester.start, .run and .stop: an unknown id, that of an unsaved form
\* included, is no failure.  What a run triggers begins later, and what a stop
\* cancels ends later.  Nothing is done with the answer to a schedule.
HandleStatus(r) ==
  /\ r.kind \in {"schedule", "run", "stop"}
  /\ SetActive(r.id, r.active \/ r.kind = "run")
  /\ IF r.kind = "schedule" THEN requests' = requests \ {r} ELSE Answered(r, <<>>)
  /\ UNCHANGED made

\* admin.harvester.update, .clear and .history change and answer nothing of
\* what is modelled: when they are handled does not matter.
IsAnswered(r) == r.stage = "handled" \/ r.kind \in {"update", "clear", "history"}

HandleRemove(r) ==
  /\ r.kind = "remove"
  /\ server' = Restrict(server, DOMAIN server \ {r.id})
  /\ Answered(r, <<>>)
  /\ UNCHANGED made

\* admin.harvester.add and .clone: a new harvester is inactive.
HandleAdd(r) ==
  \/ /\ r.kind \in {"add", "clone"} /\ (r.kind = "clone" => r.id \in DOMAIN server)
     /\ \E h \in Ids \ made :
          LET new == [active |-> FALSE, running |-> FALSE]
          IN  /\ server' = [x \in DOMAIN server \cup {h} |-> IF x = h THEN new ELSE server[x]]
              /\ made' = made \cup {h}
              /\ Answered(r, [x \in {h} |-> new])
  \/ /\ r.kind = "clone" /\ r.id \notin DOMAIN server
     /\ Refused(r)
     /\ UNCHANGED serverVars

Handle(r) ==
  /\ r.stage = "sent"
  /\ \/ HandleRead(r) \/ HandleStatus(r) \/ HandleRemove(r) \/ HandleAdd(r)
  /\ UNCHANGED <<listVars, formVars, buttonVars, counters, historyVars>>

\* A request or its answer is lost, or the service fails.
Fail(r) ==
  /\ failures < MaxFailures /\ failures' = failures + 1
  /\ r.stage # "failed" /\ Refused(r)
  /\ orderly' = FALSE
  /\ UNCHANGED <<serverVars, listVars, formVars, buttonVars, clicks, others, pollLost, failed>>

Unseen(h) ==
  /\ h \in DOMAIN server
  /\ UNCHANGED <<made, listVars, formVars, buttonVars, requests, clicks, failures,
                 pollLost, failed>>
Other == others < MaxOthers /\ others' = others + 1

HarvestStarts(h) ==
  /\ Unseen(h) /\ Other
  /\ server[h].active /\ ~server[h].running
  /\ server' = [server EXCEPT ![h].running = TRUE]
  /\ UNCHANGED orderly
HarvestEnds(h) ==
  /\ Unseen(h)
  /\ server[h].running
  /\ server' = [server EXCEPT ![h].running = FALSE]
  /\ UNCHANGED <<others, orderly>>
\* Another administrator removes a harvester.
OtherRemoves(h) ==
  /\ Unseen(h) /\ Other
  /\ server' = Restrict(server, DOMAIN server \ {h})
  /\ orderly' = FALSE

----------------------------------------------------------------------------
\* The answers, at the page.

Rest(r) == requests \ {r}

ReceiveLoad(r) ==
  /\ form' = FormOf(r.id, r.found[r.id], FALSE)
  /\ isNew' = FALSE /\ history' = None /\ loadingOne' = FALSE
  /\ requests' = With(Rest(r), About("history", r.id))
  /\ UNCHANGED <<listVars, buttonVars, pollLost>>

\* Whatever is selected by then.
ReceiveHistory(r) ==
  /\ history' = r.id
  /\ requests' = Rest(r)
  /\ UNCHANGED <<listVars, form, isNew, loadingOne, buttonVars, pollLost>>

\* A form without an id takes that of the harvester that was saved.
ReceiveSave(r) ==
  LET id == IF r.kind = "add" THEN CHOOSE h \in DOMAIN r.found : TRUE ELSE r.id
  IN  /\ form' = IF form.id \in {NewId, None} THEN [Unlisted(form) EXCEPT !.id = id]
                                              ELSE Unlisted(form)
      /\ busy' = busy \ {"save"}
      /\ LoadHarvesters(Rest(r), "refresh", None)
      /\ UNCHANGED <<polling, timers, isNew, loadingOne, history, deleting, stopping, pollLost>>

ReceiveRun(r) ==
  /\ form' = Unlisted(form)
  /\ busy' = busy \ {r.kind}
  /\ stopping' = (stopping /\ r.kind # "stop")
  /\ LoadHarvesters(Rest(r), "refresh", None)
  /\ UNCHANGED <<polling, timers, isNew, loadingOne, history, deleting, pollLost>>

\* Mutant of Removed: leaves the list of harvesters being deleted as it is.
StillRemoved(queue) == queue
\* deleting.splice(deleting.indexOf(3), 1): no id is 3, and -1 is the last one.
Removed(queue) == IF queue = <<>> THEN queue ELSE Front(queue)

\* The page shows no harvester any more, whichever it showed.
ReceiveRemove(r) ==
  /\ form' = NoForm /\ isNew' = FALSE
  /\ busy' = busy \ {r.kind}
  /\ deleting' = IF r.kind = "remove" THEN Removed(deleting) ELSE deleting
  /\ LoadHarvesters(Rest(r), "nothing", None)
  /\ UNCHANGED <<polling, timers, loadingOne, history, stopping, pollLost>>

ReceiveClone(r) ==
  /\ form' = Unlisted(form)
  /\ LoadHarvesters(Rest(r), "select", CHOOSE h \in DOMAIN r.found : TRUE)
  /\ UNCHANGED <<polling, timers, isNew, loadingOne, history, buttonVars, pollLost>>

\* Mutant of PollingAfter: isPolling is not reset.
StillPolling(r) == polling
PollingAfter(r) == polling /\ r.kind # "poll"

\* After a failure a button stays disabled, a harvester that was not removed
\* stays among those being deleted, and nobody polls.
ReceiveFailure(r) ==
  /\ requests' = Rest(r)
  /\ polling'  = PollingAfter(r)
  /\ pollLost' = (pollLost \/ r.kind = "poll")
  /\ loadingOne' = (loadingOne /\ r.kind # "load")
  /\ failed' = failed \cup {<<r.kind, r.id>>}
  /\ UNCHANGED <<list, timers, form, isNew, history, buttonVars>>

ReceiveSuccess(r) ==
  /\ \/ r.kind = "list"               /\ ReceiveList(r)
     \/ r.kind = "poll"               /\ ReceivePoll(r)
     \/ r.kind = "load"               /\ ReceiveLoad(r)
     \/ r.kind = "history"            /\ ReceiveHistory(r)
     \/ r.kind \in {"add", "update"}   /\ ReceiveSave(r)
     \/ r.kind \in {"run", "stop"}     /\ ReceiveRun(r)
     \/ r.kind \in {"clear", "remove"} /\ ReceiveRemove(r)
     \/ r.kind = "clone"              /\ ReceiveClone(r)
  /\ UNCHANGED failed

Receive(r) ==
  /\ IF r.stage = "failed" THEN ReceiveFailure(r) ELSE IsAnswered(r) /\ ReceiveSuccess(r)
  /\ UNCHANGED <<serverVars, counters, orderly>>

----------------------------------------------------------------------------
ByUser == \/ New \/ Edit \/ Save \/ Run \/ Stop \/ DeleteRecords \/ DeleteHarvester \/ Refresh
          \/ \E h \in Ids : Select(h) \/ Clone(h)

Next == \/ ByUser
        \/ PollAgain
        \/ \E r \in requests : Handle(r) \/ Receive(r) \/ Fail(r)
        \/ \E h \in Ids : HarvestStarts(h) \/ HarvestEnds(h) \/ OtherRemoves(h)

\* The server answers, the browser delivers answers, and a timer goes off.
Fairness ==
  /\ WF_vars(PollAgain)
  /\ \A k \in Kinds : WF_vars(\E r \in InFlight(k) : Handle(r) \/ Receive(r))

PageSpec     == Init /\ [][Next]_vars
PageFairSpec == PageSpec /\ Fairness

----------------------------------------------------------------------------
\* Properties.

\* Polling never stops by itself: as long as the list shows a harvester that
\* runs, its status is being asked for or will be, unless the last poll failed;
\* and isPolling is set exactly as long as there is a poll to be answered, so
\* that one that failed does not keep later ones from starting.
PollingIsAlive ==
  /\ polling <=> InFlight("poll") # {}
  /\ ShownRunning(list) # {} /\ ~pollLost => polling \/ timers > 0

\* What a button asks for; saving adds a harvester or updates it.
KindsOf(button)  == IF button = "save" THEN {"add", "update"} ELSE {button}
OnItsWay(button) == {r \in requests : r.kind \in KindsOf(button)}
FailedOf(button) == {f \in failed : f[1] \in KindsOf(button)}

\* A button is blocked, by gnClickAndSpin or by stopping, as long as a request of its own is
\* on its way or failed, neither longer nor shorter: at most one is on its way,
\* whatever other answers do to the page.  And the harvester whose form is blocked is the
\* one whose removal is on its way or failed: it is only because no two removals overlap
\* that deleting.splice(deleting.indexOf(3), 1) takes the right entry from the list.
BlockedForCause ==
  /\ \A b \in Buttons : /\ b \in busy <=> OnItsWay(b) \cup FailedOf(b) # {}
                        /\ \A x, y \in OnItsWay(b) : x = y
  /\ stopping <=> "stop" \in busy
  /\ ToSet(deleting) = {r.id : r \in OnItsWay("remove")} \cup {f[2] : f \in FailedOf("remove")}

\* A user who waits for every answer, while nothing fails and nobody else
\* removes harvesters, sees the harvesters there are, and the form, its history
\* and the buttons are those of a harvester that exists.
SettledPageAgrees ==
  orderly /\ Waiting = {} =>
    /\ IF list = None THEN server = <<>> ELSE DOMAIN list = DOMAIN server
    /\ form.id \in DOMAIN server \cup {NewId, None}
    /\ form.id # None => history \in {None, form.id} /\ (isNew <=> form.id = NewId)
    /\ ~loadingOne /\ ~stopping /\ busy = {} /\ deleting = <<>>

\* A harvest that ended is no longer shown as running, unless a poll failed.
EndedIsShown ==
  \A h \in Ids :
    h \in ShownRunning(list) ~>
      \/ h \notin ShownRunning(list) \/ pollLost
      \/ h \in DOMAIN server /\ server[h].running

==============================================================================
