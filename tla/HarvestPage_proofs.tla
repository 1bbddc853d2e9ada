-------------------------- MODULE HarvestPage_proofs --------------------------
(***************************************************************************)
(* Proofs about HarvestPage, for any harvesters, clicks, failures and      *)
(* orders of the answers: polling goes on as long as it is needed, and the *)
(* page that a user who waits sees is that of the harvesters there are.    *)
(* The invariant needs the shape of what the page and the server keep of   *)
(* harvesters, and that at most one poll is on its way.                    *)
(*                                                                         *)
(* The second part follows the one request that a button may have on its   *)
(* way, or that failed, and what is blocked for it.  The last part is      *)
(* about the user who waits: at most one request of his is on its          *)
(* way, besides polls and schedules (Settled), and whatever they do to the *)
(* page keeps what its answer will make of it (Busy).                      *)
(***************************************************************************)
EXTENDS HarvestPage, FiniteSetTheorems, SequenceTheorems, TLAPS

Names   == {"n", "kind", "id", "ids", "active", "after", "stage", "found"}
FormNames == {"id", "active", "running", "listed"}

IsRequest(r) == /\ DOMAIN r = Names /\ r.kind \in Kinds
                /\ r.found \in Harvesters /\ r.active \in BOOLEAN
                /\ r.kind = "load" /\ r.stage = "handled" => r.id \in DOMAIN r.found

PageShape ==
  /\ server \in Harvesters
  /\ list # None => list \in Harvesters
  /\ \A r \in requests : IsRequest(r)
  /\ DOMAIN form = FormNames /\ form.active \in BOOLEAN /\ form.running \in BOOLEAN
  /\ form.listed \in BOOLEAN
  /\ form.listed => list # None /\ form.id \in DOMAIN list

PollInv ==
  /\ timers \in Nat /\ polling \in BOOLEAN /\ pollLost \in BOOLEAN
  /\ polling <=> InFlight("poll") # {}
  /\ \A p, q \in InFlight("poll") : p = q
  /\ ShownRunning(list) # {} /\ ~pollLost => polling \/ timers > 0

PageInv == PageShape /\ PollInv

-----------------------------------------------------------------------------
(* Harvesters, requests and forms.                                          *)

LEMMA HarvestersAre ==
  ASSUME NEW x
  PROVE  x \in Harvesters <=> /\ x = [h \in DOMAIN x |-> x[h]]
                              /\ DOMAIN x \subseteq Ids
                              /\ \A h \in DOMAIN x : x[h] \in Status
  BY DEF Harvesters

LEMMA StatusIs ==
  ASSUME NEW x \in Status
  PROVE  /\ x.active \in BOOLEAN /\ x.running \in BOOLEAN
         /\ \A b \in BOOLEAN : /\ [x EXCEPT !.active = b] \in Status
                               /\ [x EXCEPT !.active = b].running = x.running
                               /\ [x EXCEPT !.running = b] \in Status
                               /\ [x EXCEPT !.running = b].running = b
  BY DEF Status

LEMMA NoHarvesters == <<>> \in Harvesters
<1>1. <<>> \in [{} -> Status]
  OBVIOUS
<1> QED
  BY <1>1 DEF Harvesters

\* With adds one request, which differs from the one that is asked for at most
\* in its number.
Alike(q, r) == DOMAIN q = Names /\ \A name \in Names \ {"n"} : q[name] = r[name]

LEMMA WithAdds ==
  ASSUME NEW pending, NEW r, DOMAIN r = Names
  PROVE  \E q : Alike(q, r) /\ With(pending, r) = pending \cup {q}
<1> DEFINE q == [r EXCEPT !.n = CHOOSE n \in 1 .. Cardinality(pending) + 1 :
                                   [r EXCEPT !.n = n] \notin pending]
<1>1. With(pending, r) = pending \cup {q}
  BY DEF With
<1>2. Alike(q, r)
  BY DEF Alike, Names
<1> QED
  BY <1>1, <1>2

LEMMA BlankIs ==
  ASSUME NEW kind \in Kinds
  PROVE  /\ DOMAIN Blank(kind) = Names /\ Blank(kind).kind = kind
         /\ Blank(kind).found \in Harvesters /\ Blank(kind).active \in BOOLEAN
         /\ Blank(kind).stage = "sent"
  BY NoHarvesters DEF Blank, Names

LEMMA AboutIs ==
  ASSUME NEW kind \in Kinds, NEW id
  PROVE  /\ IsRequest(About(kind, id)) /\ About(kind, id).kind = kind
         /\ \A after : /\ IsRequest([About(kind, id) EXCEPT !.after = after])
                       /\ [About(kind, id) EXCEPT !.after = after].kind = kind
         /\ \A b \in BOOLEAN : /\ IsRequest([About(kind, id) EXCEPT !.active = b])
                               /\ [About(kind, id) EXCEPT !.active = b].kind = kind
         /\ \A ids : /\ IsRequest([Blank(kind) EXCEPT !.ids = ids])
                     /\ [Blank(kind) EXCEPT !.ids = ids].kind = kind
  BY NoHarvesters DEF About, Blank, Names, IsRequest

LEMMA WithIs ==
  ASSUME NEW pending, NEW r, IsRequest(r), \A q \in pending : IsRequest(q)
  PROVE  \E q : /\ With(pending, r) = pending \cup {q}
                /\ IsRequest(q) /\ q.kind = r.kind
<1>1. PICK q : Alike(q, r) /\ With(pending, r) = pending \cup {q}
  BY WithAdds DEF IsRequest
<1>2. IsRequest(q) /\ q.kind = r.kind
  BY <1>1 DEF Alike, IsRequest, Names
<1> QED
  BY <1>1, <1>2

LEMMA PageInit == Init => PageInv
<1> SUFFICES ASSUME Init PROVE PageInv
  OBVIOUS
<1>1. IsRequest(Blank("list")) /\ Blank("list").kind = "list"
  BY BlankIs DEF IsRequest, Kinds
<1>2. server \in Harvesters
  BY IdAssumption DEF Init, Harvesters
<1>3. PageShape
  BY <1>1, <1>2 DEF Init, PageShape, IsRequest, NoForm, FormNames
<1>4. PollInv
  BY <1>1 DEF Init, PollInv, InFlight, ShownRunning
<1> QED
  BY <1>3, <1>4 DEF PageInv

-----------------------------------------------------------------------------
(* The steps that leave polling alone.                                      *)

KeepsPolls ==
  /\ UNCHANGED <<polling, timers, pollLost>>
  /\ ShownRunning(list)' \subseteq ShownRunning(list)
  /\ \/ InFlight("poll")' = InFlight("poll")
     \/ \E p \in InFlight("poll") : \E q :
          InFlight("poll")' = (InFlight("poll") \ {p}) \cup {q}

LEMMA PollsKept == PollInv /\ KeepsPolls => PollInv'
  BY DEF PollInv, KeepsPolls

\* A request that is no poll is sent, others that are no polls are done with.
LEMMA Sending ==
  ASSUME PageShape, NEW pending \in SUBSET requests, NEW r, IsRequest(r), r.kind # "poll",
         \A q \in requests \ pending : q.kind # "poll",
         requests' = With(pending, r)
  PROVE  InFlight("poll")' = InFlight("poll") /\ \A q \in requests' : IsRequest(q)
<1>1. PICK q : requests' = pending \cup {q} /\ IsRequest(q) /\ q.kind = r.kind
  BY WithIs DEF PageShape
<1> QED
  BY <1>1 DEF InFlight, PageShape

LEMMA SendingTwo ==
  ASSUME PageShape, NEW r, IsRequest(r), r.kind # "poll",
         NEW s, IsRequest(s), s.kind # "poll",
         requests' = With(With(requests, r), s)
  PROVE  InFlight("poll")' = InFlight("poll") /\ \A q \in requests' : IsRequest(q)
<1>1. PICK q : With(requests, r) = requests \cup {q} /\ IsRequest(q) /\ q.kind = r.kind
  BY WithIs DEF PageShape
<1>2. PICK x : requests' = With(requests, r) \cup {x} /\ IsRequest(x) /\ x.kind = s.kind
  <2>1. \A y \in With(requests, r) : IsRequest(y)
    BY <1>1 DEF PageShape
  <2> QED
    BY <2>1, WithIs
<1> QED
  BY <1>1, <1>2 DEF InFlight, PageShape

LEMMA FormOfIs ==
  ASSUME NEW id, NEW status \in Status, NEW listed \in BOOLEAN
  PROVE  /\ DOMAIN FormOf(id, status, listed) = FormNames
         /\ FormOf(id, status, listed).active \in BOOLEAN
         /\ FormOf(id, status, listed).running \in BOOLEAN
         /\ FormOf(id, status, listed).listed = listed
         /\ FormOf(id, status, listed).id = id
  BY StatusIs DEF FormOf, FormNames

LEMMA UnlistedIs ==
  ASSUME NEW f, DOMAIN f = FormNames
  PROVE  /\ DOMAIN Unlisted(f) = FormNames
         /\ Unlisted(f).active = f.active /\ Unlisted(f).running = f.running
         /\ Unlisted(f).id = f.id /\ Unlisted(f).listed = FALSE
         /\ \A id : /\ DOMAIN [Unlisted(f) EXCEPT !.id = id] = FormNames
                    /\ [Unlisted(f) EXCEPT !.id = id].active = f.active
                    /\ [Unlisted(f) EXCEPT !.id = id].running = f.running
                    /\ [Unlisted(f) EXCEPT !.id = id].listed = FALSE
  BY DEF Unlisted, FormNames

\* Save, run, stop, clear, remove: a request or two about the form.
LEMMA ButtonKeeps ==
  ASSUME PageInv, Save \/ Run \/ Stop \/ DeleteRecords \/ DeleteHarvester
  PROVE  PageInv'
<1>1. /\ UNCHANGED <<serverVars, listVars, formVars, pollLost>>
      /\ \/ \E kind \in Kinds \ {"poll"} : Asks(kind)
         \/ \E kind \in Kinds \ {"poll"} :
              requests' = With(With(requests, OfForm("schedule")), OfForm(kind))
  BY DEF Save, Run, Stop, DeleteRecords, DeleteHarvester, Press, Click, SaveKind, Kinds,
         listVars
<1>2. \A kind \in Kinds : IsRequest(OfForm(kind)) /\ OfForm(kind).kind = kind
  BY AboutIs DEF OfForm, PageInv, PageShape
<1>3. InFlight("poll")' = InFlight("poll") /\ \A q \in requests' : IsRequest(q)
  <2>1. CASE \E kind \in Kinds \ {"poll"} : Asks(kind)
    BY <1>2, <2>1, Sending DEF Asks, PageInv
  <2>2. CASE \E kind \in Kinds \ {"poll"} :
              requests' = With(With(requests, OfForm("schedule")), OfForm(kind))
    <3>1. "schedule" \in Kinds
      BY DEF Kinds
    <3> QED
      BY <1>2, <2>2, <3>1, SendingTwo DEF PageInv
  <2> QED
    BY <1>1, <2>1, <2>2
<1>4. PageShape'
  BY <1>1, <1>3 DEF PageInv, PageShape, serverVars, listVars, formVars
<1>5. KeepsPolls
  BY <1>1, <1>3 DEF KeepsPolls, listVars, ShownRunning
<1> QED
  BY <1>4, <1>5, PollsKept DEF PageInv

\* A harvester of the list becomes the form; it is loaded again.
LEMMA SelectKeeps ==
  ASSUME PageInv, NEW h \in Ids, Select(h)
  PROVE  PageInv'
<1>1. /\ list # None /\ h \in DOMAIN list /\ list[h] \in Status
      /\ form' = FormOf(h, list[h], TRUE)
      /\ UNCHANGED <<serverVars, listVars, pollLost>>
      /\ requests' = With(requests, About("load", h))
  BY HarvestersAre DEF Select, Selected, Click, listVars, PageInv, PageShape
<1>2. InFlight("poll")' = InFlight("poll") /\ \A q \in requests' : IsRequest(q)
  <2>1. "load" \in Kinds
    BY DEF Kinds
  <2> QED
    BY <1>1, <2>1, AboutIs, Sending DEF PageInv
<1>3. PageShape'
  <2>1. /\ DOMAIN form' = FormNames /\ form'.active \in BOOLEAN /\ form'.running \in BOOLEAN
        /\ form'.listed = TRUE /\ form'.id = h
    BY <1>1, FormOfIs
  <2> QED
    BY <1>1, <1>2, <2>1 DEF PageInv, PageShape, serverVars, listVars
<1>4. KeepsPolls
  BY <1>1, <1>2 DEF KeepsPolls, listVars, ShownRunning
<1> QED
  BY <1>3, <1>4, PollsKept DEF PageInv

\* The entry of the list changes with the form, but not whether it runs.
LEMMA EditKeeps ==
  ASSUME PageInv, Edit
  PROVE  PageInv'
<1>1. /\ form' = [form EXCEPT !.active = ~@]
      /\ UNCHANGED <<serverVars, polling, timers, pollLost, requests>>
      /\ list' = IF form.listed THEN [list EXCEPT ![form.id].active = ~form.active] ELSE list
  BY DEF Edit, Click
<1>2. DOMAIN form' = FormNames /\ form'.active \in BOOLEAN /\ form'.running = form.running
      /\ form'.listed = form.listed /\ form'.id = form.id
  BY <1>1 DEF PageInv, PageShape, FormNames
<1>3. CASE ~form.listed
  <2>1. PageShape'
    BY <1>1, <1>2, <1>3 DEF PageInv, PageShape, serverVars
  <2>2. KeepsPolls
    BY <1>1, <1>3 DEF KeepsPolls, ShownRunning, InFlight
  <2> QED
    BY <2>1, <2>2, PollsKept DEF PageInv
<1>4. CASE form.listed
  <2> DEFINE id == form.id
  <2>1. /\ list # None /\ id \in DOMAIN list /\ DOMAIN list \subseteq Ids
        /\ \A h \in DOMAIN list : list[h] \in Status
        /\ form.active \in BOOLEAN
    BY <1>4, HarvestersAre DEF PageInv, PageShape
  <2>2. list' = [list EXCEPT ![id] = [list[id] EXCEPT !.active = ~form.active]]
    BY <1>1, <1>4
  <2>3. /\ [list[id] EXCEPT !.active = ~form.active] \in Status
        /\ [list[id] EXCEPT !.active = ~form.active].running = list[id].running
    BY <2>1 DEF Status
  <2> HIDE DEF id
  <2>4. /\ DOMAIN list' = DOMAIN list /\ list' = [h \in DOMAIN list' |-> list'[h]]
        /\ \A h \in DOMAIN list : list'[h] \in Status /\ list'[h].running = list[h].running
    BY <2>1, <2>2, <2>3
  <2>5. list' \in Harvesters
    BY <2>1, <2>4, HarvestersAre
  <2>6. list' # None
    BY <2>5, NoneAssumption
  <2>7. PageShape'
    BY <1>1, <1>2, <2>1, <2>4, <2>5, <2>6 DEF PageInv, PageShape, serverVars, id
  <2>8. KeepsPolls
    BY <1>1, <2>1, <2>4, <2>6 DEF KeepsPolls, ShownRunning, InFlight
  <2> QED
    BY <2>7, <2>8, PollsKept DEF PageInv
<1> QED
  BY <1>3, <1>4

\* The list is asked for again, in answer to r or for a click.
LEMMA LoadingKeeps ==
  ASSUME PageInv, NEW pending \in SUBSET requests, NEW after, NEW id,
         \A q \in requests \ pending : q.kind # "poll",
         LoadHarvesters(pending, after, id),
         UNCHANGED <<server, polling, timers, pollLost>>,
         DOMAIN form' = FormNames, form'.active \in BOOLEAN, form'.running \in BOOLEAN,
         form'.listed = FALSE
  PROVE  PageInv'
<1> DEFINE asked == [About("list", id) EXCEPT !.after = after]
<1>1. list' = None /\ requests' = With(pending, asked)
  BY DEF LoadHarvesters
<1>2. IsRequest(asked) /\ asked.kind = "list"
  <2>1. "list" \in Kinds
    BY DEF Kinds
  <2> QED
    BY <2>1, AboutIs
<1> HIDE DEF asked
<1>3. InFlight("poll")' = InFlight("poll") /\ \A q \in requests' : IsRequest(q)
  BY <1>1, <1>2, Sending DEF PageInv
<1>4. PageShape'
  BY <1>1, <1>3 DEF PageInv, PageShape
<1>5. KeepsPolls
  BY <1>1, <1>3 DEF KeepsPolls, ShownRunning
<1> QED
  BY <1>4, <1>5, PollsKept DEF PageInv

LEMMA NewKeeps ==
  ASSUME PageInv, New
  PROVE  PageInv'
<1>1. /\ form' = FormOf(NewId, [active |-> TRUE, running |-> FALSE], FALSE)
      /\ UNCHANGED <<server, list, polling, timers, pollLost, requests>>
  BY DEF New, Click, serverVars
<1>2. [active |-> TRUE, running |-> FALSE] \in Status
  BY DEF Status
<1>3. /\ DOMAIN form' = FormNames /\ form'.active \in BOOLEAN /\ form'.running \in BOOLEAN
      /\ form'.listed = FALSE
  BY <1>1, <1>2, FormOfIs
<1>4. PageShape'
  BY <1>1, <1>3 DEF PageInv, PageShape
<1>5. KeepsPolls
  BY <1>1 DEF KeepsPolls, ShownRunning, InFlight
<1> QED
  BY <1>4, <1>5, PollsKept DEF PageInv

LEMMA CloneKeeps ==
  ASSUME PageInv, NEW h \in Ids, Clone(h)
  PROVE  PageInv'
<1>1. /\ requests' = With(requests, About("clone", h))
      /\ UNCHANGED <<server, list, form, polling, timers, pollLost>>
  BY DEF Clone, Click, serverVars, formVars
<1>2. IsRequest(About("clone", h)) /\ About("clone", h).kind = "clone"
  BY AboutIs DEF Kinds
<1>3. InFlight("poll")' = InFlight("poll") /\ \A q \in requests' : IsRequest(q)
  BY <1>1, <1>2, Sending DEF PageInv
<1>4. PageShape'
  BY <1>1, <1>3 DEF PageInv, PageShape
<1>5. KeepsPolls
  BY <1>1, <1>3 DEF KeepsPolls, ShownRunning
<1> QED
  BY <1>4, <1>5, PollsKept DEF PageInv

LEMMA RefreshKeeps ==
  ASSUME PageInv, Refresh
  PROVE  PageInv'
<1>1. /\ LoadHarvesters(requests, "refresh", None) /\ form' = Unlisted(form)
      /\ UNCHANGED <<server, polling, timers, pollLost>>
  BY DEF Refresh, Click, serverVars
<1>2. /\ DOMAIN form' = FormNames /\ form'.active \in BOOLEAN /\ form'.running \in BOOLEAN
      /\ form'.listed = FALSE
  BY <1>1, UnlistedIs DEF PageInv, PageShape
<1> QED
  BY <1>1, <1>2, LoadingKeeps

-----------------------------------------------------------------------------
(* The server: the page is as it was, and an answer takes the place of its  *)
(* request.                                                                 *)

LEMMA Answering ==
  ASSUME PageInv, NEW r \in requests, NEW found \in Harvesters, NEW stage,
         r.kind = "load" /\ stage = "handled" => r.id \in DOMAIN found,
         requests' = With(requests \ {r}, [r EXCEPT !.stage = stage, !.found = found])
  PROVE  /\ \A q \in requests' : IsRequest(q)
         /\ \/ InFlight("poll")' = InFlight("poll")
            \/ \E p \in InFlight("poll") : \E q :
                 InFlight("poll")' = (InFlight("poll") \ {p}) \cup {q}
<1> DEFINE answer == [r EXCEPT !.stage = stage, !.found = found]
<1>1. IsRequest(r)
  BY DEF PageInv, PageShape
<1>2. IsRequest(answer) /\ answer.kind = r.kind
  BY <1>1 DEF IsRequest, Names
<1>3. \A q \in requests \ {r} : IsRequest(q)
  BY DEF PageInv, PageShape
<1>4. requests' = With(requests \ {r}, answer)
  OBVIOUS
<1> HIDE DEF answer
<1>5. PICK q : requests' = (requests \ {r}) \cup {q} /\ IsRequest(q) /\ q.kind = r.kind
  BY <1>2, <1>3, <1>4, WithIs
<1>6. CASE r.kind = "poll"
  BY <1>3, <1>5, <1>6 DEF InFlight
<1>7. CASE r.kind # "poll"
  BY <1>3, <1>5, <1>7 DEF InFlight
<1> QED
  BY <1>6, <1>7

\* A part of the harvesters, and all of them with one changed.
LEMMA RestrictIs ==
  ASSUME NEW f \in Harvesters, NEW S \in SUBSET DOMAIN f
  PROVE  Restrict(f, S) \in Harvesters
<1>1. Restrict(f, S) = [h \in S |-> f[h]]
  BY DEF Restrict
<1>2. S \subseteq Ids /\ \A h \in S : f[h] \in Status
  BY HarvestersAre
<1>3. [h \in S |-> f[h]] \in [S -> Status]
  BY <1>2
<1> QED
  BY <1>1, <1>2, <1>3 DEF Harvesters

\* What the server does to its harvesters and to a request, the page unseen.
LEMMA ServerKeeps ==
  ASSUME PageInv, server' \in Harvesters,
         UNCHANGED <<list, form, polling, timers, pollLost>>,
         \A q \in requests' : IsRequest(q),
         \/ InFlight("poll")' = InFlight("poll")
         \/ \E p \in InFlight("poll") : \E q :
              InFlight("poll")' = (InFlight("poll") \ {p}) \cup {q}
  PROVE  PageInv'
<1>1. PageShape'
  BY DEF PageInv, PageShape
<1>2. KeepsPolls
  BY DEF KeepsPolls, ShownRunning
<1> QED
  BY <1>1, <1>2, PollsKept DEF PageInv

LEMMA HandleReadKeeps ==
  ASSUME PageInv, NEW r \in requests, HandleRead(r),
         UNCHANGED <<list, form, polling, timers, pollLost>>
  PROVE  PageInv'
<1>1. server \in Harvesters /\ server' = server
  BY DEF PageInv, PageShape, HandleRead, serverVars
<1>2. PICK found \in Harvesters, stage \in {"handled", "failed"} :
        /\ requests' = With(requests \ {r}, [r EXCEPT !.stage = stage, !.found = found])
        /\ r.kind = "load" /\ stage = "handled" => r.id \in DOMAIN found
  <2>1. CASE ReadsOf(r) \subseteq DOMAIN server
    <3>1. Answered(r, Restrict(server, ReadsOf(r)))
      BY <2>1 DEF HandleRead
    <3>2. Restrict(server, ReadsOf(r)) \in Harvesters
      BY <1>1, <2>1, RestrictIs
    <3>3. r.kind = "load" => r.id \in DOMAIN Restrict(server, ReadsOf(r))
      BY DEF ReadsOf, Restrict
    <3> QED
      BY <3>1, <3>2, <3>3 DEF Answered
  <2>2. CASE ~(ReadsOf(r) \subseteq DOMAIN server)
    <3>1. Refused(r)
      BY <2>2 DEF HandleRead
    <3>2. "failed" # "handled"
      OBVIOUS
    <3> QED
      BY <3>1, <3>2, NoHarvesters DEF Refused
  <2> QED
    BY <2>1, <2>2
<1> QED
  BY <1>1, <1>2, Answering, ServerKeeps

LEMMA HandleStatusKeeps ==
  ASSUME PageInv, NEW r \in requests, HandleStatus(r),
         UNCHANGED <<list, form, polling, timers, pollLost>>
  PROVE  PageInv'
<1> DEFINE active == r.active \/ r.kind = "run"
<1>1. /\ IsRequest(r) /\ r.kind # "poll" /\ r.kind # "load"
      /\ server' = [h \in DOMAIN server |->
                     IF h = r.id THEN [server[h] EXCEPT !.active = active] ELSE server[h]]
      /\ requests' = requests \ {r} \/ Answered(r, <<>>)
  BY DEF HandleStatus, SetActive, PageInv, PageShape
<1>2. active \in BOOLEAN
  BY <1>1 DEF IsRequest
<1> HIDE DEF active
<1>3. DOMAIN server \subseteq Ids /\ \A h \in DOMAIN server : server[h] \in Status
  BY HarvestersAre DEF PageInv, PageShape
<1>4. \A h \in DOMAIN server : [server[h] EXCEPT !.active = active] \in Status
  BY <1>2, <1>3 DEF Status
<1>5. server' \in Harvesters
  <2>1. server' \in [DOMAIN server -> Status]
    BY <1>1, <1>3, <1>4
  <2> QED
    BY <1>3, <2>1 DEF Harvesters
<1>6. CASE Answered(r, <<>>)
  BY <1>1, <1>5, <1>6, NoHarvesters, Answering, ServerKeeps DEF Answered
<1>7. CASE requests' = requests \ {r}
  <2>1. InFlight("poll")' = InFlight("poll") /\ \A q \in requests' : IsRequest(q)
    BY <1>1, <1>7 DEF InFlight, PageInv, PageShape
  <2> QED
    BY <1>5, <2>1, ServerKeeps
<1> QED
  BY <1>1, <1>6, <1>7

LEMMA HandleRemoveKeeps ==
  ASSUME PageInv, NEW r \in requests, HandleRemove(r),
         UNCHANGED <<list, form, polling, timers, pollLost>>
  PROVE  PageInv'
<1>1. server' \in Harvesters
  BY RestrictIs DEF HandleRemove, PageInv, PageShape
<1>2. Answered(r, <<>>) /\ r.kind # "load"
  BY DEF HandleRemove
<1> QED
  BY <1>1, <1>2, NoHarvesters, Answering, ServerKeeps DEF Answered

LEMMA HandleAddKeeps ==
  ASSUME PageInv, NEW r \in requests, HandleAdd(r),
         UNCHANGED <<list, form, polling, timers, pollLost>>
  PROVE  PageInv'
<1>1. DOMAIN server \subseteq Ids /\ \A h \in DOMAIN server : server[h] \in Status
  BY HarvestersAre DEF PageInv, PageShape
<1>2. CASE Refused(r) /\ UNCHANGED serverVars
  <2>1. server' \in Harvesters
    BY <1>2 DEF serverVars, PageInv, PageShape
  <2> QED
    BY <1>2, <2>1, NoHarvesters, Answering, ServerKeeps DEF Refused
<1>4. r.kind # "load"
  BY DEF HandleAdd
<1> DEFINE new == [active |-> FALSE, running |-> FALSE]
<1>3. ASSUME NEW h \in Ids,
             server' = [x \in DOMAIN server \cup {h} |-> IF x = h THEN new ELSE server[x]],
             Answered(r, [x \in {h} |-> new])
      PROVE  PageInv'
  <2>1. new \in Status
    BY DEF Status
  <2> HIDE DEF new
  <2>2. [x \in {h} |-> new] \in [{h} -> Status]
    BY <2>1
  <2>3. [x \in {h} |-> new] \in Harvesters
    BY <2>2 DEF Harvesters
  <2>4. server' \in [DOMAIN server \cup {h} -> Status]
    BY <1>1, <1>3, <2>1
  <2>5. server' \in Harvesters
    BY <1>1, <2>4 DEF Harvesters
  <2>6. PICK found \in Harvesters : Answered(r, found)
    BY <1>3, <2>3
  <2> QED
    BY <1>4, <2>5, <2>6, Answering, ServerKeeps DEF Answered
<1> QED
  BY <1>2, <1>3 DEF HandleAdd

LEMMA HandleKeeps ==
  ASSUME PageInv, NEW r \in requests, Handle(r)
  PROVE  PageInv'
<1>1. UNCHANGED <<list, form, polling, timers, pollLost>>
  BY DEF Handle, listVars, formVars, historyVars
<1> QED
  BY <1>1, HandleReadKeeps, HandleStatusKeeps, HandleRemoveKeeps, HandleAddKeeps DEF Handle

LEMMA FailKeeps ==
  ASSUME PageInv, NEW r \in requests, Fail(r)
  PROVE  PageInv'
<1>1. UNCHANGED <<server, list, form, polling, timers, pollLost>> /\ Refused(r)
  BY DEF Fail, serverVars, listVars, formVars
<1>2. server' \in Harvesters
  BY <1>1 DEF PageInv, PageShape
<1> QED
  BY <1>1, <1>2, NoHarvesters, Answering, ServerKeeps DEF Refused

LEMMA OthersKeep ==
  ASSUME PageInv, NEW h \in Ids, HarvestStarts(h) \/ HarvestEnds(h) \/ OtherRemoves(h)
  PROVE  PageInv'
<1>1. h \in DOMAIN server /\ UNCHANGED <<list, form, polling, timers, pollLost, requests>>
  BY DEF HarvestStarts, HarvestEnds, OtherRemoves, Unseen, listVars, formVars
<1>2. /\ DOMAIN server \subseteq Ids /\ \A x \in DOMAIN server : server[x] \in Status
      /\ server = [x \in DOMAIN server |-> server[x]]
  BY HarvestersAre DEF PageInv, PageShape
<1>3. server' \in Harvesters
  <2>1. CASE OtherRemoves(h)
    BY <2>1, RestrictIs DEF OtherRemoves, PageInv, PageShape
  <2>2. CASE HarvestStarts(h) \/ HarvestEnds(h)
    <3>1. PICK b \in BOOLEAN : server' = [server EXCEPT ![h].running = b]
      BY <2>2 DEF HarvestStarts, HarvestEnds
    <3>2. [server[h] EXCEPT !.running = b] \in Status
      BY <1>1, <1>2 DEF Status
    <3>3. server' = [server EXCEPT ![h] = [server[h] EXCEPT !.running = b]]
      BY <3>1
    <3>4. server' \in [DOMAIN server -> Status]
      BY <1>1, <1>2, <3>2, <3>3
    <3> QED
      BY <1>2, <3>4 DEF Harvesters
  <2> QED
    BY <2>1, <2>2
<1>4. \A q \in requests' : IsRequest(q)
  BY <1>1 DEF PageInv, PageShape
<1>5. InFlight("poll")' = InFlight("poll")
  BY <1>1 DEF InFlight
<1> QED
  BY <1>1, <1>3, <1>4, <1>5, ServerKeeps

-----------------------------------------------------------------------------
(* The answers.                                                             *)

\* pollHarvesterStatus polls when a harvester that runs is shown and no poll is
\* on its way.
LEMMA PollSent ==
  ASSUME NEW pending, NEW l, \A q \in pending : IsRequest(q),
         polling \in BOOLEAN, pollLost \in BOOLEAN,
         polling <=> {q \in pending : q.kind = "poll"} # {},
         \A p, q \in {q \in pending : q.kind = "poll"} : p = q,
         PollHarvesterStatus(l)
  PROVE  LET sent == WithPoll(pending, l)
             polls == {q \in sent : q.kind = "poll"}
         IN  /\ \A q \in sent : IsRequest(q)
             /\ polling' \in BOOLEAN /\ pollLost' \in BOOLEAN
             /\ polling' <=> polls # {}
             /\ \A p, q \in polls : p = q
             /\ ShownRunning(l) # {} => polling'
<1> DEFINE poll == [Blank("poll") EXCEPT !.ids = ShownRunning(l)]
<1>1. MustPoll(l) \in BOOLEAN /\ (MustPoll(l) <=> ~polling /\ ShownRunning(l) # {})
  BY DEF MustPoll
<1>2. polling' = (polling \/ MustPoll(l)) /\ pollLost' = (pollLost /\ ~MustPoll(l))
  BY DEF PollHarvesterStatus
<1>3. CASE ~MustPoll(l)
  <2>1. WithPoll(pending, l) = pending
    BY <1>3 DEF WithPoll
  <2> QED
    BY <1>1, <1>2, <1>3, <2>1
<1>4. CASE MustPoll(l)
  <2>1. IsRequest(poll) /\ poll.kind = "poll"
    <3>1. "poll" \in Kinds
      BY DEF Kinds
    <3> QED
      BY <3>1, AboutIs
  <2>2. WithPoll(pending, l) = With(pending, poll)
    BY <1>4 DEF WithPoll
  <2> HIDE DEF poll
  <2>3. PICK q : With(pending, poll) = pending \cup {q} /\ IsRequest(q) /\ q.kind = "poll"
    BY <2>1, WithIs
  <2>4. {x \in WithPoll(pending, l) : x.kind = "poll"} = {q}
    BY <1>1, <1>4, <2>2, <2>3
  <2>5. \A x \in WithPoll(pending, l) : IsRequest(x)
    BY <2>2, <2>3
  <2>6. polling' = TRUE /\ pollLost' = FALSE
    BY <1>2, <1>4
  <2> QED
    BY <2>4, <2>5, <2>6
<1> QED
  BY <1>1, <1>3, <1>4

LEMMA PollAgainKeeps ==
  ASSUME PageInv, PollAgain
  PROVE  PageInv'
<1>1. /\ timers \in Nat /\ timers > 0 /\ timers' = timers - 1
      /\ PollHarvesterStatus(list) /\ requests' = WithPoll(requests, list)
      /\ UNCHANGED <<server, list, form>>
  BY DEF PollAgain, PageInv, PollInv, serverVars, formVars
<1>2. timers' \in Nat
  BY <1>1
<1>3. /\ \A q \in requests' : IsRequest(q)
      /\ polling' \in BOOLEAN /\ pollLost' \in BOOLEAN
      /\ polling' <=> InFlight("poll")' # {}
      /\ \A p, q \in InFlight("poll")' : p = q
      /\ ShownRunning(list) # {} => polling'
  <2>1. /\ \A q \in requests : IsRequest(q)
        /\ polling \in BOOLEAN /\ pollLost \in BOOLEAN
        /\ polling <=> {q \in requests : q.kind = "poll"} # {}
        /\ \A p, q \in {q \in requests : q.kind = "poll"} : p = q
    BY DEF PageInv, PageShape, PollInv, InFlight
  <2> QED
    BY <1>1, <2>1, PollSent DEF InFlight
<1>4. PageShape'
  BY <1>1, <1>3 DEF PageInv, PageShape
<1>5. PollInv'
  BY <1>1, <1>2, <1>3 DEF PollInv, ShownRunning
<1> QED
  BY <1>4, <1>5 DEF PageInv

LEMMA ReceiveListKeeps ==
  ASSUME PageInv, NEW r \in requests, r.kind = "list", ReceiveList(r), UNCHANGED server
  PROVE  PageInv'
<1> DEFINE l    == ListOf(r.found)
           rest == WithPoll(requests \ {r}, l)
<1>1. /\ list' = l /\ PollHarvesterStatus(l) /\ timers' = timers
      /\ \/ form' = Unlisted(form) /\ requests' = rest
         \/ \E h \in ToSelect(r, l) : Selected(h, l) /\ requests' = With(rest, About("load", h))
  BY DEF ReceiveList
<1>2. l # None => l \in Harvesters
  BY DEF ListOf, PageInv, PageShape, IsRequest
<1> HIDE DEF l
<1>3. /\ \A q \in rest : IsRequest(q)
      /\ polling' \in BOOLEAN /\ pollLost' \in BOOLEAN
      /\ polling' <=> {q \in rest : q.kind = "poll"} # {}
      /\ \A p, q \in {q \in rest : q.kind = "poll"} : p = q
      /\ ShownRunning(l) # {} => polling'
  <2> DEFINE pending == requests \ {r}
  <2>1. /\ \A q \in pending : IsRequest(q)
        /\ polling \in BOOLEAN /\ pollLost \in BOOLEAN
        /\ polling <=> {q \in pending : q.kind = "poll"} # {}
        /\ \A p, q \in {q \in pending : q.kind = "poll"} : p = q
    BY DEF PageInv, PageShape, PollInv, InFlight
  <2> HIDE DEF pending
  <2>2. rest = WithPoll(pending, l)
    BY DEF pending
  <2> HIDE DEF rest
  <2> QED
    BY <1>1, <2>1, <2>2, PollSent
<1> HIDE DEF rest
<1>4. /\ \A q \in requests' : IsRequest(q)
      /\ InFlight("poll")' = {q \in rest : q.kind = "poll"}
  <2>1. CASE requests' = rest
    BY <1>3, <2>1 DEF InFlight
  <2>2. ASSUME NEW h, requests' = With(rest, About("load", h))
        PROVE  /\ \A q \in requests' : IsRequest(q)
               /\ InFlight("poll")' = {q \in rest : q.kind = "poll"}
    <3>1. IsRequest(About("load", h)) /\ About("load", h).kind = "load"
      BY AboutIs DEF Kinds
    <3>2. PICK q : requests' = rest \cup {q} /\ IsRequest(q) /\ q.kind = "load"
      BY <1>3, <2>2, <3>1, WithIs
    <3> QED
      BY <1>3, <3>2 DEF InFlight
  <2> QED
    BY <1>1, <2>1, <2>2
<1>5. /\ DOMAIN form' = FormNames /\ form'.active \in BOOLEAN /\ form'.running \in BOOLEAN
      /\ form'.listed \in BOOLEAN
      /\ form'.listed => list' # None /\ form'.id \in DOMAIN list'
  <2>1. CASE form' = Unlisted(form)
    BY <2>1, UnlistedIs DEF PageInv, PageShape
  <2>2. ASSUME NEW h \in ToSelect(r, l), Selected(h, l)
        PROVE  /\ DOMAIN form' = FormNames /\ form'.active \in BOOLEAN
               /\ form'.running \in BOOLEAN /\ form'.listed \in BOOLEAN
               /\ form'.listed => list' # None /\ form'.id \in DOMAIN list'
    <3>1. l # None /\ h \in DOMAIN l /\ form' = FormOf(h, l[h], TRUE)
      BY <2>2 DEF ToSelect, Selected
    <3>2. l[h] \in Status
      BY <1>2, <3>1, HarvestersAre
    <3>3. form'.listed = TRUE /\ form'.id = h
      BY <3>1, <3>2, FormOfIs
    <3>4. DOMAIN form' = FormNames /\ form'.active \in BOOLEAN /\ form'.running \in BOOLEAN
      BY <3>1, <3>2, FormOfIs
    <3> QED
      BY <1>1, <3>1, <3>3, <3>4
  <2> QED
    BY <1>1, <2>1, <2>2
<1>6. PageShape'
  BY <1>1, <1>2, <1>4, <1>5 DEF PageInv, PageShape
<1>7. PollInv'
  <2>1. ShownRunning(list)' = ShownRunning(l)
    BY <1>1 DEF ShownRunning
  <2> QED
    BY <1>1, <1>3, <1>4, <2>1 DEF PageInv, PollInv
<1> QED
  BY <1>6, <1>7 DEF PageInv

LEMMA ReceivePollKeeps ==
  ASSUME PageInv, NEW r \in requests, r.kind = "poll", ReceivePoll(r), UNCHANGED server
  PROVE  PageInv'
<1>1. /\ polling' = FALSE /\ list' = Polled(list, r) /\ timers' = timers + 1
      /\ requests' = requests \ {r} /\ UNCHANGED pollLost
      /\ form' = IF form.listed /\ form.id \in DOMAIN r.found
                 THEN [form EXCEPT !.running = r.found[form.id].running] ELSE form
  BY DEF ReceivePoll
<1>2. r.found \in Harvesters
  BY DEF PageInv, PageShape, IsRequest
<1>3. \A h \in DOMAIN r.found : r.found[h].running \in BOOLEAN
  BY <1>2, HarvestersAre DEF Status
<1>4. /\ DOMAIN form' = FormNames /\ form'.active = form.active /\ form'.running \in BOOLEAN
      /\ form'.listed = form.listed /\ form'.id = form.id
  BY <1>1, <1>3 DEF PageInv, PageShape, FormNames
<1>5. /\ list' # None => list' \in Harvesters
      /\ form'.listed => list' # None /\ form'.id \in DOMAIN list'
  <2>1. CASE list = None
    BY <1>1, <1>4, <2>1 DEF Polled, PageInv, PageShape
  <2>2. CASE list # None
    <3>1. DOMAIN list \subseteq Ids /\ \A h \in DOMAIN list : list[h] \in Status
      BY <2>2, HarvestersAre DEF PageInv, PageShape
    <3>2. \A h \in DOMAIN r.found : h \in DOMAIN list =>
            [list[h] EXCEPT !.running = r.found[h].running] \in Status
      BY <1>3, <3>1 DEF Status
    <3>3. list' = [h \in DOMAIN list |->
                    IF h \in DOMAIN r.found
                    THEN [list[h] EXCEPT !.running = r.found[h].running] ELSE list[h]]
      BY <1>1, <2>2 DEF Polled
    <3>4. list' \in [DOMAIN list -> Status]
      BY <3>1, <3>2, <3>3
    <3>5. list' \in Harvesters /\ DOMAIN list' = DOMAIN list
      BY <3>1, <3>4 DEF Harvesters
    <3>6. list' # None
      BY <3>5, NoneAssumption
    <3> QED
      BY <1>4, <2>2, <3>5, <3>6 DEF PageInv, PageShape
  <2> QED
    BY <2>1, <2>2
<1>6. PageShape'
  BY <1>1, <1>4, <1>5 DEF PageInv, PageShape
<1>7. InFlight("poll") = {r} /\ InFlight("poll")' = {}
  BY <1>1 DEF PageInv, PollInv, InFlight
<1>8. PollInv'
  <2>1. timers' \in Nat /\ timers' > 0
    BY <1>1 DEF PageInv, PollInv
  <2> QED
    BY <1>1, <1>7, <2>1 DEF PageInv, PollInv
<1> QED
  BY <1>6, <1>8 DEF PageInv

LEMMA ReceiveLoadKeeps ==
  ASSUME PageInv, NEW r \in requests, r.kind = "load", r.stage = "handled",
         ReceiveLoad(r), UNCHANGED server
  PROVE  PageInv'
<1>1. /\ form' = FormOf(r.id, r.found[r.id], FALSE)
      /\ requests' = With(requests \ {r}, About("history", r.id))
      /\ UNCHANGED <<list, polling, timers, pollLost>>
  BY DEF ReceiveLoad, Rest, listVars
<1>2. r.found[r.id] \in Status
  BY HarvestersAre DEF PageInv, PageShape, IsRequest
<1>3. /\ DOMAIN form' = FormNames /\ form'.active \in BOOLEAN /\ form'.running \in BOOLEAN
      /\ form'.listed = FALSE
  BY <1>1, <1>2, FormOfIs
<1>4. IsRequest(About("history", r.id)) /\ About("history", r.id).kind = "history"
  BY AboutIs DEF Kinds
<1>5. InFlight("poll")' = InFlight("poll") /\ \A q \in requests' : IsRequest(q)
  <2>1. \A q \in requests \ (requests \ {r}) : q.kind # "poll"
    OBVIOUS
  <2> QED
    BY <1>1, <1>4, <2>1, Sending DEF PageInv
<1>6. PageShape'
  BY <1>1, <1>3, <1>5 DEF PageInv, PageShape
<1>7. KeepsPolls
  BY <1>1, <1>5 DEF KeepsPolls, ShownRunning
<1> QED
  BY <1>6, <1>7, PollsKept DEF PageInv

LEMMA ReceiveHistoryKeeps ==
  ASSUME PageInv, NEW r \in requests, r.kind = "history", ReceiveHistory(r), UNCHANGED server
  PROVE  PageInv'
<1>1. requests' = requests \ {r} /\ UNCHANGED <<list, form, polling, timers, pollLost>>
  BY DEF ReceiveHistory, Rest, listVars
<1>2. PageShape'
  BY <1>1 DEF PageInv, PageShape
<1>3. KeepsPolls
  BY <1>1 DEF KeepsPolls, ShownRunning, InFlight
<1> QED
  BY <1>2, <1>3, PollsKept DEF PageInv

\* The answers after which the list is loaded again.
LEMMA ReceiveThenLoadKeeps ==
  ASSUME PageInv, NEW r \in requests, r.kind # "poll", UNCHANGED server,
         ReceiveSave(r) \/ ReceiveRun(r) \/ ReceiveRemove(r) \/ ReceiveClone(r)
  PROVE  PageInv'
<1>1. /\ UNCHANGED <<polling, timers, pollLost>>
      /\ \E after, id : LoadHarvesters(requests \ {r}, after, id)
  BY DEF ReceiveSave, ReceiveRun, ReceiveRemove, ReceiveClone, Rest
<1>2. \/ form' = NoForm \/ form' = Unlisted(form)
      \/ \E id : form' = [Unlisted(form) EXCEPT !.id = id]
  BY DEF ReceiveSave, ReceiveRun, ReceiveRemove, ReceiveClone
<1>3. /\ DOMAIN form' = FormNames /\ form'.active \in BOOLEAN /\ form'.running \in BOOLEAN
      /\ form'.listed = FALSE
  <2>1. CASE form' = NoForm
    BY <2>1 DEF NoForm, FormNames
  <2>2. DOMAIN form = FormNames /\ form.active \in BOOLEAN /\ form.running \in BOOLEAN
    BY DEF PageInv, PageShape
  <2>3. CASE form' = Unlisted(form)
    BY <2>2, <2>3, UnlistedIs
  <2>4. ASSUME NEW id, form' = [Unlisted(form) EXCEPT !.id = id]
        PROVE  /\ DOMAIN form' = FormNames /\ form'.active \in BOOLEAN
               /\ form'.running \in BOOLEAN /\ form'.listed = FALSE
    BY <2>2, <2>4, UnlistedIs
  <2> QED
    BY <1>2, <2>1, <2>3, <2>4
<1>4. \A q \in requests \ (requests \ {r}) : q.kind # "poll"
  OBVIOUS
<1> QED
  BY <1>1, <1>3, <1>4, LoadingKeeps

\* When a poll failed, nobody polls, and that is known.
LEMMA ReceiveFailureKeeps ==
  ASSUME PageInv, NEW r \in requests, ReceiveFailure(r), UNCHANGED server
  PROVE  PageInv'
<1>1. /\ requests' = requests \ {r} /\ UNCHANGED <<list, form, timers>>
      /\ polling' = (polling /\ r.kind # "poll")
      /\ pollLost' = (pollLost \/ r.kind = "poll")
  BY DEF ReceiveFailure, Rest, PollingAfter
<1>2. PageShape'
  BY <1>1 DEF PageInv, PageShape
<1>3. CASE r.kind = "poll"
  <2>1. InFlight("poll") = {r} /\ InFlight("poll")' = {}
    BY <1>1, <1>3 DEF PageInv, PollInv, InFlight
  <2>2. polling' = FALSE /\ pollLost' = TRUE
    BY <1>1, <1>3
  <2>3. PollInv'
    BY <1>1, <2>1, <2>2 DEF PageInv, PollInv
  <2> QED
    BY <1>2, <2>3 DEF PageInv
<1>4. CASE r.kind # "poll"
  <2>1. InFlight("poll")' = InFlight("poll")
    BY <1>1, <1>4 DEF InFlight
  <2>2. polling' = polling /\ pollLost' = pollLost
    BY <1>1, <1>4 DEF PageInv, PollInv
  <2>3. KeepsPolls
    BY <1>1, <2>1, <2>2 DEF KeepsPolls, ShownRunning
  <2> QED
    BY <1>2, <2>3, PollsKept DEF PageInv
<1> QED
  BY <1>3, <1>4

LEMMA ReceiveKeeps ==
  ASSUME PageInv, NEW r \in requests, Receive(r)
  PROVE  PageInv'
<1>1. UNCHANGED server
  BY DEF Receive, serverVars
<1>2. CASE ReceiveFailure(r)
  BY <1>1, <1>2, ReceiveFailureKeeps
<1>3. CASE IsAnswered(r) /\ ReceiveSuccess(r)
  <2>1. CASE r.kind = "list" /\ ReceiveList(r)
    BY <1>1, <2>1, ReceiveListKeeps
  <2>2. CASE r.kind = "poll" /\ ReceivePoll(r)
    BY <1>1, <2>2, ReceivePollKeeps
  <2>3. CASE r.kind = "load" /\ ReceiveLoad(r)
    BY <1>1, <1>3, <2>3, ReceiveLoadKeeps DEF IsAnswered
  <2>4. CASE r.kind = "history" /\ ReceiveHistory(r)
    BY <1>1, <2>4, ReceiveHistoryKeeps
  <2>5. CASE r.kind # "poll" /\ \/ ReceiveSave(r) \/ ReceiveRun(r)
                                \/ ReceiveRemove(r) \/ ReceiveClone(r)
    BY <1>1, <2>5, ReceiveThenLoadKeeps
  <2> QED
    BY <1>3, <2>1, <2>2, <2>3, <2>4, <2>5 DEF ReceiveSuccess
<1> QED
  BY <1>2, <1>3 DEF Receive

-----------------------------------------------------------------------------
LEMMA PageNext == PageInv /\ [Next]_vars => PageInv'
<1> SUFFICES ASSUME PageInv, [Next]_vars PROVE PageInv'
  OBVIOUS
<1>1. CASE ByUser
  BY <1>1, ButtonKeeps, SelectKeeps, EditKeeps, NewKeeps, CloneKeeps, RefreshKeeps DEF ByUser
<1>2. CASE PollAgain
  BY <1>2, PollAgainKeeps
<1>3. CASE \E r \in requests : Handle(r) \/ Receive(r) \/ Fail(r)
  BY <1>3, HandleKeeps, ReceiveKeeps, FailKeeps
<1>4. CASE \E h \in Ids : HarvestStarts(h) \/ HarvestEnds(h) \/ OtherRemoves(h)
  BY <1>4, OthersKeep
<1>5. CASE UNCHANGED vars
  <2>1. UNCHANGED <<server, list, form, polling, timers, pollLost, requests>>
    BY <1>5 DEF vars, serverVars, listVars, formVars, historyVars
  <2>2. PageShape'
    BY <2>1 DEF PageInv, PageShape
  <2>3. KeepsPolls
    BY <2>1 DEF KeepsPolls, ShownRunning, InFlight
  <2> QED
    BY <2>2, <2>3, PollsKept DEF PageInv
<1> QED
  BY <1>1, <1>2, <1>3, <1>4, <1>5 DEF Next

\* As long as the list of the page shows a harvester that runs, its status is
\* being asked for or will be, unless the last poll failed; and isPolling is
\* set exactly as long as there is a poll to be answered (pollHarvesterStatus).
THEOREM PollingGoesOn == PageSpec => []PollingIsAlive
<1>1. PageInv => PollingIsAlive
  BY DEF PageInv, PollInv, PollingIsAlive
<1> QED
  BY <1>1, PageInit, PageNext, PTL DEF PageSpec

-----------------------------------------------------------------------------
(* The buttons that are blocked.                                            *)

\* Kinds of requests that no button of the toolbar sends.
Others == {"list", "poll", "load", "history", "schedule", "clone"}
\* The requests of a button among R.
Of(R, button) == {r \in R : r.kind \in KindsOf(button)}

\* At most one request of a button is on its way, or has failed.
SlotOK(b) ==
  \/ b \notin busy /\ OnItsWay(b) = {} /\ FailedOf(b) = {}
  \/ b \in busy /\ FailedOf(b) = {} /\ \E q : OnItsWay(b) = {q}
  \/ b \in busy /\ OnItsWay(b) = {} /\ \E f : FailedOf(b) = {f}
\* The form that is blocked is that of the one removal there may be.
DeletingOK ==
  \/ "remove" \notin busy /\ deleting = <<>>
  \/ FailedOf("remove") = {} /\ \E q : OnItsWay("remove") = {q} /\ deleting = <<q.id>>
  \/ OnItsWay("remove") = {} /\ \E f : FailedOf("remove") = {f} /\ deleting = <<f[2]>>
BlockInv ==
  /\ \A b \in Buttons : SlotOK(b)
  /\ stopping \in BOOLEAN /\ (stopping <=> "stop" \in busy)
  /\ DeletingOK

LEMMA KindsAre ==
  /\ \A b \in Buttons : KindsOf(b) \subseteq Kinds /\ KindsOf(b) \cap Others = {}
  /\ \A b, c \in Buttons : b # c => KindsOf(b) \cap KindsOf(c) = {}
  /\ \A k \in Kinds : k \in Others \/ \E b \in Buttons : k \in KindsOf(b)
  /\ KindsOf("remove") = {"remove"} /\ KindsOf("stop") = {"stop"}
  /\ "remove" \in Buttons /\ "stop" \in Buttons
<1>1. /\ \A b \in Buttons : KindsOf(b) \subseteq Kinds /\ KindsOf(b) \cap Others = {}
      /\ \A b, c \in Buttons : b # c => KindsOf(b) \cap KindsOf(c) = {}
  BY DEF KindsOf, Buttons, Kinds, Others
<1>2. \A k \in Kinds : k \in Others \/ \E b \in Buttons : k \in KindsOf(b)
  <2> SUFFICES ASSUME NEW k \in Kinds, k \notin Others PROVE \E b \in Buttons : k \in KindsOf(b)
    OBVIOUS
  <2>1. k \in {"add", "update"} \/ k \in Buttons \ {"save"}
    BY DEF Kinds, Others, Buttons
  <2>2. CASE k \in {"add", "update"}
    <3>1. "save" \in Buttons /\ k \in KindsOf("save")
      BY <2>2 DEF Buttons, KindsOf
    <3> QED
      BY <3>1
  <2>3. CASE k \in Buttons \ {"save"}
    <3>1. k \in Buttons /\ k \in KindsOf(k)
      BY <2>3 DEF KindsOf
    <3> QED
      BY <3>1
  <2> QED
    BY <2>1, <2>2, <2>3
<1> QED
  BY <1>1, <1>2 DEF KindsOf, Buttons

\* No button has more or fewer requests in R than are on their way.
SameWay(R) == \A b \in Buttons : Of(R, b) = OnItsWay(b)

LEMMA WayKeeps ==
  ASSUME BlockInv, SameWay(requests'), UNCHANGED <<busy, deleting, stopping, failed>>
  PROVE  BlockInv'
<1>1. \A b \in Buttons : OnItsWay(b)' = OnItsWay(b) /\ FailedOf(b)' = FailedOf(b)
  BY DEF SameWay, Of, OnItsWay, FailedOf
<1>2. \A b \in Buttons : SlotOK(b)'
  BY <1>1 DEF BlockInv, SlotOK
<1>3. DeletingOK'
  BY <1>1, KindsAre DEF BlockInv, DeletingOK
<1> QED
  BY <1>2, <1>3 DEF BlockInv

LEMMA WithKeepsWay ==
  ASSUME NEW R, SameWay(R), NEW r, DOMAIN r = Names, r.kind \in Others
  PROVE  SameWay(With(R, r))
<1>1. PICK q : Alike(q, r) /\ With(R, r) = R \cup {q}
  BY WithAdds
<1>2. q.kind \in Others
  BY <1>1 DEF Alike, Names
<1> QED
  BY <1>1, <1>2, KindsAre DEF SameWay, Of

LEMMA WithoutKeepsWay ==
  ASSUME NEW R, SameWay(R), NEW r, r.kind \in Others
  PROVE  SameWay(R \ {r})
  BY KindsAre DEF SameWay, Of

LEMMA PollKeepsWay ==
  ASSUME NEW R, SameWay(R), NEW l
  PROVE  SameWay(WithPoll(R, l))
<1> DEFINE q == [Blank("poll") EXCEPT !.ids = ShownRunning(l)]
<1>1. DOMAIN q = Names /\ q.kind \in Others
  BY DEF Blank, Names, Others
<1> HIDE DEF q
<1>2. SameWay(With(R, q))
  BY <1>1, WithKeepsWay
<1> QED
  BY <1>2 DEF WithPoll, q

LEMMA BlockInit == Init => BlockInv
<1> SUFFICES ASSUME Init PROVE BlockInv
  OBVIOUS
<1>1. requests = {Blank("list")} /\ Blank("list").kind = "list" /\ failed = {} /\ busy = {}
      /\ deleting = <<>> /\ stopping = FALSE
  BY DEF Init, Blank
<1>2. \A b \in Buttons : OnItsWay(b) = {} /\ FailedOf(b) = {}
  BY <1>1, KindsAre DEF OnItsWay, FailedOf, Others
<1> QED
  BY <1>1, <1>2 DEF BlockInv, SlotOK, DeletingOK

\* A button that is pressed sends the only request of its kinds.
LEMMA PressBlocks ==
  ASSUME BlockInv, NEW b \in Buttons, Press(b), NEW R, SameWay(R),
         NEW q, DOMAIN q = Names, q.kind \in KindsOf(b), requests' = With(R, q),
         UNCHANGED failed, stopping' = (stopping \/ b = "stop"),
         b # "remove" => UNCHANGED deleting, b = "remove" => deleting' = Append(deleting, q.id)
  PROVE  BlockInv'
<1>1. b \notin busy /\ busy' = busy \cup {b}
  BY DEF Press
<1>2. OnItsWay(b) = {} /\ FailedOf(b) = {}
  BY <1>1 DEF BlockInv, SlotOK
<1>3. PICK x : Alike(x, q) /\ requests' = R \cup {x}
  BY WithAdds
<1>4. x.kind \in KindsOf(b) /\ x.id = q.id
  BY <1>3 DEF Alike, Names
<1>5. \A c \in Buttons : FailedOf(c)' = FailedOf(c)
  BY DEF FailedOf
<1>6. OnItsWay(b)' = {x}
  BY <1>2, <1>3, <1>4 DEF SameWay, Of, OnItsWay
<1>7. \A c \in Buttons \ {b} : OnItsWay(c)' = OnItsWay(c)
  BY <1>3, <1>4, KindsAre DEF SameWay, Of, OnItsWay
<1>8. \A c \in Buttons : SlotOK(c)'
  <2>1. SlotOK(b)'
    BY <1>1, <1>2, <1>5, <1>6 DEF SlotOK
  <2>2. ASSUME NEW c \in Buttons \ {b} PROVE SlotOK(c)'
    BY <1>1, <1>5, <1>7 DEF BlockInv, SlotOK
  <2> QED
    BY <2>1, <2>2
<1>9. DeletingOK'
  <2>1. CASE b = "remove"
    <3>1. deleting = <<>>
      BY <1>1, <1>2, <2>1 DEF BlockInv, DeletingOK
    <3>2. deleting' = <<x.id>>
      BY <1>4, <2>1, <3>1
    <3> QED
      BY <1>2, <1>5, <1>6, <2>1, <3>2 DEF DeletingOK
  <2>2. CASE b # "remove"
    <3>1. "remove" \in Buttons \ {b}
      BY <2>2, KindsAre
    <3> QED
      BY <1>1, <1>5, <1>7, <2>2, <3>1 DEF BlockInv, DeletingOK
  <2> QED
    BY <2>1, <2>2
<1> QED
  BY <1>1, <1>8, <1>9 DEF BlockInv

LEMMA UserKeepsBlocks ==
  ASSUME PageInv, BlockInv, ByUser
  PROVE  BlockInv'
<1>0. SameWay(requests)
  BY DEF SameWay, Of, OnItsWay
<1>1. UNCHANGED failed
  BY DEF ByUser, New, Edit, Save, Run, Stop, DeleteRecords, DeleteHarvester, Refresh, Select,
         Clone, Press, Click
<1>2. \A kind \in Kinds : \A id : DOMAIN About(kind, id) = Names /\ About(kind, id).kind = kind
  BY AboutIs DEF IsRequest
<1>3. \A kind \in Kinds : /\ DOMAIN OfForm(kind) = Names /\ OfForm(kind).kind = kind
                          /\ OfForm(kind).id = form.id
  <2> SUFFICES ASSUME NEW kind \in Kinds
               PROVE  /\ DOMAIN OfForm(kind) = Names /\ OfForm(kind).kind = kind
                      /\ OfForm(kind).id = form.id
    OBVIOUS
  <2> QED
    BY DEF OfForm, About, Blank, Names
<1>4. CASE Save
  <2> DEFINE R == With(requests, OfForm("schedule"))
  <2>1. SaveKind \in Kinds /\ "schedule" \in Kinds /\ "schedule" \in Others
        /\ "save" \in Buttons /\ SaveKind \in KindsOf("save")
    BY DEF SaveKind, Kinds, Others, Buttons, KindsOf
  <2>2. SameWay(R)
    BY <1>0, <1>3, <2>1, WithKeepsWay
  <2> HIDE DEF R
  <2>3. /\ requests' = With(R, OfForm(SaveKind)) /\ UNCHANGED <<deleting, stopping>>
        /\ Press("save")
    BY <1>4 DEF Save, R
  <2>4. stopping' = (stopping \/ "save" = "stop")
    BY <2>3 DEF BlockInv
  <2>5. PICK q : q = OfForm(SaveKind)
    OBVIOUS
  <2>6. DOMAIN q = Names /\ q.kind \in KindsOf("save") /\ requests' = With(R, q)
    BY <1>3, <2>1, <2>3, <2>5
  <2>7. "save" # "remove"
    OBVIOUS
  <2> QED
    BY <1>1, <2>1, <2>2, <2>3, <2>4, <2>6, <2>7, PressBlocks
<1>5. CASE Run \/ Stop \/ DeleteRecords \/ DeleteHarvester
  <2>1. PICK b \in {"run", "stop", "clear", "remove"} :
          /\ Press(b) /\ Asks(b)
          /\ stopping' = (stopping \/ b = "stop")
          /\ b # "remove" => UNCHANGED deleting
          /\ b = "remove" => deleting' = Append(deleting, form.id)
    <3>1. stopping \in BOOLEAN
      BY DEF BlockInv
    <3> QED
      BY <1>5, <3>1 DEF Run, Stop, DeleteRecords, DeleteHarvester
  <2>2. b \in Buttons /\ b \in Kinds /\ b \in KindsOf(b)
    BY DEF Buttons, Kinds, KindsOf
  <2>3. PICK q : q = OfForm(b)
    OBVIOUS
  <2>4. DOMAIN q = Names /\ q.kind \in KindsOf(b) /\ q.id = form.id
        /\ requests' = With(requests, q)
    BY <1>3, <2>1, <2>2, <2>3 DEF Asks
  <2> QED
    BY <1>0, <1>1, <2>1, <2>2, <2>4, PressBlocks
<1>6. CASE New \/ Edit
  BY <1>0, <1>1, <1>6, WayKeeps DEF New, Edit, buttonVars
<1>7. CASE Refresh
  <2> DEFINE q == [About("list", None) EXCEPT !.after = "refresh"]
  <2>1. DOMAIN q = Names /\ q.kind \in Others
    BY DEF About, Blank, Names, Others
  <2>2. requests' = With(requests, q) /\ UNCHANGED buttonVars
    BY <1>7 DEF Refresh, LoadHarvesters
  <2> HIDE DEF q
  <2>3. SameWay(requests')
    BY <1>0, <2>1, <2>2, WithKeepsWay
  <2> QED
    BY <1>1, <2>2, <2>3, WayKeeps DEF buttonVars
<1>8. CASE \E h \in Ids : Select(h) \/ Clone(h)
  <2>1. PICK kind \in {"load", "clone"}, h \in Ids : requests' = With(requests, About(kind, h))
    BY <1>8 DEF Select, Clone
  <2>2. UNCHANGED buttonVars
    BY <1>8 DEF Select, Clone
  <2>3. kind \in Kinds /\ kind \in Others
    BY DEF Kinds, Others
  <2>4. SameWay(requests')
    BY <1>0, <1>2, <2>1, <2>3, WithKeepsWay
  <2> QED
    BY <1>1, <2>2, <2>4, WayKeeps DEF buttonVars
<1> QED
  BY <1>4, <1>5, <1>6, <1>7, <1>8 DEF ByUser

\* A request of a button is the only one of it, and none of it has failed.
LEMMA OnlyOne ==
  ASSUME BlockInv, NEW r \in requests, NEW b \in Buttons, r.kind \in KindsOf(b)
  PROVE  b \in busy /\ FailedOf(b) = {} /\ OnItsWay(b) = {r}
         /\ (b = "remove" => deleting = <<r.id>>)
<1>1. r \in OnItsWay(b)
  BY DEF OnItsWay
<1>2. b \in busy /\ FailedOf(b) = {} /\ OnItsWay(b) = {r}
  BY <1>1 DEF BlockInv, SlotOK
<1>3. b = "remove" => deleting = <<r.id>>
  BY <1>2 DEF BlockInv, DeletingOK
<1> QED
  BY <1>2, <1>3

\* A request that is answered, or fails, is still of its kind.
LEMMA ReplacedKeeps ==
  ASSUME BlockInv, NEW r \in requests, r.kind \in Kinds,
         NEW q, DOMAIN q = Names, q.kind = r.kind, q.id = r.id,
         requests' = With(requests \ {r}, q), UNCHANGED <<busy, deleting, stopping, failed>>
  PROVE  BlockInv'
<1>1. SameWay(requests)
  BY DEF SameWay, Of, OnItsWay
<1>2. CASE r.kind \in Others
  BY <1>1, <1>2, WithoutKeepsWay, WithKeepsWay, WayKeeps
<1>3. ASSUME NEW b \in Buttons, r.kind \in KindsOf(b) PROVE BlockInv'
  <2>1. PICK x : Alike(x, q) /\ requests' = (requests \ {r}) \cup {x}
    BY WithAdds
  <2>2. x.kind = r.kind /\ x.id = r.id
    BY <2>1 DEF Alike, Names
  <2>3. b \in busy /\ FailedOf(b) = {} /\ OnItsWay(b) = {r} /\ (b = "remove" => deleting = <<r.id>>)
    BY <1>3, OnlyOne
  <2>4. OnItsWay(b)' = {x} /\ \A c \in Buttons : FailedOf(c)' = FailedOf(c)
    BY <1>3, <2>1, <2>2, <2>3 DEF OnItsWay, FailedOf
  <2>5. \A c \in Buttons \ {b} : OnItsWay(c)' = OnItsWay(c)
    BY <1>3, <2>1, <2>2, KindsAre DEF OnItsWay
  <2>6. SlotOK(b)'
    BY <2>3, <2>4 DEF SlotOK
  <2>7. ASSUME NEW c \in Buttons \ {b} PROVE SlotOK(c)'
    BY <2>4, <2>5 DEF BlockInv, SlotOK
  <2>8. DeletingOK'
    <3>1. CASE b = "remove"
      BY <2>2, <2>3, <2>4, <3>1 DEF DeletingOK
    <3>2. CASE b # "remove"
      <4>1. "remove" \in Buttons \ {b}
        BY <3>2, KindsAre
      <4> QED
        BY <2>4, <2>5, <4>1 DEF BlockInv, DeletingOK
    <3> QED
      BY <3>1, <3>2
  <2> QED
    BY <2>6, <2>7, <2>8 DEF BlockInv
<1> QED
  BY <1>2, <1>3, KindsAre

LEMMA HandleKeepsBlocks ==
  ASSUME PageInv, BlockInv, NEW r \in requests, Handle(r) \/ Fail(r)
  PROVE  BlockInv'
<1>1. UNCHANGED <<busy, deleting, stopping, failed>>
  BY DEF Handle, Fail, buttonVars, historyVars
<1>2. DOMAIN r = Names /\ r.kind \in Kinds
  BY DEF PageInv, PageShape, IsRequest
<1>3. ASSUME NEW stage, NEW found,
             requests' = With(requests \ {r}, [r EXCEPT !.stage = stage, !.found = found])
      PROVE  BlockInv'
  <2> DEFINE q == [r EXCEPT !.stage = stage, !.found = found]
  <2>1. DOMAIN q = Names /\ q.kind = r.kind /\ q.id = r.id
    BY <1>2 DEF Names
  <2>2. requests' = With(requests \ {r}, q)
    BY <1>3
  <2> HIDE DEF q
  <2> QED
    BY <1>1, <1>2, <2>1, <2>2, ReplacedKeeps
<1>4. CASE r.kind = "schedule" /\ requests' = requests \ {r}
  <2>1. SameWay(requests) /\ r.kind \in Others
    BY <1>4 DEF SameWay, Of, OnItsWay, Others
  <2> QED
    BY <1>1, <1>4, <2>1, WithoutKeepsWay, WayKeeps
<1>5. \/ \E stage, found :
           requests' = With(requests \ {r}, [r EXCEPT !.stage = stage, !.found = found])
      \/ r.kind = "schedule" /\ requests' = requests \ {r}
  <2>1. CASE \E found : Answered(r, found)
    BY <2>1 DEF Answered
  <2>2. CASE Refused(r)
    BY <2>2 DEF Refused
  <2> QED
    BY <2>1, <2>2 DEF Handle, Fail, HandleRead, HandleStatus, HandleRemove, HandleAdd
<1> QED
  BY <1>3, <1>4, <1>5

\* The request of a button failed: the button stays as it is.
LEMMA FailureKeepsBlocks ==
  ASSUME BlockInv, NEW r \in requests, r.kind \in Kinds, ReceiveFailure(r)
  PROVE  BlockInv'
<1> DEFINE f == <<r.kind, r.id>>
<1>1. /\ requests' = requests \ {r} /\ failed' = failed \cup {f}
      /\ UNCHANGED <<busy, deleting, stopping>>
  BY DEF ReceiveFailure, Rest, buttonVars
<1>2. f[1] = r.kind /\ f[2] = r.id
  OBVIOUS
<1> HIDE DEF f
<1>3. \A c \in Buttons : r.kind \notin KindsOf(c) => /\ OnItsWay(c)' = OnItsWay(c)
                                                      /\ FailedOf(c)' = FailedOf(c)
                                                      /\ SlotOK(c)'
  <2> SUFFICES ASSUME NEW c \in Buttons, r.kind \notin KindsOf(c)
               PROVE  OnItsWay(c)' = OnItsWay(c) /\ FailedOf(c)' = FailedOf(c) /\ SlotOK(c)'
    OBVIOUS
  <2>1. OnItsWay(c)' = OnItsWay(c) /\ FailedOf(c)' = FailedOf(c)
    BY <1>1, <1>2 DEF OnItsWay, FailedOf
  <2> QED
    BY <1>1, <2>1 DEF BlockInv, SlotOK
<1>4. CASE r.kind \in Others
  <2>1. \A c \in Buttons : r.kind \notin KindsOf(c)
    BY <1>4, KindsAre
  <2>2. DeletingOK'
    BY <1>1, <1>3, <2>1, KindsAre DEF BlockInv, DeletingOK
  <2> QED
    BY <1>1, <1>3, <2>1, <2>2 DEF BlockInv
<1>5. ASSUME NEW b \in Buttons, r.kind \in KindsOf(b) PROVE BlockInv'
  <2>1. b \in busy /\ FailedOf(b) = {} /\ OnItsWay(b) = {r} /\ (b = "remove" => deleting = <<r.id>>)
    BY <1>5, OnlyOne
  <2>2. OnItsWay(b)' = {} /\ FailedOf(b)' = {f}
    BY <1>1, <1>2, <1>5, <2>1 DEF OnItsWay, FailedOf
  <2>3. SlotOK(b)'
    BY <1>1, <2>1, <2>2 DEF SlotOK
  <2>4. \A c \in Buttons \ {b} : r.kind \notin KindsOf(c)
    BY <1>5, KindsAre
  <2>5. DeletingOK'
    <3>1. CASE b = "remove"
      BY <1>1, <1>2, <2>1, <2>2, <3>1 DEF DeletingOK
    <3>2. CASE b # "remove"
      <4>1. "remove" \in Buttons \ {b}
        BY <3>2, KindsAre
      <4> QED
        BY <1>1, <1>3, <2>4, <4>1 DEF BlockInv, DeletingOK
    <3> QED
      BY <3>1, <3>2
  <2> QED
    BY <1>1, <1>3, <2>3, <2>4, <2>5 DEF BlockInv
<1> QED
  BY <1>4, <1>5, KindsAre

\* The request of a button succeeded: the button is free, and loads the list.
LEMMA SuccessUnblocks ==
  ASSUME BlockInv, NEW r \in requests, NEW b \in Buttons, r.kind \in KindsOf(b),
         busy' = busy \ {b}, UNCHANGED failed,
         stopping' = (stopping /\ b # "stop"),
         b # "remove" => UNCHANGED deleting, b = "remove" => deleting' = Removed(deleting),
         NEW after, NEW id, LoadHarvesters(requests \ {r}, after, id)
  PROVE  BlockInv'
<1> DEFINE q == [About("list", id) EXCEPT !.after = after]
<1>1. DOMAIN q = Names /\ q.kind = "list"
  BY DEF About, Blank, Names
<1>2. requests' = With(requests \ {r}, q)
  BY DEF LoadHarvesters
<1> HIDE DEF q
<1>3. PICK x : Alike(x, q) /\ requests' = (requests \ {r}) \cup {x}
  BY <1>1, <1>2, WithAdds
<1>4. x.kind \in Others
  BY <1>1, <1>3 DEF Alike, Names, Others
<1>5. FailedOf(b) = {} /\ OnItsWay(b) = {r} /\ (b = "remove" => deleting = <<r.id>>)
  BY OnlyOne
<1>6. \A c \in Buttons : x.kind \notin KindsOf(c)
  BY <1>4, KindsAre
<1>7. OnItsWay(b)' = {} /\ \A c \in Buttons : FailedOf(c)' = FailedOf(c)
  BY <1>3, <1>5, <1>6 DEF OnItsWay, FailedOf
<1>8. \A c \in Buttons \ {b} : OnItsWay(c)' = OnItsWay(c)
  BY <1>3, <1>6, KindsAre DEF OnItsWay
<1>9. \A c \in Buttons : SlotOK(c)'
  <2>1. SlotOK(b)'
    BY <1>5, <1>7 DEF SlotOK
  <2>2. ASSUME NEW c \in Buttons \ {b} PROVE SlotOK(c)'
    BY <1>7, <1>8 DEF BlockInv, SlotOK
  <2> QED
    BY <2>1, <2>2
<1>10. DeletingOK'
  <2>1. CASE b = "remove"
    <3>1. deleting = <<r.id>>
      BY <1>5, <2>1
    <3>2. deleting # <<>> /\ Front(deleting) = <<>>
      BY <3>1 DEF Front
    <3>3. deleting' = <<>>
      BY <2>1, <3>2 DEF Removed
    <3> QED
      BY <2>1, <3>3 DEF DeletingOK
  <2>2. CASE b # "remove"
    <3>1. "remove" \in Buttons \ {b}
      BY <2>2, KindsAre
    <3> QED
      BY <1>7, <1>8, <2>2, <3>1 DEF BlockInv, DeletingOK
  <2> QED
    BY <2>1, <2>2
<1> QED
  BY <1>9, <1>10 DEF BlockInv

LEMMA SuccessKeepsBlocks ==
  ASSUME PageInv, BlockInv, NEW r \in requests, r.kind \in Kinds, ReceiveSuccess(r)
  PROVE  BlockInv'
<1>0. UNCHANGED failed /\ SameWay(requests) /\ stopping \in BOOLEAN
      /\ (r.kind \in Others => SameWay(requests \ {r}))
  <2>1. SameWay(requests)
    BY DEF SameWay, Of, OnItsWay
  <2> QED
    BY <2>1, WithoutKeepsWay DEF ReceiveSuccess, BlockInv
<1>1. ASSUME UNCHANGED buttonVars, NEW R, SameWay(R),
             NEW kind \in {"load", "history"}, NEW id, requests' = With(R, About(kind, id))
      PROVE  BlockInv'
  <2> DEFINE q == About(kind, id)
  <2>1. DOMAIN q = Names /\ q.kind \in Others
    BY DEF About, Blank, Names, Others
  <2> HIDE DEF q
  <2>2. SameWay(requests')
    BY <1>1, <2>1, WithKeepsWay DEF q
  <2> QED
    BY <1>0, <1>1, <2>2, WayKeeps DEF buttonVars
<1>2. CASE r.kind = "list" /\ ReceiveList(r)
  <2> DEFINE rest == WithPoll(requests \ {r}, ListOf(r.found))
  <2>1. SameWay(rest)
    BY <1>0, <1>2, PollKeepsWay DEF Others
  <2> HIDE DEF rest
  <2>2. UNCHANGED buttonVars
    BY <1>2 DEF ReceiveList
  <2>3. requests' = rest \/ \E h : requests' = With(rest, About("load", h))
    BY <1>2 DEF ReceiveList, rest
  <2>4. CASE requests' = rest
    BY <1>0, <2>1, <2>2, <2>4, WayKeeps DEF buttonVars
  <2>5. CASE \E h : requests' = With(rest, About("load", h))
    BY <1>1, <2>1, <2>2, <2>5
  <2> QED
    BY <2>3, <2>4, <2>5
<1>3. CASE r.kind \in {"poll", "history"} /\ (ReceivePoll(r) \/ ReceiveHistory(r))
  <2>1. requests' = requests \ {r} /\ UNCHANGED buttonVars /\ r.kind \in Others
    BY <1>3 DEF ReceivePoll, ReceiveHistory, Rest, buttonVars, Others
  <2> QED
    BY <1>0, <2>1, WayKeeps DEF buttonVars
<1>4. CASE r.kind = "load" /\ ReceiveLoad(r)
  <2>1. /\ requests' = With(requests \ {r}, About("history", r.id)) /\ UNCHANGED buttonVars
        /\ r.kind \in Others
    BY <1>4 DEF ReceiveLoad, Rest, Others
  <2> QED
    BY <1>0, <1>1, <2>1
<1>5. CASE r.kind = "clone" /\ ReceiveClone(r)
  <2> DEFINE id == CHOOSE h \in DOMAIN r.found : TRUE
             q  == [About("list", id) EXCEPT !.after = "select"]
  <2>1. DOMAIN q = Names /\ q.kind \in Others /\ r.kind \in Others
    BY <1>5 DEF About, Blank, Names, Others
  <2>2. requests' = With(requests \ {r}, q) /\ UNCHANGED buttonVars
    BY <1>5 DEF ReceiveClone, LoadHarvesters, Rest
  <2> HIDE DEF q
  <2>3. SameWay(requests')
    BY <1>0, <2>1, <2>2, WithKeepsWay
  <2> QED
    BY <1>0, <2>2, <2>3, WayKeeps DEF buttonVars
<1>6. CASE r.kind \in {"add", "update"} /\ ReceiveSave(r)
  <2>1. "save" \in Buttons /\ r.kind \in KindsOf("save") /\ "save" # "remove" /\ "save" # "stop"
    BY <1>6 DEF Buttons, KindsOf
  <2>2. /\ busy' = busy \ {"save"} /\ UNCHANGED <<deleting, stopping>>
        /\ LoadHarvesters(requests \ {r}, "refresh", None)
    BY <1>6 DEF ReceiveSave, Rest
  <2>3. stopping' = (stopping /\ "save" # "stop")
    BY <1>0, <2>2
  <2> QED
    BY <1>0, <2>1, <2>2, <2>3, SuccessUnblocks
<1>7. CASE \/ r.kind \in {"run", "stop"} /\ ReceiveRun(r)
           \/ r.kind \in {"clear", "remove"} /\ ReceiveRemove(r)
  <2>1. PICK b : b = r.kind
    OBVIOUS
  <2>2. b \in Buttons /\ r.kind \in KindsOf(b)
    BY <1>7, <2>1 DEF Buttons, KindsOf
  <2>3. \E after : LoadHarvesters(requests \ {r}, after, None)
    BY <1>7 DEF ReceiveRun, ReceiveRemove, Rest
  <2>4. /\ busy' = busy \ {b}
        /\ stopping' = (stopping /\ b # "stop")
        /\ b # "remove" => UNCHANGED deleting
        /\ b = "remove" => deleting' = Removed(deleting)
    BY <1>0, <1>7, <2>1 DEF ReceiveRun, ReceiveRemove
  <2> QED
    BY <1>0, <2>2, <2>3, <2>4, SuccessUnblocks
<1> QED
  BY <1>2, <1>3, <1>4, <1>5, <1>6, <1>7 DEF ReceiveSuccess

LEMMA BlockNext == PageInv /\ BlockInv /\ [Next]_vars => BlockInv'
<1> SUFFICES ASSUME PageInv, BlockInv, [Next]_vars PROVE BlockInv'
  OBVIOUS
<1>0. SameWay(requests)
  BY DEF SameWay, Of, OnItsWay
<1>1. CASE ByUser
  BY <1>1, UserKeepsBlocks
<1>2. CASE PollAgain
  <2>1. SameWay(requests') /\ UNCHANGED <<busy, deleting, stopping, failed>>
    BY <1>0, <1>2, PollKeepsWay DEF PollAgain, buttonVars
  <2> QED
    BY <2>1, WayKeeps
<1>3. ASSUME NEW r \in requests, Handle(r) \/ Receive(r) \/ Fail(r) PROVE BlockInv'
  <2>1. r.kind \in Kinds
    BY DEF PageInv, PageShape, IsRequest
  <2> QED
    BY <1>3, <2>1, HandleKeepsBlocks, FailureKeepsBlocks, SuccessKeepsBlocks DEF Receive
<1>4. CASE \E h \in Ids : HarvestStarts(h) \/ HarvestEnds(h) \/ OtherRemoves(h)
  <2>1. UNCHANGED <<busy, deleting, stopping, failed, requests>>
    BY <1>4 DEF HarvestStarts, HarvestEnds, OtherRemoves, Unseen, buttonVars
  <2> QED
    BY <1>0, <2>1, WayKeeps
<1>5. CASE UNCHANGED vars
  <2>1. UNCHANGED <<busy, deleting, stopping, failed, requests>>
    BY <1>5 DEF vars, buttonVars, historyVars
  <2> QED
    BY <1>0, <2>1, WayKeeps
<1> QED
  BY <1>1, <1>2, <1>3, <1>4, <1>5 DEF Next

\* A button is blocked exactly as long as its one request is on its way or failed, and
\* the form that is blocked is that of the harvester whose removal is on its way or
\* failed (gnClickAndSpin, deleteHarvester, stopHarvester).
THEOREM BlockedAsLongAsNeeded == PageSpec => []BlockedForCause
<1>1. ASSUME BlockInv PROVE BlockedForCause
  <2>1. \A b \in Buttons : SlotOK(b)
    BY <1>1 DEF BlockInv
  <2>2. \A b \in Buttons : /\ b \in busy <=> OnItsWay(b) \cup FailedOf(b) # {}
                           /\ \A x, y \in OnItsWay(b) : x = y
    BY <2>1 DEF SlotOK
  <2>3. ToSet(deleting) = {r.id : r \in OnItsWay("remove")} \cup {f[2] : f \in FailedOf("remove")}
    <3>1. CASE "remove" \notin busy /\ deleting = <<>>
      <4>1. OnItsWay("remove") = {} /\ FailedOf("remove") = {} /\ ToSet(deleting) = {}
        BY <2>1, <3>1, KindsAre DEF SlotOK, ToSet
      <4> QED
        BY <4>1
    <3>2. ASSUME NEW q, FailedOf("remove") = {}, OnItsWay("remove") = {q}, deleting = <<q.id>>
          PROVE  ToSet(deleting) = {r.id : r \in OnItsWay("remove")} \cup {f[2] : f \in FailedOf("remove")}
      <4>1. ToSet(deleting) = {q.id}
        BY <3>2 DEF ToSet
      <4> QED
        BY <3>2, <4>1
    <3>3. ASSUME NEW f, OnItsWay("remove") = {}, FailedOf("remove") = {f}, deleting = <<f[2]>>
          PROVE  ToSet(deleting) = {r.id : r \in OnItsWay("remove")} \cup {g[2] : g \in FailedOf("remove")}
      <4>1. ToSet(deleting) = {f[2]}
        BY <3>3 DEF ToSet
      <4> QED
        BY <3>3, <4>1
    <3> QED
      BY <1>1, <3>1, <3>2, <3>3 DEF BlockInv, DeletingOK
  <2> QED
    BY <1>1, <2>2, <2>3 DEF BlockInv, BlockedForCause
<1> QED
  BY <1>1, PageInit, PageNext, BlockInit, BlockNext, PTL DEF PageSpec

-----------------------------------------------------------------------------
(* The types.                                                               *)

FormIds == Ids \cup {NewId, None}

\* The answer to an addition has the new harvester.
Sent(r) == r.kind \in {"add", "clone"} /\ r.stage = "handled" => DOMAIN r.found # {}
Typed(R) == R \subseteq Request /\ IsFiniteSet(R) /\ \A r \in R : Sent(r)

FormTypes   == form \in Form /\ isNew \in BOOLEAN /\ loadingOne \in BOOLEAN /\ history \in FormIds
ButtonTypes == deleting \in Seq(Ids) /\ stopping \in BOOLEAN /\ busy \subseteq Buttons
CountTypes ==
  /\ made \subseteq Ids
  /\ clicks \in 0 .. MaxClicks /\ failures \in 0 .. MaxFailures /\ others \in 0 .. MaxOthers
  /\ failed \subseteq Kinds \X FormIds /\ orderly \in BOOLEAN
TypeInv == FormTypes /\ ButtonTypes /\ CountTypes /\ Typed(requests)

LEMMA RequestIs ==
  ASSUME NEW r \in Request
  PROVE  /\ DOMAIN r = Names
         /\ r.kind \in Kinds /\ r.id \in FormIds /\ r.ids \subseteq Ids /\ r.active \in BOOLEAN
         /\ r.after \in {"nothing", "refresh", "select"}
         /\ r.stage \in {"sent", "handled", "failed"} /\ r.found \in Harvesters
  BY DEF Request, Names, FormIds

LEMMA AlikeIs ==
  ASSUME NEW x, NEW r, Alike(x, r)
  PROVE  /\ x.kind = r.kind /\ x.id = r.id /\ x.ids = r.ids /\ x.active = r.active
         /\ x.after = r.after /\ x.stage = r.stage /\ x.found = r.found
  BY DEF Alike, Names

\* A new request is told apart from all that are on their way, by a number:
\* there are more numbers to choose from than requests.
LEMMA WithIsNumbered ==
  ASSUME NEW pending, IsFiniteSet(pending), NEW r, DOMAIN r = Names
  PROVE  \E n \in Nat : /\ With(pending, r) = pending \cup {[r EXCEPT !.n = n]}
                        /\ [r EXCEPT !.n = n] \notin pending
<1> DEFINE c == Cardinality(pending)
           I == 1 .. c + 1
           Nth(n) == [r EXCEPT !.n = n]
<1>1. c \in Nat
  BY FS_CardinalityType
<1>2. IsFiniteSet(I) /\ Cardinality(I) = c + 1
  BY <1>1, FS_Interval
<1>3. \E n \in I : Nth(n) \notin pending
  <2> SUFFICES ASSUME \A n \in I : Nth(n) \in pending PROVE FALSE
    OBVIOUS
  <2> DEFINE f == [n \in I |-> Nth(n)]
  <2>1. f \in [I -> pending]
    OBVIOUS
  <2>2. \A n \in I : f[n].n = n
    BY DEF Names
  <2> HIDE DEF f, I
  <2>3. c < Cardinality(I)
    BY <1>1, <1>2
  <2>4. \E x, y \in I : x # y /\ f[x] = f[y]
    BY <1>2, <2>1, <2>3, FS_PigeonHole
  <2> QED
    BY <2>2, <2>4
<1> DEFINE n == CHOOSE k \in I : Nth(k) \notin pending
<1>4. n \in I /\ Nth(n) \notin pending
  BY <1>3
<1>5. With(pending, r) = pending \cup {Nth(n)}
  BY DEF With
<1> HIDE DEF n
<1>6. n \in Nat
  BY <1>1, <1>4
<1> QED
  BY <1>4, <1>5, <1>6

LEMMA TypedWith ==
  ASSUME NEW R, Typed(R), NEW r \in Request, Sent(r)
  PROVE  Typed(With(R, r))
<1>1. DOMAIN r = Names
  BY RequestIs
<1>2. PICK n \in Nat : With(R, r) = R \cup {[r EXCEPT !.n = n]}
  BY <1>1, WithIsNumbered DEF Typed
<1>3. PICK q : q = [r EXCEPT !.n = n]
  OBVIOUS
<1>4. q \in Request
  BY <1>3 DEF Request
<1>5. Sent(q)
  BY <1>1, <1>3 DEF Sent, Names
<1> QED
  BY <1>2, <1>3, <1>4, <1>5, FS_AddElement DEF Typed

\* The requests of the page.
LEMMA BlankTyped ==
  ASSUME NEW kind \in Kinds
  PROVE  /\ Blank(kind) \in Request /\ Blank(kind).stage = "sent"
         /\ Blank(kind).kind = kind
  BY NoHarvesters DEF Blank, Request

LEMMA AboutTyped ==
  ASSUME NEW kind \in Kinds, NEW id \in FormIds
  PROVE  /\ About(kind, id) \in Request /\ Sent(About(kind, id))
         /\ \A after \in {"nothing", "refresh", "select"} :
              LET r == [About(kind, id) EXCEPT !.after = after]
              IN  r \in Request /\ Sent(r)
         /\ \A b \in BOOLEAN :
              LET r == [About(kind, id) EXCEPT !.active = b]
              IN  r \in Request /\ Sent(r)
<1>1. Blank(kind) \in Request /\ Blank(kind).stage = "sent"
  BY BlankTyped
<1>2. PICK b : b = Blank(kind)
  OBVIOUS
<1>3. About(kind, id) = [b EXCEPT !.id = id]
  BY <1>2 DEF About
<1>4. PICK a : a = About(kind, id)
  OBVIOUS
<1>5. a \in Request /\ a.stage = "sent"
  BY <1>1, <1>2, <1>3, <1>4 DEF Request, FormIds
<1>6. \A after \in {"nothing", "refresh", "select"} :
        [a EXCEPT !.after = after] \in Request /\ [a EXCEPT !.after = after].stage = "sent"
  BY <1>5 DEF Request
<1>7. \A c \in BOOLEAN :
        [a EXCEPT !.active = c] \in Request /\ [a EXCEPT !.active = c].stage = "sent"
  BY <1>5 DEF Request
<1>8. \A r : r.stage = "sent" => Sent(r)
  BY DEF Sent
<1> QED
  BY <1>4, <1>5, <1>6, <1>7, <1>8

LEMMA PollTyped ==
  ASSUME NEW R, Typed(R), NEW l, l # None => l \in Harvesters
  PROVE  Typed(WithPoll(R, l))
<1>1. ShownRunning(l) \subseteq Ids
  BY HarvestersAre DEF ShownRunning
<1>2. "poll" \in Kinds
  BY DEF Kinds
<1>3. PICK b : b = Blank("poll")
  OBVIOUS
<1>4. b \in Request /\ b.kind = "poll"
  BY <1>2, <1>3, BlankTyped
<1>5. PICK q : q = [b EXCEPT !.ids = ShownRunning(l)]
  OBVIOUS
<1>6. q \in Request /\ q.kind = "poll"
  BY <1>1, <1>4, <1>5 DEF Request
<1>7. Sent(q)
  BY <1>6 DEF Sent
<1> QED
  BY <1>3, <1>5, <1>6, <1>7, TypedWith DEF WithPoll

LEMMA LoadTyped ==
  ASSUME NEW R, Typed(R), NEW after \in {"nothing", "refresh", "select"}, NEW id \in FormIds,
         LoadHarvesters(R, after, id)
  PROVE  Typed(requests')
<1>1. "list" \in Kinds
  BY DEF Kinds
<1> QED
  BY <1>1, AboutTyped, TypedWith DEF LoadHarvesters

\* The forms of the page.
LEMMA FormTyped ==
  /\ NoForm \in Form
  /\ \A id \in FormIds : \A status \in Status : \A listed \in BOOLEAN :
       FormOf(id, status, listed) \in Form
  /\ \A f \in Form : /\ Unlisted(f) \in Form /\ f.id \in FormIds
                     /\ DOMAIN f = FormNames /\ f.active \in BOOLEAN
                     /\ \A b \in BOOLEAN : /\ [f EXCEPT !.active = b] \in Form
                                           /\ [f EXCEPT !.running = b] \in Form
                     /\ \A id \in FormIds : [Unlisted(f) EXCEPT !.id = id] \in Form
<1>1. NoForm \in Form
  BY DEF NoForm, Form
<1>2. \A id \in FormIds : \A status \in Status : \A listed \in BOOLEAN :
        FormOf(id, status, listed) \in Form
  BY StatusIs DEF FormOf, Form, FormIds
<1>3. ASSUME NEW f \in Form
      PROVE  /\ Unlisted(f) \in Form /\ f.id \in FormIds
             /\ DOMAIN f = FormNames /\ f.active \in BOOLEAN
             /\ \A b \in BOOLEAN : /\ [f EXCEPT !.active = b] \in Form
                                   /\ [f EXCEPT !.running = b] \in Form
  BY DEF Form, Unlisted, FormIds, FormNames
<1>4. ASSUME NEW f \in Form, NEW id \in FormIds
      PROVE  [Unlisted(f) EXCEPT !.id = id] \in Form
  <2>1. Unlisted(f) \in Form
    BY <1>3
  <2> QED
    BY <2>1 DEF Form, FormIds
<1> QED
  BY <1>1, <1>2, <1>3, <1>4

LEMMA RemovedTyped ==
  ASSUME NEW s \in Seq(Ids)
  PROVE  Removed(s) \in Seq(Ids)
<1>1. CASE s = <<>>
  BY <1>1 DEF Removed
<1>2. CASE s # <<>>
  <2> DEFINE n == Len(s) - 1
  <2>1. Removed(s) = SubSeq(s, 1, n)
    BY <1>2 DEF Removed, Front
  <2>2. n \in Nat /\ \A i \in 1..n : s[i] \in Ids
    BY <1>2
  <2> HIDE DEF n
  <2>3. SubSeq(s, 1, n) \in Seq(Ids)
    BY <2>2, SubSeqProperties, 1 \in Int, n \in Int
  <2> QED
    BY <2>1, <2>3
<1> QED
  BY <1>1, <1>2

LEMMA TypeInit == Init => TypeInv
<1> SUFFICES ASSUME Init PROVE TypeInv
  OBVIOUS
<1>1. FormTypes
  BY FormTyped DEF Init, FormTypes, FormIds
<1>4. ButtonTypes
  <2>1. deleting = <<>> /\ stopping = FALSE /\ busy = {}
    BY DEF Init
  <2>2. <<>> \in Seq(Ids)
    OBVIOUS
  <2> QED
    BY <2>1, <2>2 DEF ButtonTypes
<1>2. CountTypes
  BY IdAssumption, BoundAssumption DEF Init, CountTypes
<1>3. Typed(requests)
  <2>1. "list" \in Kinds
    BY DEF Kinds
  <2>2. requests = {Blank("list")} /\ Blank("list") \in Request
    BY <2>1, BlankTyped DEF Init
  <2>3. Sent(Blank("list"))
    BY <2>1, BlankTyped DEF Sent
  <2> QED
    BY <2>2, <2>3, FS_Singleton DEF Typed
<1> QED
  BY <1>1, <1>2, <1>3, <1>4 DEF TypeInv

LEMMA ClickCounts ==
  ASSUME CountTypes, Click
  PROVE  CountTypes'
<1>1. clicks' \in 0 .. MaxClicks
  BY BoundAssumption DEF CountTypes, Click
<1>2. orderly' \in BOOLEAN
  BY DEF CountTypes, Click
<1> QED
  BY <1>1, <1>2 DEF CountTypes, Click, serverVars

LEMMA UserTypes ==
  ASSUME PageInv, TypeInv, ByUser
  PROVE  TypeInv'
<1>0. /\ form \in Form /\ form.id \in FormIds /\ form.active \in BOOLEAN
      /\ \A id \in Ids : id \in FormIds
      /\ NewId \in FormIds /\ None \in FormIds /\ Typed(requests)
  BY FormTyped DEF TypeInv, FormTypes, FormIds
<1>1. CountTypes'
  <2>1. Click
    BY DEF ByUser, New, Edit, Save, Run, Stop, DeleteRecords, DeleteHarvester, Refresh,
           Select, Clone, Press
  <2> QED
    BY <2>1, ClickCounts DEF TypeInv
<1>2. \A kind \in Kinds : OfForm(kind) \in Request /\ Sent(OfForm(kind))
  BY <1>0, AboutTyped DEF OfForm
<1>3. ASSUME NEW kind \in Kinds, Asks(kind) PROVE Typed(requests')
  BY <1>0, <1>2, <1>3, TypedWith DEF Asks
<1>4. ASSUME NEW button \in Buttons, Press(button), UNCHANGED <<formVars, deleting>>,
             stopping' \in BOOLEAN
      PROVE  FormTypes' /\ ButtonTypes'
  BY <1>4 DEF Press, TypeInv, FormTypes, ButtonTypes, formVars
<1>5. CASE Save
  <2>1. Typed(requests')
    <3>1. SaveKind \in Kinds /\ "schedule" \in Kinds
      BY DEF SaveKind, Kinds
    <3>2. Typed(With(requests, OfForm("schedule")))
      BY <1>0, <1>2, <3>1, TypedWith
    <3> QED
      BY <1>2, <1>5, <3>1, <3>2, TypedWith DEF Save
  <2>2. "save" \in Buttons /\ stopping' \in BOOLEAN
    BY <1>5 DEF Save, Buttons, TypeInv, ButtonTypes
  <2> QED
    BY <1>1, <1>4, <1>5, <2>1, <2>2 DEF Save, TypeInv
<1>6. CASE Run \/ Stop \/ DeleteRecords
  <2>1. \E kind \in {"run", "stop", "clear"} :
          Press(kind) /\ Asks(kind) /\ UNCHANGED <<formVars, deleting>>
    BY <1>6 DEF Run, Stop, DeleteRecords, formVars
  <2>2. stopping' \in BOOLEAN
    BY <1>6 DEF Run, Stop, DeleteRecords, TypeInv, ButtonTypes
  <2>3. {"run", "stop", "clear"} \subseteq Kinds /\ {"run", "stop", "clear"} \subseteq Buttons
    BY DEF Kinds, Buttons
  <2> QED
    BY <1>1, <1>3, <1>4, <2>1, <2>2, <2>3 DEF TypeInv
<1>7. CASE DeleteHarvester
  <2>1. form.id \in Ids
    BY <1>0, <1>7 DEF DeleteHarvester, Press, FormIds
  <2>2. deleting' \in Seq(Ids)
    BY <1>7, <2>1 DEF DeleteHarvester, TypeInv, ButtonTypes
  <2>3. busy' \subseteq Buttons /\ stopping' = stopping
    BY <1>7 DEF DeleteHarvester, Press, TypeInv, ButtonTypes, Buttons
  <2>4. "remove" \in Kinds
    BY DEF Kinds
  <2>5. Typed(requests')
    BY <1>3, <1>7, <2>4 DEF DeleteHarvester
  <2> QED
    BY <1>1, <1>7, <2>2, <2>3, <2>5
       DEF DeleteHarvester, TypeInv, FormTypes, ButtonTypes, formVars
<1>8. CASE New
  <2>1. [active |-> TRUE, running |-> FALSE] \in Status
    BY DEF Status
  <2>2. form' \in Form /\ isNew' \in BOOLEAN /\ history' \in FormIds
    BY <1>0, <1>8, <2>1, FormTyped DEF New
  <2> QED
    BY <1>1, <1>8, <2>2 DEF New, TypeInv, FormTypes, ButtonTypes, buttonVars
<1>9. CASE Edit
  <2>1. form' = [form EXCEPT !.active = ~form.active]
    BY <1>9 DEF Edit
  <2>2. (~form.active) \in BOOLEAN
    BY <1>0
  <2>3. form' \in Form
    BY <1>0, <2>1, <2>2, FormTyped
  <2> QED
    BY <1>1, <1>9, <2>3 DEF Edit, TypeInv, FormTypes, ButtonTypes, buttonVars
<1>10. CASE Refresh
  <2>1. Typed(requests')
    BY <1>0, <1>10, LoadTyped DEF Refresh
  <2>2. form' \in Form
    BY <1>0, <1>10, FormTyped DEF Refresh
  <2> QED
    BY <1>1, <1>10, <2>1, <2>2 DEF Refresh, TypeInv, FormTypes, ButtonTypes, buttonVars
<1>11. ASSUME NEW h \in Ids, Clone(h) PROVE TypeInv'
  <2>1. "clone" \in Kinds
    BY DEF Kinds
  <2>2. Typed(requests')
    BY <1>0, <1>11, <2>1, AboutTyped, TypedWith DEF Clone
  <2> QED
    BY <1>1, <1>11, <2>2 DEF Clone, TypeInv, FormTypes, ButtonTypes, buttonVars, formVars
<1>12. ASSUME NEW h \in Ids, Select(h) PROVE TypeInv'
  <2>1. "load" \in Kinds
    BY DEF Kinds
  <2>2. Typed(requests')
    BY <1>0, <1>12, <2>1, AboutTyped, TypedWith DEF Select
  <2>3. list[h] \in Status
    BY <1>12, HarvestersAre DEF Select, PageInv, PageShape
  <2>4. form' \in Form /\ isNew' \in BOOLEAN /\ history' \in FormIds /\ loadingOne' \in BOOLEAN
    BY <1>0, <1>12, <2>3, FormTyped DEF Select, Selected
  <2> QED
    BY <1>1, <1>12, <2>2, <2>4 DEF Select, TypeInv, FormTypes, ButtonTypes, buttonVars
<1> QED
  BY <1>5, <1>6, <1>7, <1>8, <1>9, <1>10, <1>11, <1>12 DEF ByUser

\* An answer takes the place of its request.
LEMMA AnswerTyped ==
  ASSUME TypeInv, NEW r \in requests, NEW found \in Harvesters, NEW stage \in {"handled", "failed"},
         r.kind \in {"add", "clone"} /\ stage = "handled" => DOMAIN found # {},
         requests' = With(requests \ {r}, [r EXCEPT !.stage = stage, !.found = found])
  PROVE  Typed(requests')
<1>1. r \in Request /\ Typed(requests \ {r})
  BY FS_RemoveElement DEF TypeInv, Typed
<1>2. PICK q : q = [r EXCEPT !.stage = stage, !.found = found]
  OBVIOUS
<1>3. q \in Request /\ q.kind = r.kind /\ q.stage = stage /\ q.found = found
  BY <1>1, <1>2 DEF Request
<1>4. Sent(q)
  BY <1>3 DEF Sent
<1> QED
  BY <1>1, <1>2, <1>3, <1>4, TypedWith

LEMMA HandleTypes ==
  ASSUME PageInv, TypeInv, NEW r \in requests, Handle(r)
  PROVE  TypeInv'
<1>1. FormTypes' /\ ButtonTypes'
  BY DEF Handle, TypeInv, FormTypes, ButtonTypes, formVars, buttonVars
<1>2. made' \subseteq Ids
  <2>1. made' = made \/ \E h \in Ids : made' = made \cup {h}
    <3>1. HandleRead(r) \/ HandleStatus(r) \/ HandleRemove(r) => made' = made
      BY DEF HandleRead, HandleStatus, HandleRemove, serverVars
    <3>2. HandleAdd(r) => made' = made \/ \E h \in Ids : made' = made \cup {h}
      BY DEF HandleAdd, serverVars
    <3> QED
      BY <3>1, <3>2 DEF Handle
  <2> QED
    BY <2>1 DEF TypeInv, CountTypes
<1>3. CountTypes'
  BY <1>2 DEF Handle, TypeInv, CountTypes, counters, historyVars
<1>4. ASSUME Refused(r) PROVE Typed(requests')
  BY <1>4, NoHarvesters, AnswerTyped DEF Refused
<1>5. ASSUME NEW found \in Harvesters, Answered(r, found), r.kind \notin {"add", "clone"}
      PROVE  Typed(requests')
  BY <1>5, AnswerTyped DEF Answered
<1>6. ASSUME HandleRead(r) PROVE Typed(requests')
  <2>1. ReadsOf(r) \subseteq DOMAIN server => Restrict(server, ReadsOf(r)) \in Harvesters
    BY RestrictIs DEF PageInv, PageShape
  <2>2. r.kind \notin {"add", "clone"}
    BY <1>6 DEF HandleRead
  <2> QED
    BY <1>4, <1>5, <1>6, <2>1, <2>2 DEF HandleRead
<1>7. ASSUME HandleStatus(r) PROVE Typed(requests')
  <2>1. r.kind \notin {"add", "clone"}
    BY <1>7 DEF HandleStatus
  <2>2. Typed(requests \ {r})
    BY FS_RemoveElement DEF TypeInv, Typed
  <2> QED
    BY <1>5, <1>7, <2>1, <2>2, NoHarvesters DEF HandleStatus
<1>8. ASSUME HandleRemove(r) PROVE Typed(requests')
  <2>1. r.kind \notin {"add", "clone"}
    BY <1>8 DEF HandleRemove
  <2> QED
    BY <1>5, <1>8, <2>1, NoHarvesters DEF HandleRemove
<1>9. ASSUME HandleAdd(r) PROVE Typed(requests')
  <2> DEFINE new == [active |-> FALSE, running |-> FALSE]
  <2>1. new \in Status
    BY DEF Status
  <2> HIDE DEF new
  <2>2. ASSUME NEW h \in Ids, Answered(r, [x \in {h} |-> new]) PROVE Typed(requests')
    <3>1. PICK found : found = [x \in {h} |-> new]
      OBVIOUS
    <3>2. found \in [{h} -> Status] /\ DOMAIN found # {}
      BY <2>1, <3>1
    <3>3. found \in Harvesters
      BY <3>2 DEF Harvesters
    <3> QED
      BY <2>2, <3>1, <3>2, <3>3, AnswerTyped DEF Answered
  <2>3. Refused(r) \/ \E h \in Ids : Answered(r, [x \in {h} |-> new])
    BY <1>9 DEF HandleAdd, new
  <2> QED
    BY <1>4, <2>2, <2>3
<1> QED
  BY <1>1, <1>3, <1>6, <1>7, <1>8, <1>9 DEF Handle, TypeInv

LEMMA FailTypes ==
  ASSUME TypeInv, NEW r \in requests, Fail(r)
  PROVE  TypeInv'
<1>1. FormTypes' /\ ButtonTypes'
  BY DEF Fail, TypeInv, FormTypes, ButtonTypes, formVars, buttonVars
<1>2. failures' \in 0 .. MaxFailures
  BY BoundAssumption DEF Fail, TypeInv, CountTypes
<1>3. CountTypes'
  BY <1>2 DEF Fail, TypeInv, CountTypes, serverVars
<1>4. Typed(requests')
  BY NoHarvesters, AnswerTyped DEF Fail, Refused
<1> QED
  BY <1>1, <1>3, <1>4 DEF TypeInv

LEMMA OtherTypes ==
  ASSUME TypeInv, NEW h \in Ids, HarvestStarts(h) \/ HarvestEnds(h) \/ OtherRemoves(h)
  PROVE  TypeInv'
<1>1. /\ UNCHANGED <<made, listVars, formVars, buttonVars, requests, clicks, failures, failed>>
      /\ orderly' \in BOOLEAN
  BY DEF HarvestStarts, HarvestEnds, OtherRemoves, Unseen, TypeInv, CountTypes
<1>2. others' \in 0 .. MaxOthers
  BY BoundAssumption DEF HarvestStarts, HarvestEnds, OtherRemoves, Other, TypeInv, CountTypes
<1>3. CountTypes'
  BY <1>1, <1>2 DEF TypeInv, CountTypes
<1>4. Typed(requests')
  BY <1>1 DEF TypeInv
<1> QED
  BY <1>1, <1>3, <1>4 DEF TypeInv, FormTypes, ButtonTypes, formVars, buttonVars

\* The answers.
LEMMA ReceiveTypes ==
  ASSUME PageInv, TypeInv, NEW r \in requests, Receive(r)
  PROVE  TypeInv'
<1>0. /\ r \in Request /\ r.kind \in Kinds /\ r.id \in FormIds /\ r.found \in Harvesters
      /\ Typed(requests \ {r}) /\ Typed(Rest(r))
  BY RequestIs, FS_RemoveElement DEF TypeInv, Typed, Rest
<1>1. failed' \subseteq Kinds \X FormIds
  <2>1. failed \subseteq Kinds \X FormIds
    BY DEF TypeInv, CountTypes
  <2>2. failed' = failed \/ failed' = failed \cup {<<r.kind, r.id>>}
    BY DEF Receive, ReceiveFailure, ReceiveSuccess
  <2> QED
    BY <1>0, <2>1, <2>2
<1>2. CountTypes'
  BY <1>1 DEF Receive, TypeInv, CountTypes, serverVars, counters
<1>3. /\ form \in Form /\ isNew \in BOOLEAN /\ loadingOne \in BOOLEAN /\ history \in FormIds
      /\ deleting \in Seq(Ids) /\ stopping \in BOOLEAN /\ busy \subseteq Buttons
  BY DEF TypeInv, FormTypes, ButtonTypes
<1>4. NoForm \in Form /\ Unlisted(form) \in Form
      /\ \A id \in FormIds : [Unlisted(form) EXCEPT !.id = id] \in Form
  BY <1>3, FormTyped
<1>5. \A id \in Ids \cup {None} : id \in FormIds
  BY DEF FormIds
<1>6. CASE ReceiveFailure(r)
  <2>1. loadingOne' \in BOOLEAN
    BY <1>3, <1>6 DEF ReceiveFailure
  <2>2. FormTypes'
    BY <1>6, <2>1 DEF ReceiveFailure, TypeInv, FormTypes
  <2>3. ButtonTypes'
    BY <1>6 DEF ReceiveFailure, TypeInv, ButtonTypes, buttonVars
  <2>4. Typed(requests')
    BY <1>0, <1>6 DEF ReceiveFailure
  <2> QED
    BY <1>2, <2>2, <2>3, <2>4 DEF TypeInv
<1>7. ASSUME ReceiveList(r) PROVE TypeInv'
  <2>1. PICK l : l = ListOf(r.found)
    OBVIOUS
  <2>2. l # None => l \in Harvesters
    BY <1>0, <2>1 DEF ListOf
  <2>3. PICK rest : rest = WithPoll(requests \ {r}, l)
    OBVIOUS
  <2>4. Typed(rest)
    BY <1>0, <2>2, <2>3, PollTyped
  <2>5. ButtonTypes'
    BY <1>7 DEF ReceiveList, TypeInv, ButtonTypes, buttonVars
  <2>6. \/ /\ form' = Unlisted(form) /\ requests' = rest
           /\ UNCHANGED <<isNew, loadingOne, history>>
        \/ \E h \in ToSelect(r, l) : Selected(h, l) /\ requests' = With(rest, About("load", h))
    BY <1>7, <2>1, <2>3 DEF ReceiveList
  <2>7. ASSUME NEW h \in ToSelect(r, l), Selected(h, l),
               requests' = With(rest, About("load", h))
        PROVE  FormTypes' /\ Typed(requests')
    <3>1. l # None /\ h \in DOMAIN l
      BY DEF ToSelect
    <3>2. h \in FormIds /\ l[h] \in Status
      BY <1>5, <2>2, <3>1, HarvestersAre
    <3>3. FormTypes'
      BY <1>5, <2>7, <3>2, FormTyped DEF Selected, FormTypes
    <3>4. "load" \in Kinds
      BY DEF Kinds
    <3> QED
      BY <2>4, <2>7, <3>2, <3>3, <3>4, AboutTyped, TypedWith
  <2>8. CASE form' = Unlisted(form) /\ requests' = rest /\ UNCHANGED <<isNew, loadingOne, history>>
    <3>1. FormTypes'
      BY <1>3, <1>4, <2>8 DEF FormTypes
    <3> QED
      BY <1>2, <2>4, <2>5, <2>8, <3>1 DEF TypeInv
  <2> QED
    BY <1>2, <2>5, <2>6, <2>7, <2>8 DEF TypeInv
<1>8. ASSUME ReceivePoll(r) PROVE TypeInv'
  <2>1. form' \in Form
    <3>1. \A h \in DOMAIN r.found : r.found[h].running \in BOOLEAN
      BY <1>0, HarvestersAre DEF Status
    <3> QED
      BY <1>3, <1>8, <3>1, FormTyped DEF ReceivePoll
  <2>2. FormTypes' /\ ButtonTypes'
    BY <1>3, <1>8, <2>1 DEF ReceivePoll, FormTypes, ButtonTypes, buttonVars
  <2>3. Typed(requests')
    BY <1>0, <1>8 DEF ReceivePoll
  <2> QED
    BY <1>2, <2>2, <2>3 DEF TypeInv
<1>9. ASSUME ReceiveLoad(r), r.kind = "load", r.stage = "handled" PROVE TypeInv'
  <2>1. r.found[r.id] \in Status
    BY <1>9, HarvestersAre DEF PageInv, PageShape, IsRequest
  <2>2. FormTypes'
    BY <1>0, <1>5, <1>9, <2>1, FormTyped DEF ReceiveLoad, FormTypes
  <2>3. ButtonTypes'
    BY <1>9 DEF ReceiveLoad, TypeInv, ButtonTypes, buttonVars
  <2>4. "history" \in Kinds
    BY DEF Kinds
  <2>5. Typed(requests')
    BY <1>0, <1>9, <2>4, AboutTyped, TypedWith DEF ReceiveLoad
  <2> QED
    BY <1>2, <2>2, <2>3, <2>5 DEF TypeInv
<1>10. ASSUME ReceiveHistory(r) PROVE TypeInv'
  <2>1. FormTypes' /\ ButtonTypes'
    BY <1>0, <1>3, <1>10 DEF ReceiveHistory, FormTypes, ButtonTypes, buttonVars
  <2>2. Typed(requests')
    BY <1>0, <1>10 DEF ReceiveHistory
  <2> QED
    BY <1>2, <2>1, <2>2 DEF TypeInv
<1>11. ASSUME ReceiveSave(r), IsAnswered(r), r.kind \in {"add", "update"} PROVE TypeInv'
  <2>1. PICK id : id = IF r.kind = "add" THEN CHOOSE h \in DOMAIN r.found : TRUE ELSE r.id
    OBVIOUS
  <2>2. id \in FormIds
    <3>1. CASE r.kind = "add"
      <4>1. DOMAIN r.found # {} /\ DOMAIN r.found \subseteq Ids
        BY <1>0, <1>11, <3>1, HarvestersAre DEF IsAnswered, TypeInv, Typed, Sent
      <4> QED
        BY <1>5, <2>1, <3>1, <4>1
    <3> QED
      BY <1>0, <2>1, <3>1
  <2>3. form' \in Form
    <3>1. PICK f : f = Unlisted(form)
      OBVIOUS
    <3>2. f \in Form /\ [f EXCEPT !.id = id] \in Form
      BY <1>4, <2>2, <3>1
    <3>3. form' = f \/ form' = [f EXCEPT !.id = id]
      BY <1>11, <2>1, <3>1 DEF ReceiveSave
    <3> QED
      BY <3>2, <3>3
  <2>4. FormTypes' /\ ButtonTypes'
    BY <1>3, <1>11, <2>3 DEF ReceiveSave, FormTypes, ButtonTypes
  <2>5. Typed(requests')
    BY <1>0, <1>5, <1>11, LoadTyped DEF ReceiveSave
  <2> QED
    BY <1>2, <2>4, <2>5 DEF TypeInv
<1>12. ASSUME ReceiveRun(r) PROVE TypeInv'
  <2>1. stopping' \in BOOLEAN
    BY <1>3, <1>12 DEF ReceiveRun
  <2>2. FormTypes' /\ ButtonTypes'
    BY <1>3, <1>4, <1>12, <2>1 DEF ReceiveRun, FormTypes, ButtonTypes
  <2>3. Typed(requests')
    BY <1>0, <1>5, <1>12, LoadTyped DEF ReceiveRun
  <2> QED
    BY <1>2, <2>2, <2>3 DEF TypeInv
<1>13. ASSUME ReceiveRemove(r) PROVE TypeInv'
  <2>1. deleting' \in Seq(Ids)
    BY <1>3, <1>13, RemovedTyped DEF ReceiveRemove
  <2>2. FormTypes' /\ ButtonTypes'
    BY <1>3, <1>4, <1>13, <2>1 DEF ReceiveRemove, FormTypes, ButtonTypes
  <2>3. Typed(requests')
    BY <1>0, <1>5, <1>13, LoadTyped DEF ReceiveRemove
  <2> QED
    BY <1>2, <2>2, <2>3 DEF TypeInv
<1>14. ASSUME ReceiveClone(r), IsAnswered(r), r.kind = "clone" PROVE TypeInv'
  <2>1. DOMAIN r.found # {} /\ DOMAIN r.found \subseteq Ids
    BY <1>0, <1>14, HarvestersAre DEF IsAnswered, TypeInv, Typed, Sent
  <2>2. (CHOOSE h \in DOMAIN r.found : TRUE) \in FormIds
    BY <1>5, <2>1
  <2>3. FormTypes' /\ ButtonTypes'
    BY <1>3, <1>4, <1>14 DEF ReceiveClone, FormTypes, ButtonTypes, buttonVars
  <2>4. Typed(requests')
    BY <1>0, <1>14, <2>2, LoadTyped DEF ReceiveClone
  <2> QED
    BY <1>2, <2>3, <2>4 DEF TypeInv
<1>15. CASE IsAnswered(r) /\ ReceiveSuccess(r)
  <2>1. r.kind = "load" => r.stage = "handled"
    BY <1>15 DEF IsAnswered
  <2> QED
    BY <1>7, <1>8, <1>9, <1>10, <1>11, <1>12, <1>13, <1>14, <1>15, <2>1 DEF ReceiveSuccess
<1> QED
  BY <1>6, <1>15 DEF Receive

LEMMA TypeNext == PageInv /\ TypeInv /\ [Next]_vars => TypeInv'
<1> SUFFICES ASSUME PageInv, TypeInv, [Next]_vars PROVE TypeInv'
  OBVIOUS
<1>1. CASE ByUser
  BY <1>1, UserTypes
<1>2. CASE PollAgain
  <2>1. /\ UNCHANGED <<serverVars, formVars, buttonVars, counters, failed, orderly>>
        /\ requests' = WithPoll(requests, list)
    BY <1>2 DEF PollAgain
  <2>2. Typed(requests')
    BY <2>1, PollTyped DEF PageInv, PageShape, TypeInv
  <2>3. CountTypes'
    BY <2>1 DEF TypeInv, CountTypes, serverVars, counters
  <2> QED
    BY <2>1, <2>2, <2>3 DEF TypeInv, FormTypes, ButtonTypes, formVars, buttonVars
<1>3. CASE \E r \in requests : Handle(r) \/ Receive(r) \/ Fail(r)
  BY <1>3, HandleTypes, ReceiveTypes, FailTypes
<1>4. CASE \E h \in Ids : HarvestStarts(h) \/ HarvestEnds(h) \/ OtherRemoves(h)
  BY <1>4, OtherTypes
<1>5. CASE UNCHANGED vars
  <2>1. Typed(requests')
    BY <1>5 DEF vars, TypeInv
  <2>2. CountTypes'
    BY <1>5 DEF vars, TypeInv, CountTypes, serverVars, counters, historyVars
  <2> QED
    BY <1>5, <2>1, <2>2 DEF vars, TypeInv, FormTypes, ButtonTypes, formVars, buttonVars
<1> QED
  BY <1>1, <1>2, <1>3, <1>4, <1>5 DEF Next

\* Every variable has its type: the answers in any order and at any time, and
\* failures, leave on the page only forms, lists and removals of harvesters there
\* are ids for, and what is sent is a request.
THEOREM PageTypeCorrect == PageSpec => []PageTypeOK
<1>1. PageInv /\ TypeInv => PageTypeOK
  <2> SUFFICES ASSUME PageInv, TypeInv PROVE PageTypeOK
    OBVIOUS
  <2>1. /\ server \in Harvesters /\ list \in Harvesters \cup {None}
        /\ polling \in BOOLEAN /\ timers \in Nat /\ pollLost \in BOOLEAN
    BY DEF PageInv, PageShape, PollInv
  <2>2. /\ form \in Form /\ isNew \in BOOLEAN /\ loadingOne \in BOOLEAN
        /\ history \in Ids \cup {NewId, None}
        /\ deleting \in Seq(Ids) /\ stopping \in BOOLEAN /\ busy \subseteq Buttons
        /\ requests \subseteq Request
    BY DEF TypeInv, FormTypes, ButtonTypes, FormIds, Typed
  <2> QED
    BY <2>1, <2>2 DEF PageTypeOK, TypeInv, CountTypes, FormIds
<1> QED
  BY <1>1, PageInit, PageNext, TypeInit, TypeNext, PTL DEF PageSpec

-----------------------------------------------------------------------------
(* The user who waits.                                                      *)

\* Polls, and schedules that a save does not wait for, go on by the side of
\* the others.
Background == {"poll", "schedule"}
Calls(R)   == {r \in R : r.kind \notin Background}

\* The page between two clicks.
ListAgrees == IF list = None THEN DOMAIN server = {} ELSE DOMAIN list = DOMAIN server
FormAgrees ==
  /\ form.id \in DOMAIN server \cup {NewId, None}
  /\ form.id # None => history \in {None, form.id} /\ (isNew <=> form.id = NewId)
Quiet == ~loadingOne /\ ~stopping /\ busy = {} /\ deleting = <<>>
Idle  == ListAgrees /\ FormAgrees /\ Quiet

\* The page while a request is on its way: the buttons that wait for it, and
\* what its answer will make of the list and of the form.
Pressed(button) ==
  /\ ~loadingOne /\ busy = {button} /\ (stopping <=> button = "stop")
  /\ button # "remove" => deleting = <<>>
ListBusy(r) ==
  /\ Quiet
  /\ r.after = "nothing" => FormAgrees
  /\ r.after = "refresh" => FormAgrees \/ form.id \in DOMAIN server
  /\ r.after = "select"  => r.id \in DOMAIN server
  /\ r.stage = "handled" => DOMAIN r.found = DOMAIN server
LoadBusy(r) ==
  ListAgrees /\ r.id \in DOMAIN server /\ ~stopping /\ busy = {} /\ deleting = <<>>
Added(r) == r.stage = "handled" => DOMAIN r.found \subseteq DOMAIN server
Busy(r) ==
  /\ r.stage # "failed"
  /\ r.kind = "list"    => ListBusy(r)
  /\ r.kind = "load"    => LoadBusy(r)
  /\ r.kind = "history" => Idle /\ r.id = form.id
  /\ r.kind = "add"     => Pressed("save") /\ form.id = NewId /\ Added(r)
  /\ r.kind = "update"  => Pressed("save") /\ form.id \in DOMAIN server
  /\ r.kind \in {"run", "stop"} => Pressed(r.kind) /\ form.id \in DOMAIN server
  /\ r.kind = "clear"   => Pressed("clear")
  /\ r.kind = "remove"  => Pressed("remove") /\ Len(deleting) = 1
  /\ r.kind = "clone"   => /\ Quiet /\ Added(r)
                           /\ r.stage = "sent" => r.id \in DOMAIN server

Settled == \/ Calls(requests) = {} /\ Idle
           \/ \E r \in requests : Calls(requests) = {r} /\ Busy(r)
OrderInv == orderly => Settled

LEMMA EmptyIs ==
  ASSUME NEW f \in Harvesters
  PROVE  f = <<>> <=> DOMAIN f = {}
<1>1. f = [h \in DOMAIN f |-> f[h]]
  BY HarvestersAre
<1>2. DOMAIN f = {} => f = <<>>
  BY <1>1
<1> QED
  BY <1>2

LEMMA CallsWith ==
  ASSUME NEW R, NEW r, DOMAIN r = Names
  PROVE  /\ r.kind \in Background => Calls(With(R, r)) = Calls(R)
         /\ r.kind \notin Background =>
              \E q \in With(R, r) : Alike(q, r) /\ Calls(With(R, r)) = Calls(R) \cup {q}
<1>1. PICK q : Alike(q, r) /\ With(R, r) = R \cup {q}
  BY WithAdds
<1>2. q.kind = r.kind
  BY <1>1, AlikeIs
<1> QED
  BY <1>1, <1>2 DEF Calls

LEMMA CallsPoll ==
  ASSUME NEW R, NEW l
  PROVE  Calls(WithPoll(R, l)) = Calls(R)
<1>1. PICK q : q = [Blank("poll") EXCEPT !.ids = ShownRunning(l)]
  OBVIOUS
<1>2. DOMAIN q = Names /\ q.kind \in Background
  BY <1>1 DEF Blank, Names, Background
<1> QED
  BY <1>1, <1>2, CallsWith DEF WithPoll

\* What is alike does the same.
LEMMA AlikeBusy ==
  ASSUME NEW x, NEW q, Alike(x, q), Busy(q)'
  PROVE  Busy(x)'
<1>1. /\ x.kind = q.kind /\ x.id = q.id /\ x.after = q.after
      /\ x.stage = q.stage /\ x.found = q.found
  BY AlikeIs
<1>2. /\ ListBusy(q)' => ListBusy(x)'
      /\ LoadBusy(q)' => LoadBusy(x)'
      /\ Added(q)' => Added(x)'
      /\ Pressed(q.kind)' => Pressed(x.kind)'
  BY <1>1 DEF ListBusy, LoadBusy, Added, Pressed
<1> QED
  BY <1>1, <1>2 DEF Busy

\* The next request of a chain, or the first.
LEMMA NextCall ==
  ASSUME NEW R, Calls(R) = {}, NEW q, DOMAIN q = Names, q.kind \notin Background,
         requests' = With(R, q), Busy(q)'
  PROVE  Settled'
<1>1. PICK x \in requests' : Alike(x, q) /\ Calls(requests') = {x}
  BY CallsWith
<1>2. Busy(x)'
  BY <1>1, AlikeBusy
<1> QED
  BY <1>1, <1>2 DEF Settled

\* What the page shows stays, and so do the harvesters there are.
LEMMA SameSettled ==
  ASSUME Settled, Calls(requests') = Calls(requests), DOMAIN server' = DOMAIN server,
         (list = None) = (list' = None), list # None => DOMAIN list' = DOMAIN list,
         form'.id = form.id, UNCHANGED <<isNew, history, loadingOne, stopping, busy, deleting>>
  PROVE  Settled'
<1>1. ListAgrees' = ListAgrees
  BY DEF ListAgrees
<1>2. FormAgrees' = FormAgrees /\ Quiet' = Quiet
  BY DEF FormAgrees, Quiet
<1>3. Idle' = Idle
  BY <1>1, <1>2 DEF Idle
<1>4. ASSUME NEW r, Busy(r)
      PROVE  Busy(r)'
  <2>1. ListBusy(r)' = ListBusy(r)
    BY <1>2 DEF ListBusy
  <2>2. LoadBusy(r)' = LoadBusy(r) /\ Added(r)' = Added(r)
    BY <1>1 DEF LoadBusy, Added
  <2>3. \A button : Pressed(button)' = Pressed(button)
    BY DEF Pressed
  <2> QED
    BY <1>2, <1>3, <1>4, <2>1, <2>2, <2>3 DEF Busy
<1>5. CASE Calls(requests) = {} /\ Idle
  BY <1>3, <1>5 DEF Settled
<1>6. ASSUME NEW r \in requests, Calls(requests) = {r}, Busy(r)
      PROVE  Settled'
  <2>1. r \in requests'
    BY <1>6 DEF Calls
  <2> QED
    BY <1>4, <1>6, <2>1 DEF Settled
<1> QED
  BY <1>5, <1>6 DEF Settled

LEMMA OrderInit == Init => OrderInv
<1> SUFFICES ASSUME Init PROVE OrderInv
  OBVIOUS
<1>1. PICK r : r = Blank("list")
  OBVIOUS
<1>2. r.kind = "list" /\ r.stage = "sent" /\ r.after = "nothing" /\ requests = {r}
  BY <1>1 DEF Blank, Init
<1>3. Quiet /\ FormAgrees
  BY DEF Init, Quiet, FormAgrees, NoForm
<1>4. Busy(r)
  BY <1>2, <1>3 DEF Busy, ListBusy
<1>5. Calls(requests) = {r}
  BY <1>2 DEF Calls, Background
<1> QED
  BY <1>2, <1>4, <1>5 DEF OrderInv, Settled

\* The requests of the page are just sent.
LEMMA AskedIs ==
  ASSUME NEW kind, NEW id
  PROVE  /\ DOMAIN About(kind, id) = Names
         /\ About(kind, id).kind = kind /\ About(kind, id).id = id
         /\ About(kind, id).stage = "sent"
         /\ \A after : LET q == [About(kind, id) EXCEPT !.after = after]
                       IN  /\ DOMAIN q = Names /\ q.kind = kind /\ q.id = id
                           /\ q.after = after /\ q.stage = "sent"
         /\ \A b : LET q == [About(kind, id) EXCEPT !.active = b]
                   IN  /\ DOMAIN q = Names /\ q.kind = kind /\ q.id = id
                       /\ q.stage = "sent"
<1>1. PICK a : a = About(kind, id)
  OBVIOUS
<1>2. DOMAIN a = Names /\ a.kind = kind /\ a.id = id /\ a.stage = "sent"
  BY <1>1 DEF About, Blank, Names
<1>3. \A after : LET q == [a EXCEPT !.after = after]
                 IN  /\ DOMAIN q = Names /\ q.kind = kind /\ q.id = id
                     /\ q.after = after /\ q.stage = "sent"
  BY <1>2 DEF Names
<1>4. \A b : LET q == [a EXCEPT !.active = b]
             IN  DOMAIN q = Names /\ q.kind = kind /\ q.id = id /\ q.stage = "sent"
  BY <1>2 DEF Names
<1> QED
  BY <1>1, <1>2, <1>3, <1>4

\* A button is pressed between two calls.
LEMMA PressSettled ==
  ASSUME TypeInv, Idle, NEW R, Calls(R) = {}, NEW button \in Buttons, Press(button),
         UNCHANGED <<list, formVars>>, NEW kind \in Kinds \ Background,
         requests' = With(R, OfForm(kind)),
         stopping' = (button = "stop"),
         button # "remove" => deleting' = deleting,
         \/ button = "save" /\ kind = SaveKind
         \/ button \in {"run", "stop"} /\ kind = button /\ form.id # NewId
         \/ button = "clear" /\ kind = button
         \/ button = "remove" /\ kind = button /\ deleting' = Append(deleting, form.id)
  PROVE  Settled'
<1>1. PICK q : q = OfForm(kind)
  OBVIOUS
<1>2. DOMAIN q = Names /\ q.kind = kind /\ q.stage = "sent"
  BY <1>1, AskedIs DEF OfForm
<1>3. /\ form.id # None /\ loadingOne' = FALSE /\ busy' = {button} /\ form' = form
      /\ DOMAIN server' = DOMAIN server /\ isNew \in BOOLEAN
  BY DEF Press, Click, Idle, Quiet, formVars, serverVars, TypeInv, FormTypes
<1>4. Pressed(button)'
  BY <1>3 DEF Pressed, Idle, Quiet
<1>5. form.id # NewId => form'.id \in DOMAIN server'
  BY <1>3 DEF Idle, FormAgrees
<1>6. Added(q)' /\ q.stage # "failed"
  BY <1>2 DEF Added
<1>7. CASE button = "save"
  <2>1. kind = IF isNew THEN "add" ELSE "update"
    BY <1>7 DEF SaveKind
  <2>2. isNew <=> form.id = NewId
    BY <1>3 DEF Idle, FormAgrees
  <2>3. CASE isNew
    <3>1. kind = "add" /\ form'.id = NewId
      BY <1>3, <2>1, <2>2, <2>3
    <3>2. Busy(q)'
      BY <1>2, <1>4, <1>6, <1>7, <3>1 DEF Busy
    <3> QED
      BY <1>1, <1>2, <3>2, NextCall
  <2>4. CASE ~isNew
    <3>1. kind = "update" /\ form'.id \in DOMAIN server'
      BY <1>5, <2>1, <2>2, <2>4
    <3>2. Busy(q)'
      BY <1>2, <1>4, <1>6, <1>7, <3>1 DEF Busy
    <3> QED
      BY <1>1, <1>2, <3>2, NextCall
  <2> QED
    BY <2>3, <2>4
<1>8. CASE button \in {"run", "stop", "clear"} /\ kind = button
                         /\ (button = "clear" \/ form.id # NewId)
  <2>1. Busy(q)'
    BY <1>2, <1>4, <1>5, <1>6, <1>8 DEF Busy
  <2> QED
    BY <1>1, <1>2, <2>1, NextCall
<1>9. CASE button = "remove" /\ kind = button /\ deleting' = Append(deleting, form.id)
  <2>1. deleting = <<>>
    BY DEF Idle, Quiet
  <2>2. Len(deleting') = 1
    BY <1>9, <2>1
  <2>3. Busy(q)'
    BY <1>2, <1>4, <1>6, <1>9, <2>2 DEF Busy
  <2> QED
    BY <1>1, <1>2, <2>3, NextCall
<1> QED
  BY <1>7, <1>8, <1>9

\* The list is asked for.
LEMMA LoadSettled ==
  ASSUME NEW R, Calls(R) = {}, NEW after \in {"nothing", "refresh", "select"}, NEW id,
         LoadHarvesters(R, after, id), Quiet',
         after = "nothing" => FormAgrees',
         after = "refresh" => FormAgrees' \/ form'.id \in DOMAIN server',
         after = "select"  => id \in DOMAIN server'
  PROVE  Settled'
<1>1. PICK q : q = [About("list", id) EXCEPT !.after = after]
  OBVIOUS
<1>2. DOMAIN q = Names /\ q.kind = "list" /\ q.id = id /\ q.after = after /\ q.stage = "sent"
  BY <1>1, AskedIs
<1>3. ListBusy(q)'
  BY <1>2 DEF ListBusy
<1>4. Busy(q)'
  BY <1>2, <1>3 DEF Busy
<1>5. requests' = With(R, q) /\ q.kind \notin Background
  BY <1>1, <1>2 DEF LoadHarvesters, Background
<1> QED
  BY <1>2, <1>4, <1>5, NextCall

\* A harvester is asked for.
LEMMA SelectSettled ==
  ASSUME NEW R, Calls(R) = {}, NEW h \in DOMAIN server',
         requests' = With(R, About("load", h)), ListAgrees',
         stopping' = FALSE, busy' = {}, deleting' = <<>>
  PROVE  Settled'
<1>1. PICK q : q = About("load", h)
  OBVIOUS
<1>2. DOMAIN q = Names /\ q.kind = "load" /\ q.id = h /\ q.stage = "sent"
  BY <1>1, AskedIs
<1>3. Busy(q)'
  BY <1>2 DEF Busy, LoadBusy
<1>4. q.kind \notin Background
  BY <1>2 DEF Background
<1> QED
  BY <1>1, <1>2, <1>3, <1>4, NextCall

LEMMA UserSettled ==
  ASSUME PageInv, PageInv', TypeInv, Calls(requests) = {}, Idle, ByUser
  PROVE  Settled'
<1>0. /\ loadingOne = FALSE /\ stopping = FALSE /\ busy = {} /\ deleting = <<>>
      /\ DOMAIN form = FormNames
  BY DEF Idle, Quiet, TypeInv, FormTypes, ButtonTypes, PageInv, PageShape
<1>1. UNCHANGED serverVars
  BY DEF ByUser, New, Edit, Save, Run, Stop, DeleteRecords, DeleteHarvester, Refresh,
         Select, Clone, Press, Click
<1>2. CASE Save
  <2>1. PICK R : R = With(requests, OfForm("schedule"))
    OBVIOUS
  <2>2. Calls(R) = {}
    <3>1. PICK q : q = OfForm("schedule")
      OBVIOUS
    <3>2. DOMAIN q = Names /\ q.kind \in Background
      BY <3>1, AskedIs DEF OfForm, Background
    <3> QED
      BY <2>1, <3>1, <3>2, CallsWith
  <2>3. requests' = With(R, OfForm(SaveKind)) /\ SaveKind \in Kinds \ Background
    BY <1>2, <2>1 DEF Save, SaveKind, Kinds, Background
  <2>4. "save" \in Buttons /\ Press("save") /\ UNCHANGED <<list, formVars, deleting, stopping>>
    BY <1>2 DEF Save, Buttons
  <2>5. stopping' = ("save" = "stop")
    BY <1>0, <2>4
  <2> QED
    BY <2>2, <2>3, <2>4, <2>5, PressSettled
<1>3. CASE Run
  BY <1>0, <1>3, PressSettled DEF Run, Asks, Buttons, Kinds, Background
<1>4. CASE Stop
  BY <1>0, <1>4, PressSettled DEF Stop, Asks, Buttons, Kinds, Background
<1>5. CASE DeleteRecords
  BY <1>0, <1>5, PressSettled DEF DeleteRecords, Asks, Buttons, Kinds, Background
<1>6. CASE DeleteHarvester
  BY <1>0, <1>6, PressSettled DEF DeleteHarvester, Asks, Buttons, Kinds, Background
<1>7. CASE New
  <2>1. form'.id = NewId /\ isNew' = TRUE /\ history' = None
    BY <1>7 DEF New, FormOf
  <2>2. UNCHANGED <<list, loadingOne, buttonVars, requests>>
    BY <1>7 DEF New
  <2>3. Idle'
    BY <1>1, <2>1, <2>2 DEF Idle, ListAgrees, FormAgrees, Quiet, buttonVars, serverVars
  <2> QED
    BY <2>2, <2>3 DEF Settled
<1>8. CASE Edit
  <2>1. form'.id = form.id /\ form'.listed = form.listed
    BY <1>0, <1>8 DEF Edit, FormNames
  <2>2. UNCHANGED <<isNew, loadingOne, history, buttonVars, requests>>
    BY <1>8 DEF Edit
  <2>3. DOMAIN list' = DOMAIN list /\ (list = None) = (list' = None)
    <3>1. CASE form.listed
      <4>1. list # None /\ list' # None
        BY <2>1, <3>1 DEF PageInv, PageShape
      <4>2. list' = [list EXCEPT ![form.id].active = ~form.active]
        BY <1>8, <3>1 DEF Edit
      <4> QED
        BY <4>1, <4>2
    <3>2. CASE ~form.listed
      BY <1>8, <3>2 DEF Edit
    <3> QED
      BY <3>1, <3>2
  <2>4. Settled
    BY DEF Settled
  <2> QED
    BY <1>1, <2>1, <2>2, <2>3, <2>4, SameSettled DEF buttonVars, serverVars
<1>9. CASE Refresh
  <2>1. form'.id = form.id /\ UNCHANGED <<isNew, loadingOne, history, buttonVars>>
    BY <1>0, <1>9, UnlistedIs DEF Refresh
  <2>2. Quiet' /\ FormAgrees'
    BY <1>1, <2>1 DEF Idle, Quiet, FormAgrees, buttonVars, serverVars
  <2> QED
    BY <1>9, <2>2, LoadSettled DEF Refresh
<1>10. ASSUME NEW h \in Ids, Clone(h) PROVE Settled'
  <2>1. PICK q : q = About("clone", h)
    OBVIOUS
  <2>2. DOMAIN q = Names /\ q.kind = "clone" /\ q.id = h /\ q.stage = "sent"
    BY <2>1, AskedIs
  <2>3. h \in DOMAIN server'
    BY <1>1, <1>10 DEF Clone, Idle, ListAgrees, serverVars
  <2>4. Quiet'
    BY <1>10 DEF Clone, Idle, Quiet, formVars, buttonVars
  <2>5. Busy(q)'
    BY <2>2, <2>3, <2>4 DEF Busy, Added
  <2>6. requests' = With(requests, q) /\ q.kind \notin Background
    BY <1>10, <2>1, <2>2 DEF Clone, Background
  <2> QED
    BY <2>2, <2>5, <2>6, NextCall
<1>11. ASSUME NEW h \in Ids, Select(h) PROVE Settled'
  <2>1. h \in DOMAIN server' /\ ListAgrees'
    BY <1>1, <1>11 DEF Select, Idle, ListAgrees, serverVars
  <2> QED
    BY <1>0, <1>11, <2>1, SelectSettled DEF Select, buttonVars
<1> QED
  BY <1>2, <1>3, <1>4, <1>5, <1>6, <1>7, <1>8, <1>9, <1>10, <1>11 DEF ByUser

\* The answer takes the place of its request.
LEMMA AnswerSettled ==
  ASSUME TypeInv, NEW r \in requests, Calls(requests) = {r}, NEW found,
         Answered(r, found), Busy([r EXCEPT !.stage = "handled", !.found = found])'
  PROVE  Settled'
<1>1. PICK q : q = [r EXCEPT !.stage = "handled", !.found = found]
  OBVIOUS
<1>2. DOMAIN q = Names /\ q.kind = r.kind
  <2>1. DOMAIN r = Names
    BY RequestIs DEF TypeInv, Typed
  <2> QED
    BY <1>1, <2>1 DEF Names
<1>3. requests' = With(requests \ {r}, q)
  BY <1>1 DEF Answered
<1>4. Calls(requests \ {r}) = {} /\ q.kind \notin Background
  BY <1>2 DEF Calls
<1>5. Busy(q)'
  BY <1>1
<1> QED
  BY <1>2, <1>3, <1>4, <1>5, NextCall

\* The server, with the call that is on its way.
LEMMA HandleSettled ==
  ASSUME PageInv, TypeInv, NEW r \in requests, Calls(requests) = {r}, Busy(r), Handle(r)
  PROVE  Settled'
<1>0. /\ r \in Request /\ DOMAIN r = Names /\ r.kind \notin Background /\ r.stage = "sent"
      /\ UNCHANGED <<listVars, formVars, buttonVars>>
  <2>1. r \in Calls(requests)
    OBVIOUS
  <2> QED
    BY <2>1, RequestIs DEF TypeInv, Typed, Handle, Calls
<1>1. /\ Quiet' = Quiet /\ \A button : Pressed(button)' = Pressed(button)
      /\ form' = form
  BY <1>0 DEF Quiet, Pressed, formVars, buttonVars
<1>2. DOMAIN server' = DOMAIN server => ListAgrees' = ListAgrees /\ FormAgrees' = FormAgrees
  BY <1>0 DEF ListAgrees, FormAgrees, listVars, formVars
<1>3. ASSUME NEW found
      PROVE  \E q : /\ q = [r EXCEPT !.stage = "handled", !.found = found]
                    /\ q.kind = r.kind /\ q.id = r.id /\ q.after = r.after
                    /\ q.stage = "handled" /\ q.found = found
  <2>1. PICK q : q = [r EXCEPT !.stage = "handled", !.found = found]
    OBVIOUS
  <2>2. /\ q.kind = r.kind /\ q.id = r.id /\ q.after = r.after
        /\ q.stage = "handled" /\ q.found = found
    BY <1>0, <2>1 DEF Names
  <2> QED
    BY <2>1, <2>2
<1>4. ASSUME HandleRead(r) PROVE Settled'
  <2>0. server' = server /\ r.kind \in {"list", "load"}
    BY <1>0, <1>4 DEF HandleRead, serverVars, Background
  <2>1. ReadsOf(r) \subseteq DOMAIN server /\ (r.kind = "list" => ReadsOf(r) = DOMAIN server)
    BY <2>0 DEF ReadsOf, Busy, LoadBusy
  <2>2. PICK found : found = Restrict(server, ReadsOf(r))
    OBVIOUS
  <2>3. Answered(r, found) /\ (r.kind = "list" => DOMAIN found = DOMAIN server)
    BY <1>4, <2>1, <2>2 DEF HandleRead, Restrict
  <2>4. PICK q : /\ q = [r EXCEPT !.stage = "handled", !.found = found]
                 /\ q.kind = r.kind /\ q.id = r.id /\ q.after = r.after
                 /\ q.stage = "handled" /\ q.found = found
    BY <1>3
  <2>5. r.kind = "list" => ListBusy(q)'
    BY <1>1, <1>2, <2>0, <2>3, <2>4 DEF Busy, ListBusy
  <2>6. r.kind = "load" => LoadBusy(q)'
    BY <1>0, <1>2, <2>0, <2>4 DEF Busy, LoadBusy, buttonVars
  <2>7. Busy(q)'
    BY <2>0, <2>4, <2>5, <2>6 DEF Busy
  <2> QED
    BY <2>3, <2>4, <2>7, AnswerSettled
<1>5. ASSUME HandleStatus(r) PROVE Settled'
  <2>1. r.kind \in {"run", "stop"} /\ DOMAIN server' = DOMAIN server /\ Answered(r, <<>>)
    BY <1>0, <1>5 DEF HandleStatus, SetActive, Background
  <2>2. PICK q : /\ q = [r EXCEPT !.stage = "handled", !.found = <<>>]
                 /\ q.kind = r.kind /\ q.id = r.id /\ q.after = r.after
                 /\ q.stage = "handled" /\ q.found = <<>>
    BY <1>3
  <2>3. Busy(q)'
    BY <1>1, <2>1, <2>2 DEF Busy
  <2> QED
    BY <2>1, <2>2, <2>3, AnswerSettled
<1>6. ASSUME HandleRemove(r) PROVE Settled'
  <2>1. r.kind = "remove" /\ Answered(r, <<>>)
    BY <1>6 DEF HandleRemove
  <2>2. PICK q : /\ q = [r EXCEPT !.stage = "handled", !.found = <<>>]
                 /\ q.kind = r.kind /\ q.id = r.id /\ q.after = r.after
                 /\ q.stage = "handled" /\ q.found = <<>>
    BY <1>3
  <2>3. Pressed("remove")' /\ deleting' = deleting
    BY <1>0, <1>1, <2>1 DEF Busy, buttonVars
  <2>4. Busy(q)'
    BY <2>1, <2>2, <2>3 DEF Busy
  <2> QED
    BY <2>1, <2>2, <2>4, AnswerSettled
<1>7. ASSUME HandleAdd(r) PROVE Settled'
  <2>1. r.kind \in {"add", "clone"} /\ (r.kind = "clone" => r.id \in DOMAIN server)
    BY <1>0, <1>7 DEF HandleAdd, Busy
  <2>2. PICK h, found : /\ DOMAIN server' = DOMAIN server \cup {h} /\ DOMAIN found = {h}
                        /\ Answered(r, found)
    BY <1>7, <2>1 DEF HandleAdd
  <2>3. PICK q : /\ q = [r EXCEPT !.stage = "handled", !.found = found]
                 /\ q.kind = r.kind /\ q.id = r.id /\ q.after = r.after
                 /\ q.stage = "handled" /\ q.found = found
    BY <1>3
  <2>4. Added(q)'
    BY <2>2, <2>3 DEF Added
  <2>5. Busy(q)'
    BY <1>1, <2>1, <2>3, <2>4 DEF Busy
  <2> QED
    BY <2>2, <2>3, <2>5, AnswerSettled
<1> QED
  BY <1>4, <1>5, <1>6, <1>7 DEF Handle

\* A poll or a schedule, at the server.
LEMMA BackgroundSettled ==
  ASSUME TypeInv, Settled, NEW r \in requests, r.kind \in Background, Handle(r)
  PROVE  Settled'
<1>1. r \in Request /\ DOMAIN r = Names
  BY RequestIs DEF TypeInv, Typed
<1>2. /\ HandleRead(r) \/ HandleStatus(r)
      /\ UNCHANGED <<listVars, formVars, buttonVars>>
  BY DEF Handle, HandleRemove, HandleAdd, Background
<1>3. DOMAIN server' = DOMAIN server
  BY <1>2 DEF HandleRead, HandleStatus, SetActive, serverVars
<1>4. Calls(requests \ {r}) = Calls(requests)
  BY DEF Calls
<1>5. Calls(requests') = Calls(requests)
  <2>1. ASSUME NEW stage, NEW found,
               requests' = With(requests \ {r}, [r EXCEPT !.stage = stage, !.found = found])
        PROVE  Calls(requests') = Calls(requests)
    <3>1. PICK q : q = [r EXCEPT !.stage = stage, !.found = found]
      OBVIOUS
    <3>2. DOMAIN q = Names /\ q.kind = r.kind
      BY <1>1, <3>1 DEF Names
    <3> QED
      BY <1>4, <2>1, <3>1, <3>2, CallsWith
  <2>2. ASSUME NEW found, Answered(r, found) PROVE Calls(requests') = Calls(requests)
    BY <2>1, <2>2 DEF Answered
  <2>3. ASSUME Refused(r) PROVE Calls(requests') = Calls(requests)
    BY <2>1, <2>3 DEF Refused
  <2>4. \/ \E found : Answered(r, found)
        \/ Refused(r)
        \/ requests' = requests \ {r}
    BY <1>2 DEF HandleRead, HandleStatus
  <2> QED
    BY <1>4, <2>2, <2>3, <2>4
<1> QED
  BY <1>2, <1>3, <1>5, SameSettled DEF listVars, formVars, buttonVars

\* The answers of the call that is on its way: the next request, or the end.
LEMMA ReceiveListSettled ==
  ASSUME PageInv, TypeInv, NEW r \in requests, Calls(requests) = {r}, Busy(r),
         r.kind = "list", r.stage = "handled", ReceiveList(r), UNCHANGED serverVars
  PROVE  Settled'
<1>1. PICK l : l = ListOf(r.found)
  OBVIOUS
<1>2. PICK rest : rest = WithPoll(requests \ {r}, l)
  OBVIOUS
<1>3. Calls(rest) = {}
  <2>1. Calls(requests \ {r}) = {}
    BY DEF Calls
  <2> QED
    BY <1>2, <2>1, CallsPoll
<1>4. /\ list' = l /\ UNCHANGED buttonVars
      /\ \/ /\ ToSelect(r, l) = {} /\ form' = Unlisted(form) /\ requests' = rest
            /\ UNCHANGED <<isNew, loadingOne, history>>
         \/ \E h \in ToSelect(r, l) : Selected(h, l) /\ requests' = With(rest, About("load", h))
  BY <1>1, <1>2 DEF ReceiveList
<1>5. /\ r.found \in Harvesters /\ DOMAIN r.found = DOMAIN server /\ ListBusy(r)
      /\ r.after \in {"nothing", "refresh", "select"}
  BY RequestIs DEF TypeInv, Typed, Busy, ListBusy
<1>6. IF l = None THEN DOMAIN server = {} ELSE DOMAIN l = DOMAIN server
  <2>1. r.found = <<>> <=> DOMAIN r.found = {}
    BY <1>5, EmptyIs
  <2>2. r.found # None
    BY <1>5, NoneAssumption
  <2> QED
    BY <1>1, <1>5, <2>1, <2>2 DEF ListOf
<1>7. ListAgrees'
  BY <1>4, <1>6 DEF ListAgrees, serverVars
<1>8. Quiet /\ deleting' = <<>> /\ busy' = {} /\ stopping' = FALSE
  BY <1>4, <1>5 DEF ListBusy, Quiet, buttonVars, TypeInv, ButtonTypes
<1>9. CASE ToSelect(r, l) = {} /\ form' = Unlisted(form) /\ requests' = rest
            /\ UNCHANGED <<isNew, loadingOne, history>>
  <2>1. form'.id = form.id
    BY <1>9, UnlistedIs DEF PageInv, PageShape
  <2>2. FormAgrees
    <3>1. CASE r.after = "nothing"
      BY <1>5, <3>1 DEF ListBusy
    <3>2. CASE r.after = "refresh"
      <4>1. form.id \notin DOMAIN server
        BY <1>6, <1>9, <3>2 DEF ToSelect
      <4> QED
        BY <1>5, <3>2, <4>1 DEF ListBusy
    <3>3. CASE r.after = "select"
      <4>1. r.id \in DOMAIN server
        BY <1>5, <3>3 DEF ListBusy
      <4> QED
        BY <1>6, <1>9, <3>3, <4>1 DEF ToSelect
    <3> QED
      BY <1>5, <3>1, <3>2, <3>3
  <2>3. Idle'
    BY <1>7, <1>8, <1>9, <2>1, <2>2 DEF Idle, FormAgrees, Quiet, serverVars
  <2> QED
    BY <1>3, <1>9, <2>3 DEF Settled
<1>10. ASSUME NEW h \in ToSelect(r, l), requests' = With(rest, About("load", h))
       PROVE  Settled'
  <2>1. h \in DOMAIN server'
    BY <1>6, <1>10 DEF ToSelect, serverVars
  <2> QED
    BY <1>3, <1>7, <1>8, <1>10, <2>1, SelectSettled
<1> QED
  BY <1>4, <1>9, <1>10

LEMMA ReceiveSettled ==
  ASSUME PageInv, TypeInv, NEW r \in requests, Calls(requests) = {r}, Busy(r), Receive(r)
  PROVE  Settled'
<1>0. /\ r \in Request /\ r.kind \notin Background /\ Calls(Rest(r)) = {}
      /\ UNCHANGED serverVars /\ IsAnswered(r) /\ ReceiveSuccess(r) /\ Sent(r)
      /\ r.stage # "failed" /\ DOMAIN form = FormNames
  <2>1. r \in Calls(requests) /\ r.stage # "failed"
    BY DEF Busy
  <2> QED
    BY <2>1 DEF Receive, Calls, Rest, TypeInv, Typed, PageInv, PageShape
<1>1. form.id \in FormIds /\ Unlisted(form).id = form.id
      /\ \A id : [Unlisted(form) EXCEPT !.id = id].id = id
  <2>1. form.id \in FormIds /\ Unlisted(form).id = form.id
    BY <1>0, UnlistedIs, FormTyped DEF TypeInv, FormTypes
  <2>2. DOMAIN Unlisted(form) = FormNames
    BY <1>0, UnlistedIs
  <2>3. PICK f : f = Unlisted(form)
    OBVIOUS
  <2>4. \A id : [f EXCEPT !.id = id].id = id
    BY <2>2, <2>3 DEF FormNames
  <2> QED
    BY <2>1, <2>3, <2>4
<1>2. DOMAIN server' = DOMAIN server
  BY <1>0 DEF serverVars
<1>3. ASSUME r.kind = "list", ReceiveList(r) PROVE Settled'
  BY <1>0, <1>3, ReceiveListSettled DEF IsAnswered
<1>4. ASSUME r.kind = "load", ReceiveLoad(r) PROVE Settled'
  <2>1. LoadBusy(r)
    BY <1>4 DEF Busy
  <2>2. form'.id = r.id /\ isNew' = FALSE /\ history' = None /\ loadingOne' = FALSE
        /\ UNCHANGED <<listVars, buttonVars>> /\ requests' = With(Rest(r), About("history", r.id))
    BY <1>4 DEF ReceiveLoad, FormOf
  <2>3. r.id # NewId
    BY <2>1, IdAssumption, HarvestersAre DEF LoadBusy, PageInv, PageShape
  <2>4. Idle'
    BY <1>2, <2>1, <2>2, <2>3
       DEF Idle, ListAgrees, FormAgrees, Quiet, LoadBusy, listVars, buttonVars
  <2>5. PICK q : q = About("history", r.id)
    OBVIOUS
  <2>6. DOMAIN q = Names /\ q.kind = "history" /\ q.id = r.id /\ q.stage = "sent"
    BY <2>5, AskedIs
  <2>7. Busy(q)'
    BY <2>2, <2>4, <2>6 DEF Busy
  <2>8. q.kind \notin Background
    BY <2>6 DEF Background
  <2> QED
    BY <1>0, <2>2, <2>5, <2>6, <2>7, <2>8, NextCall
<1>5. ASSUME r.kind = "history", ReceiveHistory(r) PROVE Settled'
  <2>1. Idle /\ r.id = form.id
    BY <1>5 DEF Busy
  <2>2. /\ history' = r.id /\ requests' = Rest(r)
        /\ UNCHANGED <<listVars, form, isNew, loadingOne, buttonVars>>
    BY <1>5 DEF ReceiveHistory
  <2>3. Idle'
    BY <1>2, <2>1, <2>2 DEF Idle, ListAgrees, FormAgrees, Quiet, listVars, buttonVars
  <2> QED
    BY <1>0, <2>2, <2>3 DEF Settled
<1>6. ASSUME r.kind \in {"add", "update"}, ReceiveSave(r) PROVE Settled'
  <2>1. Pressed("save")
    BY <1>6 DEF Busy
  <2>2. Quiet'
    BY <1>6, <2>1 DEF ReceiveSave, Pressed, Quiet
  <2>3. form'.id \in DOMAIN server'
    <3>1. CASE r.kind = "add"
      <4>1. form.id = NewId /\ DOMAIN r.found # {} /\ DOMAIN r.found \subseteq DOMAIN server
        BY <1>0, <3>1 DEF Busy, Added, Sent, IsAnswered
      <4>2. PICK id : id = CHOOSE h \in DOMAIN r.found : TRUE
        OBVIOUS
      <4>3. form' = [Unlisted(form) EXCEPT !.id = id]
        BY <1>6, <3>1, <4>1, <4>2 DEF ReceiveSave
      <4>4. id \in DOMAIN r.found
        BY <4>1, <4>2
      <4> QED
        BY <1>1, <1>2, <4>1, <4>3, <4>4
    <3>2. CASE r.kind = "update"
      <4>1. form.id \in DOMAIN server
        BY <3>2 DEF Busy
      <4>2. form.id \notin {NewId, None}
        BY <4>1, IdAssumption, HarvestersAre DEF PageInv, PageShape
      <4>3. form' = Unlisted(form)
        BY <1>6, <4>2 DEF ReceiveSave
      <4> QED
        BY <1>1, <1>2, <4>1, <4>3
    <3> QED
      BY <1>6, <3>1, <3>2
  <2> QED
    BY <1>0, <1>6, <2>2, <2>3, LoadSettled DEF ReceiveSave
<1>7. ASSUME r.kind \in {"run", "stop"}, ReceiveRun(r) PROVE Settled'
  <2>1. Pressed(r.kind) /\ form.id \in DOMAIN server
    BY <1>7 DEF Busy
  <2>2. Quiet'
    BY <1>7, <2>1 DEF ReceiveRun, Pressed, Quiet
  <2>3. form'.id \in DOMAIN server'
    BY <1>1, <1>2, <1>7, <2>1 DEF ReceiveRun
  <2> QED
    BY <1>0, <1>7, <2>2, <2>3, LoadSettled DEF ReceiveRun
<1>8. ASSUME r.kind \in {"clear", "remove"}, ReceiveRemove(r) PROVE Settled'
  <2>1. Pressed(r.kind) /\ (r.kind = "remove" => Len(deleting) = 1)
    BY <1>8 DEF Busy
  <2>2. deleting' = <<>>
    <3>1. CASE r.kind = "clear"
      BY <1>8, <2>1, <3>1 DEF ReceiveRemove, Pressed
    <3>2. CASE r.kind = "remove"
      <4>1. deleting' = SubSeq(deleting, 1, 0)
        <5>1. deleting # <<>> /\ Len(deleting) - 1 = 0
          BY <2>1, <3>2
        <5> QED
          BY <1>8, <3>2, <5>1 DEF ReceiveRemove, Removed, Front
      <4>2. deleting \in Seq(Ids)
        BY DEF TypeInv, ButtonTypes
      <4> QED
        BY <4>1, <4>2
    <3> QED
      BY <1>8, <3>1, <3>2
  <2>3. Quiet'
    BY <1>8, <2>1, <2>2 DEF ReceiveRemove, Pressed, Quiet
  <2>4. form'.id = None
    BY <1>8 DEF ReceiveRemove, NoForm
  <2>5. FormAgrees'
    BY <2>4 DEF FormAgrees
  <2> QED
    BY <1>0, <1>8, <2>3, <2>5, LoadSettled DEF ReceiveRemove
<1>9. ASSUME r.kind = "clone", ReceiveClone(r) PROVE Settled'
  <2>1. Quiet /\ DOMAIN r.found # {} /\ DOMAIN r.found \subseteq DOMAIN server
    BY <1>0, <1>9 DEF Busy, Added, Sent, IsAnswered
  <2>2. (CHOOSE h \in DOMAIN r.found : TRUE) \in DOMAIN server'
    BY <1>2, <2>1
  <2>3. Quiet'
    BY <1>9, <2>1 DEF ReceiveClone, Quiet, buttonVars
  <2> QED
    BY <1>0, <1>9, <2>2, <2>3, LoadSettled DEF ReceiveClone
<1> QED
  BY <1>0, <1>3, <1>4, <1>5, <1>6, <1>7, <1>8, <1>9 DEF ReceiveSuccess, Background

\* A failure, or the answer to a poll, by the side of a call.
LEMMA OutsideSettled ==
  ASSUME PageInv, TypeInv, Settled, NEW r \in requests, Receive(r),
         r \notin Calls(requests)
  PROVE  Settled'
<1>0. r.kind \in Background /\ Calls(Rest(r)) = Calls(requests) /\ UNCHANGED serverVars
      /\ loadingOne \in BOOLEAN /\ DOMAIN form = FormNames
  BY DEF Calls, Rest, Receive, TypeInv, FormTypes, PageInv, PageShape
<1>1. CASE ReceiveFailure(r)
  <2>1. requests' = Rest(r) /\ UNCHANGED <<list, form, isNew, history, buttonVars>>
    BY <1>1 DEF ReceiveFailure
  <2>2. loadingOne' = loadingOne
    BY <1>0, <1>1 DEF ReceiveFailure, Background
  <2> QED
    BY <1>0, <2>1, <2>2, SameSettled DEF serverVars, buttonVars
<1>2. CASE ReceiveSuccess(r)
  <2>1. r.kind = "poll" /\ ReceivePoll(r)
    BY <1>0, <1>2 DEF ReceiveSuccess, Background
  <2>2. form'.id = form.id
    BY <1>0, <2>1 DEF ReceivePoll, FormNames
  <2>3. (list = None) = (list' = None) /\ (list # None => DOMAIN list' = DOMAIN list)
    <3>1. CASE list = None
      BY <2>1, <3>1 DEF ReceivePoll, Polled
    <3>2. CASE list # None
      <4>1. list \in Harvesters /\ r.found \in Harvesters
        BY <3>2 DEF PageInv, PageShape, IsRequest
      <4>2. list' = [h \in DOMAIN list |->
                      IF h \in DOMAIN r.found
                      THEN [list[h] EXCEPT !.running = r.found[h].running] ELSE list[h]]
        BY <2>1, <3>2 DEF ReceivePoll, Polled
      <4>3. \A h \in DOMAIN list : list'[h] \in Status
        <5>1. \A h \in DOMAIN list : list[h] \in Status
          BY <4>1, HarvestersAre
        <5>2. \A h \in DOMAIN r.found : r.found[h].running \in BOOLEAN
          BY <4>1, HarvestersAre, StatusIs
        <5> QED
          BY <4>2, <5>1, <5>2 DEF Status
      <4>4. list' \in Harvesters
        BY <4>1, <4>2, <4>3, HarvestersAre
      <4> QED
        BY <3>2, <4>2, <4>4, NoneAssumption
    <3> QED
      BY <3>1, <3>2
  <2>4. requests' = Rest(r) /\ UNCHANGED <<isNew, loadingOne, history, buttonVars>>
    BY <2>1 DEF ReceivePoll, Rest
  <2> QED
    BY <1>0, <2>2, <2>3, <2>4, SameSettled DEF serverVars, buttonVars
<1> QED
  BY <1>1, <1>2 DEF Receive

LEMMA OrderNext == PageInv /\ TypeInv /\ OrderInv /\ [Next]_vars => OrderInv'
<1> SUFFICES ASSUME PageInv, TypeInv, OrderInv, [Next]_vars, orderly' PROVE Settled'
  BY DEF OrderInv
<1>1. CASE ByUser
  <2>1. orderly /\ Waiting = {}
    BY <1>1 DEF ByUser, New, Edit, Save, Run, Stop, DeleteRecords, DeleteHarvester, Refresh,
           Select, Clone, Press, Click
  <2>2. Calls(requests) = {}
    BY <2>1 DEF Waiting, Calls, Background
  <2>3. Idle
    BY <2>1, <2>2 DEF OrderInv, Settled
  <2>4. PageInv'
    BY PageNext
  <2> QED
    BY <1>1, <2>2, <2>3, <2>4, UserSettled
<1>2. CASE PollAgain
  <2>1. /\ Settled /\ requests' = WithPoll(requests, list)
        /\ UNCHANGED <<serverVars, list, formVars, buttonVars>>
    BY <1>2 DEF PollAgain, OrderInv
  <2>2. Calls(requests') = Calls(requests)
    BY <2>1, CallsPoll
  <2> QED
    BY <2>1, <2>2, SameSettled DEF serverVars, formVars, buttonVars
<1>3. ASSUME NEW r \in requests, Handle(r) PROVE Settled'
  <2>1. Settled
    BY <1>3 DEF Handle, historyVars, OrderInv
  <2>2. CASE r.kind \in Background
    BY <1>3, <2>1, <2>2, BackgroundSettled
  <2>3. CASE r.kind \notin Background
    <3>1. Calls(requests) = {r} /\ Busy(r)
      BY <2>1, <2>3 DEF Settled, Calls
    <3> QED
      BY <1>3, <3>1, HandleSettled
  <2> QED
    BY <2>2, <2>3
<1>4. ASSUME NEW r \in requests, Receive(r) PROVE Settled'
  <2>1. Settled
    BY <1>4 DEF Receive, OrderInv
  <2>2. CASE r \notin Calls(requests)
    BY <1>4, <2>1, <2>2, OutsideSettled
  <2>3. CASE r \in Calls(requests)
    <3>1. Calls(requests) = {r} /\ Busy(r)
      BY <2>1, <2>3 DEF Settled
    <3> QED
      BY <1>4, <3>1, ReceiveSettled
  <2> QED
    BY <2>2, <2>3
<1>5. \A r \in requests : ~Fail(r)
  BY DEF Fail
<1>6. ASSUME NEW h \in Ids, HarvestStarts(h) \/ HarvestEnds(h) \/ OtherRemoves(h)
      PROVE  Settled'
  <2>1. /\ HarvestStarts(h) \/ HarvestEnds(h)
        /\ UNCHANGED <<orderly, listVars, formVars, buttonVars, requests>>
    BY <1>6 DEF HarvestStarts, HarvestEnds, OtherRemoves, Unseen
  <2>2. DOMAIN server' = DOMAIN server
    BY <2>1 DEF HarvestStarts, HarvestEnds
  <2>3. Settled
    BY <2>1 DEF OrderInv
  <2> QED
    BY <2>1, <2>2, <2>3, SameSettled DEF listVars, formVars, buttonVars
<1>7. CASE UNCHANGED vars
  <2>1. UNCHANGED <<serverVars, listVars, formVars, buttonVars, requests, orderly>>
    BY <1>7 DEF vars, historyVars
  <2>2. Settled
    BY <2>1 DEF OrderInv
  <2> QED
    BY <2>1, <2>2, SameSettled DEF serverVars, listVars, formVars, buttonVars
<1> QED
  BY <1>1, <1>2, <1>3, <1>4, <1>5, <1>6, <1>7 DEF Next

\* A user who waits for every answer, while nothing fails and nobody else
\* removes harvesters, sees the harvesters there are; the form, its history and
\* the buttons are those of a harvester that exists, whatever polls, schedules
\* and harvests go on (loadHarvesters, selectHarvester and the callbacks of the
\* toolbar).
THEOREM SettledPageIsTrue == PageSpec => []SettledPageAgrees
<1>1. PageInv /\ TypeInv /\ OrderInv => SettledPageAgrees
  <2> SUFFICES ASSUME PageInv, TypeInv, OrderInv, orderly, Waiting = {}
               PROVE  SettledPageAgrees
    BY DEF SettledPageAgrees
  <2>1. Calls(requests) = {}
    BY DEF Waiting, Calls, Background
  <2>2. Idle
    BY <2>1 DEF OrderInv, Settled
  <2>3. server = <<>> <=> DOMAIN server = {}
    BY EmptyIs DEF PageInv, PageShape
  <2> QED
    BY <2>2, <2>3 DEF SettledPageAgrees, Idle, ListAgrees, FormAgrees, Quiet
<1> QED
  BY <1>1, PageInit, PageNext, TypeInit, TypeNext, OrderInit, OrderNext, PTL DEF PageSpec

=============================================================================
