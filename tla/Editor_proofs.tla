---------------------------- MODULE Editor_proofs ----------------------------
(***************************************************************************)
(* Proofs about Editor, for any number of windows, sessions, elements and  *)
(* requests.                                                               *)
(*                                                                         *)
(* The version numbers: of the forms shown and the requests sent, those    *)
(* with the current number belong to the window that loaded a form last.   *)
(* From this follows what a save may overwrite: the request that passes    *)
(* the version check belongs to the last loader, whose working copy has    *)
(* seen every save unless one crossed the load.                            *)
(*                                                                         *)
(* The types and the refs (RefsInv, the second half): what the services    *)
(* and the pages do to a sequence of elements leaves it one, and leaves    *)
(* the refs of a working copy different.                                   *)
(*                                                                         *)
(* The orderly sessions (OrderInv, the last part): what the form, the      *)
(* request under way and its answer show of the working copy.              *)
(***************************************************************************)
EXTENDS Editor, TLAPS, SequenceTheorems, WellFoundedInduction

\* The parts of requests and forms that the versions depend on; the texts and
\* the elements are left open.
Names == {"id", "win", "kind", "stage", "heard", "ref", "fields", "version", "refresh",
          "silent", "next", "content", "seen", "crossed", "answer"}
Shaped(r) == DOMAIN r = Names /\ r.win \in Windows

\* A form or a request of window w with version v is no newer than the current
\* version, and if it has the current one, w is the last loader.
Owned(v, w) == v \in Nat /\ v <= version /\ (v = version => loader = w)

VersionInv ==
  /\ version \in Nat \ {0}
  /\ DOMAIN form = Windows
  /\ \A w \in Windows : form[w] # None =>
       DOMAIN form[w] = {"version", "fields"} /\ Owned(form[w].version, w)
  /\ \A r \in requests : Shaped(r) /\ Owned(r.version, r.win)

\* Has the working copy of session s seen every save?
Seen(s) == base[s] = saves \/ crossed[s]

SeenInv ==
  /\ DOMAIN base = Sessions /\ DOMAIN crossed = Sessions
  /\ loader \in Windows => Seen(SessionOf[loader])
  /\ \A r \in requests : r.stage = "checked" =>
       /\ r.crossed \/ Seen(SessionOf[r.win])
       /\ loader \in Windows
       /\ SessionOf[r.win] = SessionOf[loader] \/ crossed[SessionOf[loader]]
  /\ \A r \in requests : r.stage = "read" => r.crossed \/ r.seen = saves

EditorInv == VersionInv /\ SeenInv

LEMMA EditorInit == Init => EditorInv
  BY WindowAssumption
  DEF Init, EditorInv, VersionInv, SeenInv, Seen, Owned

-----------------------------------------------------------------------------
(* The steps that take no version and store nothing.                        *)

\* r is a request of before, further on, or a new one.
Continues(r) ==
  \E q \in requests :
    /\ r.win = q.win /\ r.version = q.version
    /\ r.stage \in {"checked", "read"} =>
         r.stage = q.stage /\ r.seen = q.seen /\ r.crossed = q.crossed
Begins(r) ==
  /\ r.stage = "sent" /\ r.win \in Windows
  /\ r.version = 0 \/ (form[r.win] # None /\ r.version = form[r.win].version)

Plain ==
  /\ UNCHANGED <<version, loader, saves, base, crossed>>
  /\ \A r \in requests' : DOMAIN r = Names /\ (Continues(r) \/ Begins(r))
  /\ DOMAIN form' = Windows
  /\ \A w \in Windows : form'[w] # None =>
       /\ DOMAIN form'[w] = {"version", "fields"}
       /\ \/ form[w] # None /\ form'[w].version = form[w].version
          \/ \E q \in requests : q.win = w /\ form'[w].version = q.version

LEMMA PlainKeeps == EditorInv /\ Plain => EditorInv'
<1> SUFFICES ASSUME EditorInv, Plain PROVE EditorInv'
  OBVIOUS
<1> USE DEF EditorInv, Plain
<1>1. VersionInv'
  BY DEF VersionInv, Owned, Shaped, Continues, Begins
<1>2. SeenInv'
  BY DEF VersionInv, SeenInv, Seen, Shaped, Continues, Begins
<1> QED
  BY <1>1, <1>2

LEMMA RequestTouched ==
  ASSUME EditorInv, NEW r \in requests
  PROVE  DOMAIN r = Names /\ r.win \in Windows /\ r.version \in Nat
  BY DEF EditorInv, VersionInv, Shaped, Owned

\* A request that is sent is a new one; the others go on.
LEMMA SendIsPlain ==
  ASSUME EditorInv, NEW pending, NEW r, SendFrom(pending, r),
         \A q \in pending : DOMAIN q = Names /\ Continues(q),
         DOMAIN r = Names, Begins(r)
  PROVE  \A q \in requests' : DOMAIN q = Names /\ (Continues(q) \/ Begins(q))
  BY DEF SendFrom

LEMMA BlankBegins ==
  ASSUME NEW w \in Windows, NEW kind
  PROVE  DOMAIN Blank(w, kind) = Names /\ Begins(Blank(w, kind))
  BY DEF Blank, Begins, Names

LEMMA OldContinue ==
  ASSUME EditorInv
  PROVE  \A q \in requests : DOMAIN q = Names /\ Continues(q)
  BY DEF EditorInv, VersionInv, Shaped, Continues

LEMMA SavingIsPlain ==
  ASSUME EditorInv, NEW pending \in SUBSET requests, NEW w \in Windows, NEW how,
         form[w] # None, StartSaving(pending, w, how)
  PROVE  \A q \in requests' : DOMAIN q = Names /\ (Continues(q) \/ Begins(q))
<1> DEFINE r == [Blank(w, "save") EXCEPT
       !.fields = how.fields, !.version = form[w].version, !.refresh = how.refresh,
       !.silent = how.silent, !.next = how.next, !.ref = how.ref]
<1>1. DOMAIN r = Names /\ Begins(r)
  BY DEF Blank, Begins, Names
<1>2. SendFrom(pending, r)
  BY DEF StartSaving
<1> HIDE DEF r
<1> QED
  BY <1>1, <1>2, OldContinue, SendIsPlain

\* What users do.
LEMMA UserIsPlain ==
  ASSUME EditorInv, NEW w \in Windows,
         Open(w) \/ Type(w) \/ ClickSave(w) \/ ClickElement(w) \/ ClickCancel(w)
  PROVE  Plain
<1> USE DEF EditorInv, serverVars, pageVars, historyVars
<1>1. CASE Open(w)
  <2>1. \A q \in Unheard(w) : DOMAIN q = Names /\ Continues(q)
    BY DEF Unheard, VersionInv, Shaped, Continues, Names
  <2>2. SendFrom(Unheard(w), Blank(w, "open"))
    BY <1>1 DEF Open
  <2>3. \A q \in requests' : DOMAIN q = Names /\ (Continues(q) \/ Begins(q))
    BY <2>1, <2>2, BlankBegins, SendIsPlain
  <2> QED
    BY <1>1, <2>3 DEF Open, Blur, Plain, VersionInv
<1>2. CASE Type(w)
  BY <1>2, OldContinue DEF Type, Plain, VersionInv
<1>3. CASE ClickSave(w)
  <2>1. \A q \in requests' : DOMAIN q = Names /\ (Continues(q) \/ Begins(q))
    BY <1>3, SavingIsPlain DEF ClickSave
  <2> QED
    BY <1>3, <2>1 DEF ClickSave, Plain, VersionInv
<1>4. CASE ClickElement(w)
  <2>1. \A kind, ref, next :
          LET r == [Blank(w, kind) EXCEPT !.ref = ref, !.next = next]
              q == [Blank(w, kind) EXCEPT !.ref = ref]
          IN  DOMAIN r = Names /\ Begins(r) /\ DOMAIN q = Names /\ Begins(q)
    BY DEF Blank, Begins, Names
  <2>2. \A q \in requests' : DOMAIN q = Names /\ (Continues(q) \/ Begins(q))
    BY <1>4, <2>1, OldContinue, SendIsPlain DEF ClickElement, Send
  <2> QED
    BY <1>4, <2>2 DEF ClickElement, Plain, VersionInv
<1>5. CASE ClickCancel(w)
  <2>1. \A q \in requests' : DOMAIN q = Names /\ (Continues(q) \/ Begins(q))
    BY <1>5, BlankBegins, OldContinue, SendIsPlain DEF ClickCancel, Send
  <2> QED
    BY <1>5, <2>1 DEF ClickCancel, Plain, VersionInv
<1> QED
  BY <1>1, <1>2, <1>3, <1>4, <1>5

\* A request that goes on, or is answered, without a change of version.
LEMMA ReplaceIsPlain ==
  ASSUME EditorInv, NEW r \in requests, NEW q, Replace(r, q),
         DOMAIN q = Names, q.win = r.win, q.version = r.version,
         q.stage \notin {"checked", "read"},
         UNCHANGED <<version, loader, saves, base, crossed, form>>
  PROVE  Plain
  BY OldContinue DEF Replace, Plain, Continues, EditorInv, VersionInv

LEMMA AnswerIsPlain ==
  ASSUME EditorInv, NEW r \in requests, NEW a, Answer(r, a),
         UNCHANGED <<version, loader, saves, base, crossed, form>>
  PROVE  Plain
<1> DEFINE q == [r EXCEPT !.stage = "answered", !.answer = a]
<1>1. DOMAIN q = Names /\ q.win = r.win /\ q.version = r.version /\ q.stage = "answered"
  BY RequestTouched DEF Names
<1>2. Replace(r, q)
  BY DEF Answer
<1> HIDE DEF q
<1> QED
  BY <1>1, <1>2, ReplaceIsPlain

\* What the services do, but for those that take a version or store a save.
LEMMA ServiceIsPlain ==
  ASSUME EditorInv, NEW r \in requests,
         LoginPage(r) \/ Change(r) \/ CancelSession(r) \/ Process(r)
  PROVE  Plain
<1> USE DEF serverVars, pageVars, historyVars
<1>1. CASE LoginPage(r)
  BY <1>1, AnswerIsPlain DEF LoginPage
<1>2. CASE Change(r)
  <2>1. /\ UNCHANGED <<version, loader, saves, base, crossed, form>>
        /\ \/ \E element : Replace(r, [r EXCEPT !.stage = "answered", !.answer = "done",
                                               !.fields = <<element>>])
           \/ \E a : Answer(r, a)
    BY <1>2 DEF Change
  <2>2. CASE \E a : Answer(r, a)
    BY <2>1, <2>2, AnswerIsPlain
  <2>3. ASSUME NEW element,
               Replace(r, [r EXCEPT !.stage = "answered", !.answer = "done",
                                    !.fields = <<element>>])
        PROVE  Plain
    <3> DEFINE q == [r EXCEPT !.stage = "answered", !.answer = "done", !.fields = <<element>>]
    <3>1. DOMAIN q = Names /\ q.win = r.win /\ q.version = r.version /\ q.stage = "answered"
      BY RequestTouched DEF Names
    <3>2. Replace(r, q)
      BY <2>3
    <3> HIDE DEF q
    <3> QED
      BY <2>1, <3>1, <3>2, ReplaceIsPlain
  <2> QED
    BY <2>1, <2>2, <2>3
<1>3. CASE CancelSession(r)
  BY <1>3, AnswerIsPlain DEF CancelSession
<1>4. CASE Process(r)
  BY <1>4, AnswerIsPlain DEF Process
<1> QED
  BY <1>1, <1>2, <1>3, <1>4

\* What a page does with an answer.
LEMMA HearIsPlain ==
  ASSUME EditorInv, NEW r \in requests, Hear(r)
  PROVE  Plain
<1> USE DEF serverVars, pageVars, historyVars, Done
<1> DEFINE w == r.win
<1>0. /\ w \in Windows /\ r.version \in Nat /\ DOMAIN form = Windows
      /\ form[w] # None => DOMAIN form[w] = {"version", "fields"}
      /\ \A q \in requests \ {r} : DOMAIN q = Names /\ Continues(q)
  BY RequestTouched, OldContinue DEF EditorInv, VersionInv
<1>1. CASE Forget(r)
  BY <1>1, OldContinue DEF Forget, Plain, EditorInv, VersionInv
<1>2. CASE HearForm(r)
  <2>1. form' = [form EXCEPT ![w] = [version |-> r.version, fields |-> r.fields]]
    BY <1>2 DEF HearForm, NewForm
  <2> QED
    BY <1>2, <1>0, <2>1, OldContinue DEF HearForm, Plain, EditorInv, VersionInv
<1>3. CASE HearNoForm(r)
  BY <1>3, <1>0, OldContinue DEF HearNoForm, Plain, EditorInv, VersionInv
<1>4. CASE HearSaved(r)
  <2>1. CASE r.next = "none"
    BY <1>4, <2>1, OldContinue DEF HearSaved, Plain, EditorInv, VersionInv
  <2>2. CASE SendFrom(Done(r), [Blank(r.win, r.next) EXCEPT !.ref = r.ref])
    <3> DEFINE q == [Blank(r.win, r.next) EXCEPT !.ref = r.ref]
    <3>1. DOMAIN q = Names /\ Begins(q)
      BY <1>0 DEF Blank, Begins, Names
    <3> HIDE DEF q
    <3>2. \A x \in requests' : DOMAIN x = Names /\ (Continues(x) \/ Begins(x))
      BY <2>2, <3>1, <1>0, SendIsPlain DEF q
    <3> QED
      BY <1>4, <3>2 DEF HearSaved, Plain, EditorInv, VersionInv
  <2> QED
    BY <1>4, <2>1, <2>2 DEF HearSaved
<1>5. CASE HearAndClose(r)
  <2>1. \A q \in Unheard(w) : DOMAIN q = Names /\ Continues(q)
    BY DEF Unheard, EditorInv, VersionInv, Shaped, Continues, Names
  <2> QED
    BY <1>5, <2>1 DEF HearAndClose, Blur, Plain, EditorInv, VersionInv
<1>6. CASE HearNotSaved(r)
  BY <1>6, OldContinue DEF HearNotSaved, Plain, EditorInv, VersionInv
<1>7. CASE HearChanged(r)
  <2>1. UNCHANGED <<version, loader, saves, base, crossed>>
    BY <1>7 DEF HearChanged
  <2>2. \/ form' = form
        \/ form[w] # None /\ form' = [form EXCEPT ![w].fields = ChangedFields(@, r)]
    BY <1>7 DEF HearChanged
  <2>3. /\ DOMAIN form' = Windows
        /\ \A v \in Windows : form'[v] # None =>
             /\ DOMAIN form'[v] = {"version", "fields"}
             /\ \/ form[v] # None /\ form'[v].version = form[v].version
                \/ \E q \in requests : q.win = v /\ form'[v].version = q.version
    BY <1>0, <2>2 DEF EditorInv, VersionInv
  <2>4. CASE requests' = Done(r)
    BY <2>1, <2>3, <2>4, <1>0 DEF Plain
  <2>5. CASE form[w] # None
             /\ StartSaving(Done(r), w, [fields |-> form'[w].fields,
                            refresh |-> TRUE, silent |-> TRUE, next |-> "none", ref |-> 0])
    <3>1. \A q \in requests' : DOMAIN q = Names /\ (Continues(q) \/ Begins(q))
      BY <2>5, <1>0, SavingIsPlain
    <3> QED
      BY <2>1, <2>3, <3>1 DEF Plain
  <2> QED
    BY <1>7, <2>4, <2>5 DEF HearChanged
<1>8. CASE HearNotChanged(r)
  BY <1>8, OldContinue DEF HearNotChanged, Plain, EditorInv, VersionInv
<1>9. CASE HearProcessed(r)
  <2>1. \A q \in requests' : DOMAIN q = Names /\ (Continues(q) \/ Begins(q))
    BY <1>9, <1>0, BlankBegins, SendIsPlain DEF HearProcessed
  <2> QED
    BY <1>9, <2>1 DEF HearProcessed, Plain, EditorInv, VersionInv
<1> QED
  BY <1>1, <1>2, <1>3, <1>4, <1>5, <1>6, <1>7, <1>8, <1>9 DEF Hear

-----------------------------------------------------------------------------
(* The load of a form and the two steps of a save.                          *)

\* The record is read: all saves so far are seen.
LEMMA ReadKeeps ==
  ASSUME EditorInv, NEW r \in requests, Read(r)
  PROVE  EditorInv'
<1> DEFINE q == [r EXCEPT !.stage = "read", !.content = record, !.seen = saves,
                         !.crossed = FALSE]
<1>1. /\ DOMAIN q = Names /\ q.win = r.win /\ q.version = r.version
      /\ q.stage = "read" /\ q.seen = saves
  BY RequestTouched DEF Names
<1> HIDE DEF q
<1>2. /\ requests' = (requests \ {r}) \cup {q}
      /\ UNCHANGED <<version, loader, saves, base, crossed, form>>
  BY DEF Read, Replace, q, pageVars, historyVars
<1>3. VersionInv'
  BY <1>1, <1>2 DEF EditorInv, VersionInv, Shaped, Owned
<1>4. SeenInv'
  BY <1>1, <1>2 DEF EditorInv, SeenInv, Seen
<1> QED
  BY <1>3, <1>4 DEF EditorInv

\* A new version: every other form and request is an old one from now on, and
\* the new copy has seen every save unless one crossed the load.
LEMMA LoadKeeps ==
  ASSUME EditorInv, NEW r \in requests, Load(r)
  PROVE  EditorInv'
<1> DEFINE q == [r EXCEPT !.stage = "answered", !.answer = "form",
                          !.fields = Enumerate(r.content), !.version = NewVersion(r),
                          !.content = <<>>]
<1> DEFINE s == SessionOf[r.win]
<1>1. /\ DOMAIN q = Names /\ q.win = r.win /\ q.version = version + 1
      /\ q.stage = "answered"
  BY RequestTouched DEF Names, NewVersion
<1> HIDE DEF q
<1>2. /\ requests' = (requests \ {r}) \cup {q}
      /\ version' = version + 1 /\ loader' = r.win
      /\ base' = [base EXCEPT ![s] = r.seen]
      /\ crossed' = [crossed EXCEPT ![s] = r.crossed \/ \E x \in requests : x.stage = "checked"]
      /\ r.stage = "read"
      /\ UNCHANGED <<saves, form>>
  BY DEF Load, Replace, NewVersion, q, pageVars
<1>3. r.win \in Windows /\ s \in Sessions
  BY RequestTouched, WindowAssumption
<1>4. VersionInv'
  BY <1>1, <1>2, <1>3 DEF EditorInv, VersionInv, Shaped, Owned
<1>5. SeenInv'
  <2>1. /\ DOMAIN base' = Sessions /\ DOMAIN crossed' = Sessions
    BY <1>2 DEF EditorInv, SeenInv
  <2>2. Seen(s)'
    <3>1. r.crossed \/ r.seen = saves
      BY <1>2 DEF EditorInv, SeenInv
    <3> QED
      BY <1>2, <1>3, <3>1 DEF EditorInv, SeenInv, Seen
  <2>3. ASSUME NEW x \in requests, x.stage = "checked" PROVE crossed'[s]
    BY <1>2, <1>3, <2>3 DEF EditorInv, SeenInv
  <2>4. \A x \in requests : x.stage = "checked" => x.crossed \/ Seen(SessionOf[x.win])'
    BY <1>2, <1>3, <2>3 DEF EditorInv, SeenInv, Seen
  <2> QED
    BY <1>1, <1>2, <1>3, <2>1, <2>2, <2>3, <2>4 DEF EditorInv, SeenInv
<1> QED
  BY <1>4, <1>5 DEF EditorInv

\* The save that passes the version check is one of the last loader.
LEMMA CheckKeeps ==
  ASSUME EditorInv, NEW r \in requests, Check(r)
  PROVE  EditorInv'
<1> USE DEF pageVars, historyVars
<1>1. CASE Answer(r, "error")
  BY <1>1, AnswerIsPlain, PlainKeeps DEF Check
<1>2. CASE ~Refuses(r) /\ Accept(r)
  <2> DEFINE s == SessionOf[r.win]
             changed == ApplyChanges(copy[s], r.fields)
  <2> DEFINE q == [r EXCEPT !.stage = "checked", !.crossed = FALSE,
                            !.content = Contents(changed) \o half[s]]
  <2>1. /\ DOMAIN q = Names /\ q.win = r.win /\ q.version = r.version
        /\ q.stage = "checked"
    BY RequestTouched DEF Names
  <2>2. requests' = (requests \ {r}) \cup {q}
    BY <1>2 DEF Accept, Accepted, Replace
  <2> HIDE DEF q, changed
  <2>3. UNCHANGED <<version, loader, saves, base, crossed, form>>
    BY DEF Check
  <2>4. r.win \in Windows /\ loader = r.win
    BY <1>2, RequestTouched DEF Refuses, EditorInv, VersionInv, Owned
  <2>5. VersionInv'
    BY <2>1, <2>2, <2>3 DEF EditorInv, VersionInv, Shaped, Owned
  <2>6. SeenInv'
    BY <2>1, <2>2, <2>3, <2>4 DEF EditorInv, SeenInv, Seen
  <2> QED
    BY <2>5, <2>6 DEF EditorInv
<1> QED
  BY <1>1, <1>2 DEF Check, Fail

\* A save is stored: its session has seen it, and every other save or load
\* that is under way has been crossed.
LEMMA WriteKeeps ==
  ASSUME EditorInv, NEW r \in requests, Write(r)
  PROVE  EditorInv'
<1> DEFINE s == SessionOf[r.win]
<1> DEFINE Crossed(q) == IF q.stage \in {"read", "checked"} THEN [q EXCEPT !.crossed = TRUE] ELSE q
<1> DEFINE p == IF r.refresh THEN [r EXCEPT !.stage = "written"]
                ELSE [r EXCEPT !.stage = "answered", !.answer = "done", !.content = <<>>]
<1>1. /\ DOMAIN p = Names /\ p.win = r.win /\ p.version = r.version
      /\ p.stage \in {"written", "answered"}
  BY RequestTouched DEF Names
<1>2. \A q \in requests :
        /\ DOMAIN Crossed(q) = Names /\ Crossed(q).win = q.win
        /\ Crossed(q).version = q.version /\ Crossed(q).stage = q.stage
        /\ q.stage \in {"read", "checked"} => Crossed(q).crossed
  BY RequestTouched DEF Names
<1>3. requests' = {Crossed(q) : q \in requests \ {r}} \cup {p}
  BY DEF Write
<1> HIDE DEF Crossed, p
<1>4. /\ base' = [base EXCEPT ![s] = saves + 1] /\ saves' = saves + 1
      /\ r.stage = "checked"
      /\ UNCHANGED <<version, loader, crossed, form>>
  BY DEF Write, pageVars
<1>5. r.win \in Windows /\ s \in Sessions
  BY RequestTouched, WindowAssumption
<1>6. VersionInv'
  BY <1>1, <1>2, <1>3, <1>4, <1>5 DEF EditorInv, VersionInv, Shaped, Owned
<1>7. SeenInv'
  <2>1. /\ loader \in Windows
        /\ s = SessionOf[loader] \/ crossed[SessionOf[loader]]
    BY <1>4 DEF EditorInv, SeenInv
  <2>2. Seen(SessionOf[loader])'
    BY <1>4, <1>5, <2>1 DEF EditorInv, SeenInv, Seen
  <2>3. \A q \in requests' : q.stage = "checked" =>
          \E x \in requests : x.stage = "checked" /\ x.win = q.win /\ q.crossed
    BY <1>1, <1>2, <1>3
  <2>4. \A q \in requests' : q.stage = "read" => q.crossed
    BY <1>1, <1>2, <1>3
  <2> QED
    BY <1>4, <2>1, <2>2, <2>3, <2>4 DEF EditorInv, SeenInv
<1> QED
  BY <1>6, <1>7 DEF EditorInv

LEMMA EditorNext == EditorInv /\ [Next]_vars => EditorInv'
<1> SUFFICES ASSUME EditorInv, [Next]_vars PROVE EditorInv'
  OBVIOUS
<1>1. CASE \E w \in Windows : \/ Open(w) \/ Type(w) \/ ClickSave(w)
                               \/ ClickElement(w) \/ ClickCancel(w)
  BY <1>1, UserIsPlain, PlainKeeps
<1>2. CASE \E s \in Sessions : Expire(s)
  <2>1. Plain
    BY <1>2, OldContinue DEF Expire, Plain, pageVars, historyVars, EditorInv, VersionInv
  <2> QED
    BY <2>1, PlainKeeps
<1>3. ASSUME NEW r \in requests, Serve(r) PROVE EditorInv'
  BY <1>3, ServiceIsPlain, PlainKeeps, ReadKeeps, LoadKeeps, CheckKeeps, WriteKeeps DEF Serve
<1>4. ASSUME NEW r \in requests, Hear(r) PROVE EditorInv'
  BY <1>4, HearIsPlain, PlainKeeps
<1>5. CASE UNCHANGED vars
  <2>1. Plain
    BY <1>5, OldContinue
    DEF vars, serverVars, pageVars, historyVars, Plain, EditorInv, VersionInv
  <2> QED
    BY <2>1, PlainKeeps
<1> QED
  BY <1>1, <1>2, <1>3, <1>4, <1>5 DEF Next, Serve, Hear

\* Of all the forms that are shown or on their way, those with the current
\* version belong to the window that loaded a form last: two users who edit the
\* same record cannot both save, however the loads and saves interleave
\* (EditLib.getVersionForEditing, the version check of AjaxEditUtils).
THEOREM CurrentFormIsOfLoader == EditorSpec => []OneFormIsCurrent
<1>1. EditorInv => OneFormIsCurrent
  BY DEF EditorInv, VersionInv, Owned, OneFormIsCurrent, IsCurrent
<1> QED
  BY <1>1, EditorInit, EditorNext, PTL DEF EditorSpec

\* A save replaces no save that its session has not seen, unless the two
\* crossed on the server: what the version check of AjaxEditUtils promises,
\* for any number of users, windows and requests.
THEOREM SavesAreSeen == EditorSpec => NoQuietOverwrite
<1>1. EditorInv /\ [Next]_vars =>
        [\A r \in requests : Write(r) =>
           LET s == SessionOf[r.win] IN base[s] = saves \/ crossed[s] \/ r.crossed]_vars
  BY DEF EditorInv, SeenInv, Seen, Write
<1> QED
  BY <1>1, EditorInit, EditorNext, PTL DEF EditorSpec, NoQuietOverwrite

-----------------------------------------------------------------------------
(* Sequences of elements.                                                   *)

LEMMA NatMin ==
  ASSUME NEW S \in SUBSET Nat, S # {}
  PROVE  \E m \in S : \A k \in S : m <= k
<1>1. PICK m \in S : \A k \in S : <<k, m>> \notin OpToRel(<, Nat)
  BY WFMin, NatLessThanWellFounded
<1>2. ASSUME NEW k \in S PROVE m <= k
  <2>1. ~(k < m)
    BY <1>1 DEF OpToRel
  <2> QED
    BY <2>1
<1> QED
  BY <1>2

LEMMA NatMax ==
  ASSUME NEW S \in SUBSET Nat, S # {}, NEW b \in Nat, \A k \in S : k <= b
  PROVE  \E m \in S : \A k \in S : k <= m
<1> DEFINE U == {u \in Nat : \A k \in S : k <= u}
<1>1. U \in SUBSET Nat /\ b \in U
  OBVIOUS
<1>2. PICK u \in U : \A v \in U : u <= v
  BY <1>1, NatMin
<1>3. u \in Nat /\ \A k \in S : k <= u
  OBVIOUS
<1>4. u \in S
  <2> SUFFICES ASSUME u \notin S PROVE FALSE
    OBVIOUS
  <2>1. PICK k \in S : TRUE
    OBVIOUS
  <2>2. \A l \in S : l < u
    BY <1>3
  <2>3. u - 1 \in Nat /\ \A l \in S : l <= u - 1
    BY <1>3, <2>1, <2>2
  <2>4. u - 1 \in U
    BY <2>3
  <2> QED
    BY <1>2, <1>3, <2>4
<1> QED
  BY <1>3, <1>4

LEMMA NumberedSeq ==
  ASSUME NEW e \in Seq(Numbered)
  PROVE  /\ Len(e) \in Nat /\ DOMAIN e = 1..Len(e)
         /\ \A i \in 1..Len(e) : /\ e[i] \in Numbered
                                 /\ e[i].ref \in Nat /\ e[i].el \in Nat /\ e[i].text \in Nat
                                 /\ e[i].trans \in SUBSET Nat /\ e[i].lang \in Nat
                                 /\ e[i].blank \in BOOLEAN
<1>1. Len(e) \in Nat /\ DOMAIN e = 1..Len(e) /\ \A i \in 1..Len(e) : e[i] \in Numbered
  OBVIOUS
<1>2. \A x \in Numbered : /\ x.ref \in Nat /\ x.el \in Nat /\ x.text \in Nat
                          /\ x.trans \in SUBSET Nat /\ x.lang \in Nat /\ x.blank \in BOOLEAN
  BY DEF Numbered
<1> QED
  BY <1>1, <1>2

\* A sequence of numbers has a bound.
Bound(s) == \E b \in Nat : \A i \in 1..Len(s) : s[i] <= b

LEMMA SeqBound == \A e \in Seq(Nat) : Bound(e)
<1> SUFFICES ASSUME NEW e \in Seq(Nat), ~Bound(e) PROVE FALSE
  OBVIOUS
<1> DEFINE Bad == {n \in Nat : \E s \in Seq(Nat) : Len(s) = n /\ ~Bound(s)}
<1>1. Bad \in SUBSET Nat /\ Len(e) \in Bad
  <2>1. Len(e) \in Nat
    OBVIOUS
  <2> QED
    BY <2>1
<1>2. PICK n \in Bad : \A m \in Bad : n <= m
  <2> HIDE DEF Bad
  <2> QED
    BY <1>1, NatMin
<1>3. n \in Nat
  OBVIOUS
<1>4. PICK s \in Seq(Nat) : Len(s) = n /\ ~Bound(s)
  OBVIOUS
<1>5. n # 0
  <2> SUFFICES ASSUME n = 0 PROVE Bound(s)
    BY <1>4
  <2>1. \A i \in 1..Len(s) : s[i] <= 0
    BY <1>4
  <2> QED
    BY <2>1 DEF Bound
<1>6. n - 1 \in Nat /\ \A i \in 1..n : s[i] \in Nat
  BY <1>3, <1>4, <1>5
<1> DEFINE f == [i \in 1..(n - 1) |-> s[i]]
<1>7. f \in Seq(Nat) /\ Len(f) = n - 1 /\ \A i \in 1..(n - 1) : f[i] = s[i]
  <2>1. f \in [1..(n - 1) -> Nat]
    BY <1>3, <1>6
  <2> HIDE DEF f
  <2>2. f \in Seq(Nat) /\ Len(f) = n - 1
    <3> DEFINE m == n - 1
    <3>1. m \in Nat /\ f \in [1..m -> Nat]
      BY <1>6, <2>1
    <3> HIDE DEF m
    <3>2. f \in Seq(Nat) /\ Len(f) = m
      BY <3>1
    <3> QED
      BY <3>2 DEF m
  <2> QED
    BY <2>2 DEF f
<1> HIDE DEF f
<1>8. Bound(f)
  <2>1. n - 1 \notin Bad
    BY <1>2, <1>3
  <2> QED
    BY <1>6, <1>7, <2>1
<1>9. PICK b \in Nat : \A i \in 1..(n - 1) : s[i] <= b
  BY <1>7, <1>8 DEF Bound
<1>10. s[n] \in Nat
  BY <1>3, <1>5, <1>6
<1>11. \A i \in 1..n : s[i] <= b + s[n]
  <2> TAKE i \in 1..n
  <2>1. CASE i = n
    BY <1>10, <2>1
  <2>2. CASE i # n
    <3>1. i \in 1..(n - 1) /\ s[i] \in Nat
      BY <1>3, <1>6, <2>2
    <3> QED
      BY <1>9, <1>10, <3>1
  <2> QED
    BY <2>1, <2>2
<1>12. b + s[n] \in Nat
  BY <1>10
<1> QED
  BY <1>4, <1>11, <1>12 DEF Bound

LEMMA MaximumRefIs ==
  ASSUME NEW e \in Seq(Numbered)
  PROVE  MaximumRef(e) \in Nat /\ \A i \in DOMAIN e : e[i].ref <= MaximumRef(e)
<1> DEFINE refs == {0} \cup {x.ref : x \in ToSet(e)}
           r == [i \in 1..Len(e) |-> e[i].ref]
<1>1. \A i \in 1..Len(e) : e[i] \in Numbered /\ e[i].ref \in Nat
  BY NumberedSeq
<1>2. r \in Seq(Nat) /\ Len(r) = Len(e)
  BY <1>1
<1>3. PICK b \in Nat : \A i \in 1..Len(e) : e[i].ref <= b
  <2>1. PICK b \in Nat : \A i \in 1..Len(r) : r[i] <= b
    BY <1>2, SeqBound DEF Bound
  <2>2. \A i \in 1..Len(e) : r[i] = e[i].ref
    OBVIOUS
  <2> QED
    BY <1>2, <2>1, <2>2
<1>4. refs \in SUBSET Nat /\ refs # {} /\ \A k \in refs : k <= b
  BY <1>1, <1>3 DEF ToSet
<1>5. \E m \in refs : \A k \in refs : k <= m
  BY <1>4, NatMax
<1>6. \E m \in refs : \A x \in ToSet(e) : x.ref <= m
  BY <1>5
<1>7. MaximumRef(e) \in refs /\ \A x \in ToSet(e) : x.ref <= MaximumRef(e)
  BY <1>6 DEF MaximumRef
<1> QED
  BY <1>4, <1>7 DEF ToSet

LEMMA FindIs ==
  ASSUME NEW e \in Seq(Numbered), NEW ref
  PROVE  Find(e, ref) \in 0..Len(e)
<1> DEFINE I == {i \in 1..Len(e) : e[i].ref = ref}
<1>1. Find(e, ref) = IF I # {} THEN Min(I) ELSE 0
  BY DEF Find, SelectInSeq
<1>2. CASE I # {}
  <2>1. I \in SUBSET Nat
    OBVIOUS
  <2>2. \E m \in I : \A k \in I : m <= k
    BY <1>2, <2>1, NatMin
  <2> HIDE DEF I
  <2>3. Min(I) \in I
    BY <2>2 DEF Min
  <2> USE DEF I
  <2> QED
    BY <1>1, <1>2, <2>3
<1> QED
  BY <1>1, <1>2

LEMMA LastIs ==
  ASSUME NEW f \in Seq(Numbered), NEW ref
  PROVE  LET I == {i \in 1..Len(f) : f[i].ref = ref}
         IN  (IF I # {} THEN Max(I) ELSE 0) \in 0..Len(f)
<1> DEFINE I == {i \in 1..Len(f) : f[i].ref = ref}
<1>1. CASE I # {}
  <2>1. I \in SUBSET Nat /\ Len(f) \in Nat /\ \A k \in I : k <= Len(f)
    OBVIOUS
  <2>2. \E m \in I : \A k \in I : k <= m
    BY <1>1, <2>1, NatMax
  <2> HIDE DEF I
  <2>3. \E m \in I : \A k \in I : m >= k
    BY <2>1, <2>2
  <2>4. Max(I) \in I
    BY <2>3 DEF Max
  <2> USE DEF I
  <2> QED
    BY <1>1, <2>4
<1> QED
  BY <1>1

LEMMA TranslatedIs ==
  ASSUME NEW e \in Numbered, NEW lang \in Nat
  PROVE  /\ Translated(e, lang) \in Numbered
         /\ Translated(e, lang).ref = e.ref /\ Translated(e, lang).el = e.el
         /\ lang # 0 => lang \in Translated(e, lang).trans
<1> DEFINE adds == e.trans = {} \/ Schema = "iso19139.che"
<1>1. PICK t : t = [e EXCEPT !.trans = IF adds THEN @ \cup {lang} ELSE {lang},
                             !.blank = @ \/ adds]
  OBVIOUS
<1>2. Translated(e, lang) = IF lang = 0 THEN e ELSE t
  BY <1>1 DEF Translated
<1> HIDE DEF adds
<1>3. e.trans \in SUBSET Nat /\ e.blank \in BOOLEAN
  BY DEF Numbered
<1>4. (IF adds THEN e.trans \cup {lang} ELSE {lang}) \in SUBSET Nat
  BY <1>3
<1>5. (e.blank \/ adds) \in BOOLEAN
  OBVIOUS
<1>6. t \in Numbered /\ t.ref = e.ref /\ t.el = e.el /\ lang \in t.trans
  BY <1>1, <1>4, <1>5 DEF Numbered
<1> QED
  BY <1>2, <1>6

LEMMA ApplyIs ==
  ASSUME NEW e \in Seq(Numbered), NEW f \in Seq(Numbered)
  PROVE  /\ ApplyChanges(e, f) \in Seq(Numbered)
         /\ DOMAIN ApplyChanges(e, f) = DOMAIN e
         /\ \A i \in DOMAIN e : /\ ApplyChanges(e, f)[i].ref = e[i].ref
                                /\ ApplyChanges(e, f)[i].el = e[i].el
<1> DEFINE At(i) == SelectLastInSeq(f, LAMBDA x : x.ref = e[i].ref)
           t(i) == Translated(e[i], f[At(i)].lang)
           a == [i \in DOMAIN e |-> IF At(i) = 0 THEN e[i] ELSE [t(i) EXCEPT !.text = f[At(i)].text]]
<1>1. ApplyChanges(e, f) = a
  BY DEF ApplyChanges
<1>2. ASSUME NEW i \in DOMAIN e PROVE At(i) \in 0..Len(f)
  <2> DEFINE ref == e[i].ref
             I == {k \in 1..Len(f) : f[k].ref = ref}
  <2>1. At(i) = IF I # {} THEN Max(I) ELSE 0
    BY DEF SelectLastInSeq
  <2> HIDE DEF ref
  <2> QED
    BY <2>1, LastIs
<1> HIDE DEF At
<1>3. \A i \in DOMAIN e : a[i] \in Numbered /\ a[i].ref = e[i].ref /\ a[i].el = e[i].el
  <2> TAKE i \in DOMAIN e
  <2>1. e[i] \in Numbered
    OBVIOUS
  <2>2. CASE At(i) = 0
    BY <2>1, <2>2
  <2>3. CASE At(i) # 0
    <3>1. At(i) \in 1..Len(f)
      BY <1>2, <2>3
    <3>2. f[At(i)].text \in Nat /\ f[At(i)].lang \in Nat
      BY <3>1, NumberedSeq
    <3>3. t(i) \in Numbered /\ t(i).ref = e[i].ref /\ t(i).el = e[i].el
      BY <2>1, <3>2, TranslatedIs
    <3>4. a[i] = [t(i) EXCEPT !.text = f[At(i)].text]
      BY <2>3
    <3> HIDE DEF t, a
    <3> QED
      BY <3>2, <3>3, <3>4 DEF Numbered
  <2> QED
    BY <2>2, <2>3
<1>4. DOMAIN a = DOMAIN e /\ DOMAIN e = 1..Len(e) /\ Len(e) \in Nat
  OBVIOUS
<1> HIDE DEF a
<1>5. a \in Seq(Numbered)
  <2>1. a = [i \in 1..Len(e) |-> a[i]]
    BY <1>4 DEF a
  <2> QED
    BY <1>3, <1>4, <2>1
<1> QED
  BY <1>1, <1>3, <1>4, <1>5

\* Changes given up half way leave the elements and their refs.
LEMMA PartlyIs ==
  ASSUME NEW e \in Seq(Numbered), NEW a \in Seq(Numbered), DOMAIN a = DOMAIN e,
         NEW texted, NEW translated
  PROVE  LET p == PartlyChanged(e, a, texted, translated)
         IN  /\ p \in Seq(Numbered) /\ DOMAIN p = DOMAIN e
             /\ \A i \in DOMAIN e : p[i].ref = e[i].ref /\ p[i].el = e[i].el
<1> DEFINE text(i)  == IF i \in texted THEN a[i].text ELSE e[i].text
           trans(i) == IF i \in translated THEN a[i].trans ELSE e[i].trans
           blank(i) == IF i \in translated THEN a[i].blank ELSE e[i].blank
           p == [i \in DOMAIN e |-> [e[i] EXCEPT !.text = text(i), !.trans = trans(i),
                                                 !.blank = blank(i)]]
<1>1. PartlyChanged(e, a, texted, translated) = p
  BY DEF PartlyChanged
<1>2. DOMAIN p = DOMAIN e /\ DOMAIN e = 1..Len(e) /\ Len(e) \in Nat
  OBVIOUS
<1>3. \A i \in DOMAIN e : p[i] \in Numbered /\ p[i].ref = e[i].ref /\ p[i].el = e[i].el
  <2> TAKE i \in DOMAIN e
  <2>1. /\ e[i] \in Numbered
        /\ text(i) \in Nat /\ trans(i) \in SUBSET Nat /\ blank(i) \in BOOLEAN
    BY <1>2, NumberedSeq
  <2>2. p[i] = [e[i] EXCEPT !.text = text(i), !.trans = trans(i), !.blank = blank(i)]
    OBVIOUS
  <2> HIDE DEF text, trans, blank, p
  <2> QED
    BY <2>1, <2>2 DEF Numbered
<1>4. p = [i \in 1..Len(e) |-> p[i]]
  BY <1>2
<1> HIDE DEF p
<1>5. p \in Seq(Numbered)
  BY <1>2, <1>3, <1>4
<1> QED
  BY <1>1, <1>2, <1>3, <1>5

LEMMA RemoveIs ==
  ASSUME NEW S, NEW s \in Seq(S), NEW i \in 1..Len(s)
  PROVE  /\ RemoveAt(s, i) \in Seq(S) /\ Len(RemoveAt(s, i)) = Len(s) - 1
         /\ \A k \in 1..(Len(s) - 1) : RemoveAt(s, i)[k] = s[IF k < i THEN k ELSE k + 1]
<1> DEFINE a == SubSeq(s, 1, i - 1)  z == SubSeq(s, i + 1, Len(s))
<1>1. a \in Seq(S) /\ Len(a) = i - 1 /\ \A k \in 1..(i - 1) : a[k] = s[k]
  OBVIOUS
<1>2. z \in Seq(S) /\ Len(z) = Len(s) - i /\ \A k \in 1..(Len(s) - i) : z[k] = s[k + i]
  OBVIOUS
<1> HIDE DEF a, z
<1>3. /\ a \o z \in Seq(S) /\ Len(a \o z) = Len(a) + Len(z)
      /\ \A k \in 1 .. Len(a) + Len(z) : (a \o z)[k] = IF k <= Len(a) THEN a[k] ELSE z[k - Len(a)]
  BY <1>1, <1>2, ConcatProperties
<1>4. \A k \in 1..(Len(s) - 1) : (a \o z)[k] = s[IF k < i THEN k ELSE k + 1]
  <2> TAKE k \in 1..(Len(s) - 1)
  <2>1. CASE k < i
    BY <1>1, <1>2, <1>3, <2>1
  <2>2. CASE ~(k < i)
    <3>1. k - (i - 1) \in 1..(Len(s) - i) /\ (k - (i - 1)) + i = k + 1
      BY <2>2
    <3>2. (a \o z)[k] = z[k - (i - 1)]
      BY <1>1, <1>2, <1>3, <2>2
    <3> QED
      BY <1>2, <2>2, <3>1, <3>2
  <2> QED
    BY <2>1, <2>2
<1>5. RemoveAt(s, i) = a \o z
  BY DEF RemoveAt, a, z
<1>6. Len(a) + Len(z) = Len(s) - 1
  BY <1>1, <1>2
<1> QED
  BY <1>3, <1>4, <1>5, <1>6

LEMMA InsertIs ==
  ASSUME NEW S, NEW s \in Seq(S), NEW i \in 1..(Len(s) + 1), NEW e \in S
  PROVE  InsertAt(s, i, e) \in Seq(S)
<1>1. SubSeq(s, 1, i - 1) \in Seq(S) /\ SubSeq(s, i, Len(s)) \in Seq(S) /\ <<e>> \in Seq(S)
  OBVIOUS
<1> QED
  BY <1>1, ConcatProperties DEF InsertAt

LEMMA SwapIs ==
  ASSUME NEW S, NEW s \in Seq(S), NEW i \in 1..Len(s), i < Len(s)
  PROVE  /\ SwapWithNext(s, i) \in Seq(S) /\ Len(SwapWithNext(s, i)) = Len(s)
         /\ \A k \in 1..Len(s) : SwapWithNext(s, i)[k] =
               s[IF k = i THEN i + 1 ELSE IF k = i + 1 THEN i ELSE k]
<1>1. i + 1 \in 1..Len(s) /\ s[i] \in S /\ s[i + 1] \in S
  OBVIOUS
<1> QED
  BY <1>1 DEF SwapWithNext

LEMMA EnumerateIs ==
  ASSUME NEW c \in Seq(Element)
  PROVE  /\ Enumerate(c) \in Seq(Numbered)
         /\ \A i \in DOMAIN Enumerate(c) : Enumerate(c)[i].ref = i
<1>1. \A i \in 1..Len(c) : c[i] \in Element
  OBVIOUS
<1>2. \A i \in 1..Len(c) :
        [ref |-> i, el |-> c[i].el, text |-> c[i].text,
         trans |-> c[i].trans, lang |-> 0, blank |-> FALSE] \in Numbered
  BY <1>1 DEF Element, Numbered
<1> QED
  BY <1>2 DEF Enumerate

LEMMA ContentsIs ==
  ASSUME NEW e \in Seq(Numbered)
  PROVE  Contents(e) \in Seq(Element)
<1>1. \A i \in 1..Len(e) :
        [el |-> e[i].el, text |-> e[i].text, trans |-> e[i].trans] \in Element
  BY NumberedSeq DEF Element
<1> QED
  BY <1>1 DEF Contents

-----------------------------------------------------------------------------
(* The types of the requests and of the state, and the refs.                *)

Good(r) ==
  /\ r \in Request
  /\ r.stage = "checked" => r.kind = "save"
  /\ r.kind \in {"add", "attribute"} /\ r.answer = "done" => Len(r.fields) = 1

\* The elements of a working copy have different refs.
Unique(e) == \A i, j \in DOMAIN e : e[i].ref = e[j].ref => i = j
Copied(c) == c = None \/ (c \in Seq(Numbered) /\ Unique(c))

ServerOK ==
  /\ record \in Seq(Element) /\ version \in Nat
  /\ DOMAIN copy = Sessions /\ copy = [s \in Sessions |-> copy[s]]
  /\ \A s \in Sessions : Copied(copy[s])
  /\ half \in [Sessions -> Seq(Element)] /\ info \in [Sessions -> BOOLEAN]
  /\ before \in [Sessions -> Seq(Element) \cup {None}]
  /\ expired \in [Sessions -> BOOLEAN]
PageOK ==
  /\ form \in [Windows -> Form \cup {None}]
  /\ saving \in [Windows -> BOOLEAN] /\ working \in [Windows -> BOOLEAN]
  /\ loggedOut \in [Windows -> BOOLEAN]
RequestOK == (\A r \in requests : Good(r)) /\ ids \in Nat
HistoryOK ==
  /\ saves \in Nat /\ base \in [Sessions -> Nat]
  /\ crossed \in [Sessions -> BOOLEAN] /\ loader \in Windows \cup {None}
  /\ orderly \in [Sessions -> BOOLEAN]
RefsInv == ServerOK /\ PageOK /\ RequestOK /\ HistoryOK /\ texts \in Nat

LEMMA NewIsElement == \A n \in Nat : NewElement(n) \in Element
  BY DEF NewElement, Element

LEMMA RefsInit == Init => RefsInv
<1> SUFFICES ASSUME Init PROVE RefsInv
  OBVIOUS
<1>1. record \in Seq(Element)
  <2>1. \A i \in 1..Initially : NewElement(i) \in Element
    BY BoundAssumption, NewIsElement
  <2> QED
    BY <2>1, BoundAssumption DEF Init
<1> QED
  BY <1>1, BoundAssumption DEF Init, RefsInv, ServerOK, PageOK, RequestOK, HistoryOK, Copied

LEMMA RefsImplies == RefsInv => EditorTypeOK /\ RefsAreUnique
<1> SUFFICES ASSUME RefsInv PROVE EditorTypeOK /\ RefsAreUnique
  OBVIOUS
<1>1. copy \in [Sessions -> Seq(Numbered) \cup {None}]
  BY DEF RefsInv, ServerOK, Copied
<1>2. requests \subseteq Request
  BY DEF RefsInv, RequestOK, Good
<1>3. EditorTypeOK
  BY <1>1, <1>2 DEF RefsInv, ServerOK, PageOK, RequestOK, HistoryOK, EditorTypeOK
<1>4. RefsAreUnique
  BY DEF RefsInv, ServerOK, Copied, Unique, RefsAreUnique
<1> QED
  BY <1>3, <1>4

LEMMA GoodFields ==
  ASSUME NEW r, Good(r)
  PROVE  /\ r \in Request
         /\ r.win \in Windows /\ SessionOf[r.win] \in Sessions
         /\ r.fields \in Seq(Numbered) /\ r.version \in Nat /\ r.ref \in Nat
         /\ r.content \in Seq(Element) /\ r.seen \in Nat /\ r.crossed \in BOOLEAN
         /\ r.silent \in BOOLEAN /\ r.kind \in Kinds /\ r.stage \in Stages
         /\ r.next \in {"none", "close", "attribute", "process", "save"}
  BY WindowAssumption DEF Good, Request

LEMMA BlankIsGood ==
  ASSUME RefsInv, NEW w \in Windows, NEW kind \in Kinds
  PROVE  Good(Blank(w, kind)) /\ Blank(w, kind).kind = kind /\ Blank(w, kind).answer = "none"
         /\ Blank(w, kind).stage = "sent" /\ Blank(w, kind).win = w
<1>1. <<>> \in Seq(Numbered) /\ <<>> \in Seq(Element)
  OBVIOUS
<1>2. ids \in Nat
  BY DEF RefsInv, RequestOK
<1> QED
  BY <1>1, <1>2 DEF Blank, Good, Request, Stages, Answers

\* A new request.
LEMMA SendKeeps ==
  ASSUME RefsInv, NEW pending, NEW r, SendFrom(pending, r), Good(r),
         \A q \in pending : Good(q)
  PROVE  RequestOK' /\ orderly' \in [Sessions -> BOOLEAN]
<1>1. SessionOf[r.win] \in Sessions
  BY GoodFields
<1>2. RequestOK'
  BY DEF SendFrom, RequestOK, RefsInv
<1>3. orderly' \in [Sessions -> BOOLEAN]
  BY <1>1 DEF SendFrom, RefsInv, HistoryOK
<1> QED
  BY <1>2, <1>3

LEMMA ReplaceKeeps ==
  ASSUME RefsInv, NEW r, NEW q, Replace(r, q), Good(q), UNCHANGED ids
  PROVE  RequestOK'
  BY DEF RefsInv, RequestOK, Replace

LEMMA AnswerKeeps ==
  ASSUME RefsInv, NEW r \in requests, NEW a \in Answers, Answer(r, a), UNCHANGED ids,
         a = "done" => r.kind \notin {"add", "attribute"}
  PROVE  RequestOK'
<1> DEFINE q == [r EXCEPT !.stage = "answered", !.answer = a]
<1>1. Good(r)
  BY DEF RefsInv, RequestOK
<1>2. Good(q)
  BY <1>1 DEF Good, Request, Stages
<1> HIDE DEF q
<1>3. Replace(r, q)
  BY DEF Answer, q
<1> QED
  BY <1>2, <1>3, ReplaceKeeps

LEMMA StartSavingKeeps ==
  ASSUME RefsInv, NEW pending \in SUBSET requests, NEW w \in Windows, NEW how,
         form[w] # None, StartSaving(pending, w, how),
         how.fields \in Seq(Numbered), how.refresh \in BOOLEAN, how.silent \in BOOLEAN,
         how.next \in {"none", "close", "attribute", "process"}, how.ref \in Nat
  PROVE  /\ RequestOK' /\ orderly' \in [Sessions -> BOOLEAN]
         /\ saving' \in [Windows -> BOOLEAN] /\ working' \in [Windows -> BOOLEAN]
<1> DEFINE r == [Blank(w, "save") EXCEPT
       !.fields = how.fields, !.version = form[w].version, !.refresh = how.refresh,
       !.silent = how.silent, !.next = how.next, !.ref = how.ref]
<1>1. form[w].version \in Nat
  BY DEF RefsInv, PageOK, Form
<1>2. Good(r)
  <2> DEFINE b == Blank(w, "save")
  <2>1. Good(b) /\ b.kind = "save" /\ b.stage = "sent"
    BY BlankIsGood DEF Kinds
  <2> HIDE DEF b
  <2> SUFFICES Good([b EXCEPT
       !.fields = how.fields, !.version = form[w].version, !.refresh = how.refresh,
       !.silent = how.silent, !.next = how.next, !.ref = how.ref])
    BY DEF b
  <2> QED
    BY <1>1, <2>1 DEF Good, Request
<1>3. SendFrom(pending, r)
  BY DEF StartSaving
<1> HIDE DEF r
<1>4. RequestOK' /\ orderly' \in [Sessions -> BOOLEAN]
  BY <1>2, <1>3, SendKeeps DEF RefsInv, RequestOK
<1>5. saving' \in [Windows -> BOOLEAN] /\ working' \in [Windows -> BOOLEAN]
  BY DEF StartSaving, RefsInv, PageOK
<1> QED
  BY <1>4, <1>5

LEMMA UnheardIsGood ==
  ASSUME RefsInv, NEW w
  PROVE  \A q \in Unheard(w) : Good(q)
<1>1. \A r \in requests : Good(r) /\ Good([r EXCEPT !.heard = FALSE])
  BY DEF RefsInv, RequestOK, Good, Request
<1> QED
  BY <1>1 DEF Unheard

LEMMA BlurKeeps ==
  ASSUME RefsInv, NEW w \in Windows, Blur(w)
  PROVE  PageOK'
  BY DEF RefsInv, PageOK, Blur

-----------------------------------------------------------------------------
(* Refs stay different.                                                     *)

LEMMA EnumerateUnique ==
  ASSUME NEW c \in Seq(Element)
  PROVE  Copied(Enumerate(c)) /\ Enumerate(c) \in Seq(Numbered)
  BY EnumerateIs DEF Copied, Unique

LEMMA ApplyUnique ==
  ASSUME NEW e \in Seq(Numbered), Unique(e), NEW f \in Seq(Numbered)
  PROVE  Copied(ApplyChanges(e, f)) /\ ApplyChanges(e, f) \in Seq(Numbered)
  BY ApplyIs DEF Copied, Unique

LEMMA NewIsNumbered ==
  ASSUME NEW x \in Nat
  PROVE  /\ Enumerate(<<NewElement(x)>>)[1] \in Numbered
         /\ Enumerate(<<NewElement(x)>>)[1].el = x
<1>1. NewElement(x) \in Element /\ <<NewElement(x)>> \in Seq(Element)
  BY NewIsElement
<1>2. Len(<<NewElement(x)>>) = 1 /\ <<NewElement(x)>>[1] = NewElement(x)
  OBVIOUS
<1>3. Enumerate(<<NewElement(x)>>)[1] =
        [ref |-> 1, el |-> x, text |-> 0, trans |-> {}, lang |-> 0, blank |-> FALSE]
  <2> DEFINE c == <<NewElement(x)>>
  <2>a. c \in Seq(Element) /\ Len(c) = 1 /\ c[1] = NewElement(x)
    BY <1>1, <1>2
  <2> HIDE DEF c
  <2>0. c[1] = NewElement(x) /\ 1 \in DOMAIN c
    BY <2>a
  <2>1. c[1] = [el |-> x, text |-> 0, trans |-> {}] /\ 1 \in DOMAIN c
    BY <2>0 DEF NewElement
  <2>2. Enumerate(c)[1] = [ref |-> 1, el |-> c[1].el, text |-> c[1].text,
                           trans |-> c[1].trans, lang |-> 0, blank |-> FALSE]
    BY <2>1 DEF Enumerate
  <2>3. Enumerate(c)[1] =
          [ref |-> 1, el |-> x, text |-> 0, trans |-> {}, lang |-> 0, blank |-> FALSE]
    BY <2>1, <2>2
  <2> QED
    BY <2>3 DEF c
<1>4. {} \in SUBSET Nat /\ FALSE \in BOOLEAN /\ 0 \in Nat /\ 1 \in Nat
  OBVIOUS
<1>5. [ref |-> 1, el |-> x, text |-> 0, trans |-> {}, lang |-> 0, blank |-> FALSE] \in Numbered
  BY <1>4 DEF Numbered
<1> QED
  BY <1>3, <1>5

LEMMA AppendUnique ==
  ASSUME NEW e \in Seq(Numbered), Unique(e), NEW x \in Nat
  PROVE  LET new == [Enumerate(<<NewElement(x + 1)>>)[1] EXCEPT !.ref = MaximumRef(e) + 1]
         IN  new \in Numbered /\ Copied(Append(e, new))
<1> DEFINE new == [Enumerate(<<NewElement(x + 1)>>)[1] EXCEPT !.ref = MaximumRef(e) + 1]
<1>1. new \in Numbered /\ new.ref = MaximumRef(e) + 1
  <2> DEFINE n == Enumerate(<<NewElement(x + 1)>>)[1]
  <2>1. n \in Numbered /\ MaximumRef(e) + 1 \in Nat
    BY MaximumRefIs, NewIsNumbered
  <2> HIDE DEF n
  <2>2. /\ [n EXCEPT !.ref = MaximumRef(e) + 1] \in Numbered
        /\ [n EXCEPT !.ref = MaximumRef(e) + 1].ref = MaximumRef(e) + 1
    BY <2>1 DEF Numbered
  <2> QED
    BY <2>2 DEF n
<1>2. /\ Append(e, new) \in Seq(Numbered) /\ DOMAIN Append(e, new) = 1 .. Len(e) + 1
      /\ \A i \in 1..Len(e) : Append(e, new)[i] = e[i]
      /\ Append(e, new)[Len(e) + 1] = new
      /\ Len(e) \in Nat /\ DOMAIN e = 1..Len(e)
  <2> HIDE DEF new
  <2> QED
    BY <1>1
<1>3. \A i \in 1..Len(e) : e[i].ref \in Nat /\ e[i].ref < new.ref
  BY <1>1, MaximumRefIs, NumberedSeq
<1> HIDE DEF new
<1>4. Unique(Append(e, new))
  <2> SUFFICES ASSUME NEW i \in 1 .. Len(e) + 1, NEW j \in 1 .. Len(e) + 1,
                      Append(e, new)[i].ref = Append(e, new)[j].ref
               PROVE  i = j
    BY <1>2 DEF Unique
  <2>1. CASE i \in 1..Len(e) /\ j \in 1..Len(e)
    BY <1>2, <2>1 DEF Unique
  <2>2. CASE i = Len(e) + 1 /\ j \in 1..Len(e)
    BY <1>2, <1>3, <2>2
  <2>3. CASE j = Len(e) + 1 /\ i \in 1..Len(e)
    BY <1>2, <1>3, <2>3
  <2> QED
    BY <1>2, <2>1, <2>2, <2>3
<1> QED
  BY <1>1, <1>2, <1>4 DEF new, Copied

LEMMA RemoveUnique ==
  ASSUME NEW e \in Seq(Numbered), Unique(e), NEW i \in 1..Len(e)
  PROVE  Copied(RemoveAt(e, i))
<1> DEFINE f == RemoveAt(e, i)
           From(k) == IF k < i THEN k ELSE k + 1
<1>1. /\ f \in Seq(Numbered) /\ Len(f) = Len(e) - 1 /\ DOMAIN f = 1..(Len(e) - 1)
      /\ \A k \in 1..(Len(e) - 1) : f[k] = e[From(k)]
  BY RemoveIs
<1> HIDE DEF f
<1>2. \A k \in 1..(Len(e) - 1) : From(k) \in DOMAIN e
  OBVIOUS
<1>3. \A k, l \in 1..(Len(e) - 1) : From(k) = From(l) => k = l
  OBVIOUS
<1> HIDE DEF From
<1> QED
  BY <1>1, <1>2, <1>3 DEF Copied, Unique, f

LEMMA SwapUnique ==
  ASSUME NEW e \in Seq(Numbered), Unique(e), NEW i \in 1..Len(e), i < Len(e)
  PROVE  Copied(SwapWithNext(e, i))
<1> DEFINE f == SwapWithNext(e, i)
           From(k) == IF k = i THEN i + 1 ELSE IF k = i + 1 THEN i ELSE k
<1>1. /\ f \in Seq(Numbered) /\ Len(f) = Len(e) /\ DOMAIN f = 1..Len(e)
      /\ \A k \in 1..Len(e) : f[k] = e[From(k)]
  BY SwapIs
<1> HIDE DEF f
<1>2. \A k \in 1..Len(e) : From(k) \in DOMAIN e
  OBVIOUS
<1>3. \A k, l \in 1..Len(e) : From(k) = From(l) => k = l
  OBVIOUS
<1> HIDE DEF From
<1> QED
  BY <1>1, <1>2, <1>3 DEF Copied, Unique, f

-----------------------------------------------------------------------------
(* The steps.                                                               *)

LEMMA FieldRefs ==
  ASSUME NEW e \in Seq(Numbered)
  PROVE  (\A f \in ToSet(e) : f.ref \in Nat) /\ (e # <<>> => Last(e).ref \in Nat)
<1>1. \A f \in ToSet(e) : f.ref \in Nat
  <2>1. ToSet(e) = {e[i] : i \in 1..Len(e)}
    BY DEF ToSet
  <2> QED
    BY <2>1, NumberedSeq
<1>2. ASSUME e # <<>> PROVE Last(e).ref \in Nat
  <2>1. Len(e) \in 1..Len(e)
    BY <1>2
  <2> QED
    BY <2>1, NumberedSeq DEF Last
<1> QED
  BY <1>1, <1>2

LEMMA UserKeepsRefs ==
  ASSUME RefsInv, NEW w \in Windows,
         Open(w) \/ Type(w) \/ ClickSave(w) \/ ClickElement(w) \/ ClickCancel(w)
  PROVE  RefsInv'
<1> USE DEF serverVars, pageVars, historyVars
<1>0. /\ texts \in Nat /\ texts + 1 \in Nat
      /\ form[w] # None => form[w] \in Form /\ form[w].fields \in Seq(Numbered)
      /\ \A r \in requests : Good(r)
  BY DEF RefsInv, PageOK, RequestOK, Form
<1>1. CASE Open(w)
  <2>1. Good(Blank(w, "open"))
    BY BlankIsGood DEF Kinds, Loads
  <2>2. RequestOK' /\ orderly' \in [Sessions -> BOOLEAN]
    BY <1>1, <2>1, UnheardIsGood, SendKeeps DEF Open
  <2>3. PageOK'
    BY <1>1, BlurKeeps DEF Open
  <2> QED
    BY <1>1, <2>2, <2>3 DEF Open, RefsInv, ServerOK, HistoryOK
<1>2. CASE Type(w)
  <2> DEFINE f == form[w].fields
  <2>1. PICK i \in DOMAIN f :
          \/ /\ form' = [form EXCEPT ![w].fields[i].text = texts + 1]
             /\ texts' = texts + 1
          \/ /\ form' = [form EXCEPT ![w].fields[i].lang = texts + 1]
             /\ texts' = texts + 1
          \/ /\ form' = [form EXCEPT ![w].fields[i].lang = 0]
             /\ texts' = texts
    BY <1>2 DEF Type
  <2>2. f \in Seq(Numbered) /\ f[i] \in Numbered
    BY <1>0, <1>2 DEF Type
  <2>3. PICK x \in Numbered : form' = [form EXCEPT ![w].fields[i] = x]
    <3>1. [f[i] EXCEPT !.text = texts + 1] \in Numbered
      BY <1>0, <2>2 DEF Numbered
    <3>2. [f[i] EXCEPT !.lang = texts + 1] \in Numbered
      BY <1>0, <2>2 DEF Numbered
    <3>3. [f[i] EXCEPT !.lang = 0] \in Numbered
      BY <2>2 DEF Numbered
    <3> QED
      BY <2>1, <3>1, <3>2, <3>3
  <2> DEFINE fields == [f EXCEPT ![i] = x]
             new == [form[w] EXCEPT !.fields = fields]
  <2>4. fields \in Seq(Numbered)
    BY <2>2
  <2>5. form' = [form EXCEPT ![w] = new]
    BY <2>3
  <2> HIDE DEF fields
  <2>6. new \in Form
    BY <1>0, <1>2, <2>4 DEF Form, Type
  <2> HIDE DEF new
  <2>7. form' \in [Windows -> Form \cup {None}]
    BY <2>5, <2>6 DEF RefsInv, PageOK
  <2>8. texts' \in Nat
    BY <1>0, <2>1
  <2> QED
    BY <1>2, <2>7, <2>8 DEF Type, RefsInv, ServerOK, PageOK, RequestOK, HistoryOK
<1>3. CASE ClickSave(w)
  <2>0. PICK c \in Clicks \cap DOMAIN SaveClicks :
         \E ref \in IF c = "attribute" THEN {f.ref : f \in ToSet(form[w].fields)} ELSE {0} :
           StartSaving(requests, w, [fields |-> form[w].fields, refresh |-> SaveClicks[c][1],
                       silent |-> SaveClicks[c][2], next |-> SaveClicks[c][3], ref |-> ref])
    BY <1>3 DEF ClickSave
  <2>1. PICK ref \in IF c = "attribute" THEN {f.ref : f \in ToSet(form[w].fields)} ELSE {0} :
         StartSaving(requests, w, [fields |-> form[w].fields, refresh |-> SaveClicks[c][1],
                       silent |-> SaveClicks[c][2], next |-> SaveClicks[c][3], ref |-> ref])
    BY <2>0
  <2>2. ref \in Nat
    BY <1>0, <1>3, FieldRefs DEF ClickSave
  <2>3. /\ SaveClicks[c][1] \in BOOLEAN /\ SaveClicks[c][2] \in BOOLEAN
        /\ SaveClicks[c][3] \in {"none", "close", "attribute", "process"}
    <3>1. c \in {"save", "switchTab", "silentSave", "process", "close", "attribute"}
      BY DEF SaveClicks
    <3>2. /\ SaveClicks["save"] = <<FALSE, FALSE, "none">>
          /\ SaveClicks["switchTab"] = <<TRUE, FALSE, "none">>
          /\ SaveClicks["silentSave"] = <<TRUE, TRUE, "none">>
          /\ SaveClicks["process"] = <<FALSE, TRUE, "process">>
          /\ SaveClicks["close"] = <<FALSE, FALSE, "close">>
          /\ SaveClicks["attribute"] = <<FALSE, FALSE, "attribute">>
      BY DEF SaveClicks
    <3>3. \E p, q \in BOOLEAN, n \in {"none", "close", "attribute", "process"} :
            SaveClicks[c] = <<p, q, n>>
      BY <3>1, <3>2, Zenon
    <3>4. PICK p \in BOOLEAN, q \in BOOLEAN, n \in {"none", "close", "attribute", "process"} :
            SaveClicks[c] = <<p, q, n>>
      BY <3>3
    <3> QED
      BY <3>4
  <2> DEFINE how == [fields |-> form[w].fields, refresh |-> SaveClicks[c][1],
                     silent |-> SaveClicks[c][2], next |-> SaveClicks[c][3], ref |-> ref]
  <2>a. form[w] # None
    BY <1>3 DEF ClickSave
  <2>4. /\ how.fields \in Seq(Numbered) /\ how.refresh \in BOOLEAN /\ how.silent \in BOOLEAN
        /\ how.next \in {"none", "close", "attribute", "process"} /\ how.ref \in Nat
    <3>1. /\ how.fields = form[w].fields /\ how.refresh = SaveClicks[c][1] /\ how.ref = ref
          /\ how.silent = SaveClicks[c][2] /\ how.next = SaveClicks[c][3]
      OBVIOUS
    <3> HIDE DEF how
    <3> QED
      BY <1>0, <2>a, <2>2, <2>3, <3>1
  <2>5. StartSaving(requests, w, how) /\ form[w] # None
    BY <1>3, <2>1 DEF ClickSave
  <2> HIDE DEF how
  <2>6. /\ RequestOK' /\ orderly' \in [Sessions -> BOOLEAN]
        /\ saving' \in [Windows -> BOOLEAN] /\ working' \in [Windows -> BOOLEAN]
    BY <2>4, <2>5, StartSavingKeeps
  <2> QED
    BY <1>3, <2>6 DEF ClickSave, RefsInv, ServerOK, PageOK, HistoryOK
<1>4. CASE ClickElement(w)
  <2>a. form[w] # None
    BY <1>4 DEF ClickElement
  <2>1. ASSUME NEW kind \in {"remove", "move", "add"}, NEW ref \in Nat
        PROVE  /\ Good([Blank(w, kind) EXCEPT !.ref = ref])
               /\ \A next \in {"none", "save"} : Good([Blank(w, kind) EXCEPT !.ref = ref, !.next = next])
    <3> DEFINE b == Blank(w, kind)
    <3>1. Good(b) /\ b.answer = "none" /\ b.stage = "sent"
      BY BlankIsGood DEF Kinds, Changes
    <3> HIDE DEF b
    <3>2. /\ Good([b EXCEPT !.ref = ref])
          /\ \A next \in {"none", "save"} : Good([b EXCEPT !.ref = ref, !.next = next])
      BY <3>1 DEF Good, Request
    <3> QED
      BY <3>2 DEF b
  <2>2. \E r : Good(r) /\ SendFrom(requests, r)
    <3>1. CASE \E c \in {"remove", "move"}, f \in ToSet(form[w].fields) :
                 Send([Blank(w, c) EXCEPT !.ref = f.ref])
      <4>1. PICK c \in {"remove", "move"}, f \in ToSet(form[w].fields) :
              Send([Blank(w, c) EXCEPT !.ref = f.ref])
        BY <3>1
      <4>2. f.ref \in Nat
        BY <1>0, <2>a, FieldRefs
      <4> QED
        BY <2>1, <4>1, <4>2 DEF Send
    <3>2. CASE \E next \in {"none", "save"} :
                 Send([Blank(w, "add") EXCEPT
                   !.ref = IF form[w].fields = <<>> THEN 0 ELSE Last(form[w].fields).ref,
                   !.next = next])
      <4> DEFINE ref == IF form[w].fields = <<>> THEN 0 ELSE Last(form[w].fields).ref
      <4>1. ref \in Nat
        BY <1>0, <2>a, FieldRefs
      <4>2. PICK next \in {"none", "save"} : Send([Blank(w, "add") EXCEPT !.ref = ref, !.next = next])
        BY <3>2
      <4> HIDE DEF ref
      <4> QED
        BY <2>1, <4>1, <4>2 DEF Send
    <3> QED
      BY <1>4, <3>1, <3>2 DEF ClickElement
  <2>3. RequestOK' /\ orderly' \in [Sessions -> BOOLEAN]
    BY <1>0, <2>2, SendKeeps
  <2> QED
    BY <1>4, <2>3 DEF ClickElement, RefsInv, ServerOK, PageOK, HistoryOK
<1>5. CASE ClickCancel(w)
  <2>1. Good(Blank(w, "cancel"))
    BY BlankIsGood DEF Kinds
  <2>2. RequestOK' /\ orderly' \in [Sessions -> BOOLEAN]
    BY <1>0, <1>5, <2>1, SendKeeps DEF ClickCancel, Send
  <2> QED
    BY <1>5, <2>2 DEF ClickCancel, RefsInv, ServerOK, PageOK, HistoryOK
<1> QED
  BY <1>1, <1>2, <1>3, <1>4, <1>5

\* The working copy of one session changes.
LEMMA CopyKeeps ==
  ASSUME RefsInv, NEW s \in Sessions, NEW c, Copied(c), copy' = [copy EXCEPT ![s] = c]
  PROVE  /\ DOMAIN copy' = Sessions /\ copy' = [x \in Sessions |-> copy'[x]]
         /\ \A x \in Sessions : Copied(copy'[x])
<1>1. DOMAIN copy = Sessions /\ \A x \in Sessions : Copied(copy[x])
  BY DEF RefsInv, ServerOK
<1> QED
  BY <1>1

LEMMA ReadKeepsRefs ==
  ASSUME RefsInv, NEW r \in requests, Read(r)
  PROVE  RefsInv'
<1> DEFINE q == [r EXCEPT !.stage = "read", !.content = record, !.seen = saves,
                         !.crossed = FALSE]
           s == SessionOf[r.win]
<1>1. Good(r) /\ s \in Sessions
  BY GoodFields DEF RefsInv, RequestOK
<1>2. Good(q)
  BY <1>1 DEF Good, Request, Stages, RefsInv, ServerOK, HistoryOK
<1>3. Replace(r, q) /\ UNCHANGED ids
  BY DEF Read
<1> HIDE DEF q
<1>4. RequestOK'
  BY <1>2, <1>3, ReplaceKeeps
<1>5. before' \in [Sessions -> Seq(Element) \cup {None}]
  BY <1>1 DEF Read, RefsInv, ServerOK
<1> QED
  BY <1>4, <1>5 DEF Read, pageVars, historyVars, RefsInv, ServerOK, PageOK, HistoryOK

LEMMA LoadKeepsRefs ==
  ASSUME RefsInv, NEW r \in requests, Load(r)
  PROVE  RefsInv'
<1> DEFINE q == [r EXCEPT !.stage = "answered", !.answer = "form",
                          !.fields = Enumerate(r.content), !.version = NewVersion(r),
                          !.content = <<>>]
           s == SessionOf[r.win]
<1>1. Good(r) /\ s \in Sessions /\ r.content \in Seq(Element) /\ r.seen \in Nat
      /\ r.crossed \in BOOLEAN /\ r.win \in Windows
  BY GoodFields DEF RefsInv, RequestOK
<1>2. NewVersion(r) \in Nat
  BY DEF NewVersion, RefsInv, ServerOK
<1>3. Enumerate(r.content) \in Seq(Numbered) /\ Copied(Enumerate(r.content))
  BY <1>1, EnumerateUnique
<1>4. Good(q)
  <2>1. <<>> \in Seq(Element)
    OBVIOUS
  <2> QED
    BY <1>1, <1>2, <1>3, <2>1 DEF Good, Request, Stages, Answers
<1>5. Replace(r, q) /\ UNCHANGED ids
  BY DEF Load
<1> HIDE DEF q
<1>6. RequestOK'
  BY <1>4, <1>5, ReplaceKeeps
<1>7. Copied(IF expired[s] THEN None ELSE Enumerate(r.content))
  BY <1>3 DEF Copied
<1>8. /\ DOMAIN copy' = Sessions /\ copy' = [x \in Sessions |-> copy'[x]]
      /\ \A x \in Sessions : Copied(copy'[x])
  <2> DEFINE c == IF expired[s] THEN None ELSE Enumerate(r.content)
  <2>1. Copied(c)
    BY <1>7
  <2>2. copy' = [copy EXCEPT ![s] = c]
    BY DEF Load
  <2> HIDE DEF c
  <2> QED
    BY <1>1, <2>1, <2>2, CopyKeeps
<1>9. HistoryOK'
  BY <1>1 DEF Load, RefsInv, HistoryOK
<1>10. half' \in [Sessions -> Seq(Element)] /\ info' \in [Sessions -> BOOLEAN]
  <2>1. <<>> \in Seq(Element)
    OBVIOUS
  <2> QED
    BY <1>1, <2>1 DEF Load, RefsInv, ServerOK
<1> QED
  BY <1>2, <1>6, <1>8, <1>9, <1>10 DEF Load, pageVars, RefsInv, ServerOK, PageOK

LEMMA CheckKeepsRefs ==
  ASSUME RefsInv, NEW r \in requests, Check(r)
  PROVE  RefsInv'
<1> USE DEF pageVars, historyVars
<1> DEFINE s == SessionOf[r.win]
<1>0. Good(r) /\ s \in Sessions /\ r.kind = "save" /\ r.fields \in Seq(Numbered)
  BY GoodFields DEF RefsInv, RequestOK, Check, Reaches
<1>1. CASE Answer(r, "error") /\ UNCHANGED copy
  <2>1. RequestOK'
    BY <1>1, AnswerKeeps DEF Check, Answers
  <2> QED
    BY <1>1, <2>1 DEF Check, RefsInv, ServerOK, PageOK, HistoryOK
<1>3. CASE ~Refuses(r) /\ Fail(r)
  <2> DEFINE changed == ApplyChanges(copy[s], r.fields)
  <2>1. copy[s] \in Seq(Numbered) /\ Unique(copy[s])
    BY <1>0, <1>3 DEF Refuses, RefsInv, ServerOK, Copied
  <2>2. changed \in Seq(Numbered) /\ DOMAIN changed = DOMAIN copy[s]
    BY <1>0, <2>1, ApplyIs
  <2>3. PICK texted, translated :
          copy' = [copy EXCEPT ![s] = PartlyChanged(copy[s], changed, texted, translated)]
    BY <1>3 DEF Fail
  <2> HIDE DEF changed
  <2> DEFINE partly == PartlyChanged(copy[s], changed, texted, translated)
  <2>4. Copied(partly)
    BY <2>1, <2>2, PartlyIs DEF Copied, Unique
  <2> HIDE DEF partly
  <2>5. /\ DOMAIN copy' = Sessions /\ copy' = [x \in Sessions |-> copy'[x]]
        /\ \A x \in Sessions : Copied(copy'[x])
    BY <1>0, <2>3, <2>4, CopyKeeps DEF partly
  <2>6. RequestOK'
    BY <1>0, <1>3, AnswerKeeps DEF Check, Fail, Answers
  <2> QED
    BY <2>5, <2>6 DEF Check, RefsInv, ServerOK, PageOK, HistoryOK
<1>2. CASE ~Refuses(r) /\ Accept(r)
  <2> DEFINE changed == ApplyChanges(copy[s], r.fields)
  <2> DEFINE q == [r EXCEPT !.stage = "checked", !.crossed = FALSE,
                            !.content = Contents(changed) \o half[s]]
  <2>1. copy[s] \in Seq(Numbered) /\ Unique(copy[s])
    BY <1>0, <1>2 DEF Refuses, RefsInv, ServerOK, Copied
  <2>2. changed \in Seq(Numbered) /\ Copied(changed)
    BY <1>0, <2>1, ApplyUnique
  <2>3. Replace(r, q) /\ copy' = [copy EXCEPT ![s] = changed] /\ UNCHANGED ids
    BY <1>2 DEF Accept, Accepted, Check
  <2> HIDE DEF changed
  <2>4. Contents(changed) \o half[s] \in Seq(Element)
    <3>1. Contents(changed) \in Seq(Element) /\ half[s] \in Seq(Element)
      BY <1>0, <2>2, ContentsIs DEF RefsInv, ServerOK
    <3> QED
      BY <3>1, ConcatProperties
  <2>5. Good(q)
    BY <1>0, <2>4 DEF Good, Request, Stages, Check, Reaches
  <2> HIDE DEF q
  <2>6. RequestOK'
    BY <2>3, <2>5, ReplaceKeeps
  <2>7. /\ DOMAIN copy' = Sessions /\ copy' = [x \in Sessions |-> copy'[x]]
        /\ \A x \in Sessions : Copied(copy'[x])
    BY <1>0, <2>2, <2>3, CopyKeeps
  <2> QED
    BY <2>6, <2>7 DEF Check, RefsInv, ServerOK, PageOK, HistoryOK
<1> QED
  BY <1>1, <1>2, <1>3 DEF Check

LEMMA WriteKeepsRefs ==
  ASSUME RefsInv, NEW r \in requests, Write(r)
  PROVE  RefsInv'
<1> DEFINE Crossed(q) == IF q.stage \in {"read", "checked"} THEN [q EXCEPT !.crossed = TRUE] ELSE q
           p == IF r.refresh THEN [r EXCEPT !.stage = "written"]
                ELSE [r EXCEPT !.stage = "answered", !.answer = "done", !.content = <<>>]
           s == SessionOf[r.win]
<1>1. Good(r) /\ s \in Sessions /\ r.content \in Seq(Element) /\ r.stage = "checked"
      /\ r.kind = "save"
  BY GoodFields DEF RefsInv, RequestOK, Write, Good
<1>2. Good(p)
  <2>1. <<>> \in Seq(Element)
    OBVIOUS
  <2>2. Good([r EXCEPT !.stage = "written"])
    BY <1>1 DEF Good, Request, Stages
  <2>3. Good([r EXCEPT !.stage = "answered", !.answer = "done", !.content = <<>>])
    BY <1>1, <2>1 DEF Good, Request, Stages, Answers
  <2> QED
    BY <2>2, <2>3
<1>3. \A q \in requests : Good(Crossed(q))
  <2> TAKE q \in requests
  <2>1. Good(q)
    BY DEF RefsInv, RequestOK
  <2>2. Good([q EXCEPT !.crossed = TRUE])
    BY <2>1 DEF Good, Request
  <2> QED
    BY <2>1, <2>2
<1>4. requests' = {Crossed(q) : q \in requests \ {r}} \cup {p} /\ ids' = ids
  BY DEF Write
<1> HIDE DEF Crossed, p
<1>5. RequestOK'
  BY <1>2, <1>3, <1>4 DEF RefsInv, RequestOK
<1>6. HistoryOK'
  BY <1>1 DEF Write, RefsInv, HistoryOK
<1> QED
  BY <1>1, <1>5, <1>6 DEF Write, pageVars, RefsInv, ServerOK, PageOK

LEMMA ChangeKeepsRefs ==
  ASSUME RefsInv, NEW r \in requests, Change(r)
  PROVE  RefsInv'
<1> USE DEF pageVars, historyVars
<1> DEFINE s    == SessionOf[r.win]
           c    == copy[s]
           here == c # None
           at   == IF here THEN Find(c, r.ref) ELSE 0
           new  == [Enumerate(<<NewElement(texts + 1)>>)[1] EXCEPT !.ref = MaximumRef(c) + 1]
           Returned(x) == [r EXCEPT !.stage = "answered", !.answer = "done", !.fields = <<x>>]
<1>1. Good(r) /\ s \in Sessions /\ Copied(c) /\ texts \in Nat /\ UNCHANGED ids
  BY GoodFields DEF RefsInv, RequestOK, ServerOK, Change
<1>2. here => c \in Seq(Numbered) /\ Unique(c)
  BY <1>1 DEF Copied
<1>3. at # 0 => here /\ at \in 1..Len(c)
  BY <1>2, FindIs
<1>4. ASSUME NEW x \in Numbered, Replace(r, Returned(x)) PROVE RequestOK'
  <2>1. <<x>> \in Seq(Numbered) /\ Len(<<x>>) = 1
    OBVIOUS
  <2>2. Good(Returned(x))
    BY <1>1, <2>1 DEF Good, Request, Stages, Answers
  <2> QED
    BY <1>1, <1>4, <2>2, ReplaceKeeps
<1>5. ASSUME RequestOK', NEW d, Copied(d), copy' = [copy EXCEPT ![s] = d] \/ UNCHANGED copy,
             texts' \in Nat, half' = half
                \/ half' = [half EXCEPT ![s] = Append(half[s], NewElement(texts + 1))]
      PROVE  RefsInv'
  <2>1. /\ DOMAIN copy' = Sessions /\ copy' = [x \in Sessions |-> copy'[x]]
        /\ \A x \in Sessions : Copied(copy'[x])
    BY <1>1, <1>5, CopyKeeps DEF RefsInv, ServerOK
  <2>2. half' \in [Sessions -> Seq(Element)]
    <3> DEFINE x == NewElement(texts + 1)
    <3>0. texts + 1 \in Nat
      BY <1>1
    <3>1. half[s] \in Seq(Element) /\ x \in Element
      BY <1>1, <3>0, NewIsElement DEF RefsInv, ServerOK
    <3> HIDE DEF x
    <3>2. Append(half[s], x) \in Seq(Element)
      BY <3>1
    <3> USE DEF x
    <3> QED
      BY <1>5, <3>2 DEF RefsInv, ServerOK
  <2>3. info' \in [Sessions -> BOOLEAN]
    BY DEF Change, Reattached, RefsInv, ServerOK
  <2> QED
    BY <1>5, <2>1, <2>2, <2>3 DEF Change, RefsInv, ServerOK, PageOK, HistoryOK
<1>6. CASE /\ r.kind = "add" /\ here
           /\ copy' = [copy EXCEPT ![s] = Append(c, new)]
           /\ texts' = texts + 1 /\ Replace(r, Returned(new)) /\ UNCHANGED half
  <2>1. new \in Numbered /\ Copied(Append(c, new))
    BY <1>1, <1>2, <1>6, AppendUnique
  <2> HIDE DEF new
  <2>2. texts' \in Nat
    BY <1>1, <1>6
  <2>3. RequestOK'
    BY <1>4, <1>6, <2>1
  <2> QED
    BY <1>5, <1>6, <2>1, <2>2, <2>3
<1>7. CASE /\ r.kind = "attribute" /\ at # 0
           /\ Replace(r, Returned(c[at])) /\ UNCHANGED <<copy, half, texts>>
  <2>1. c[at] \in Numbered
    BY <1>2, <1>3, <1>7, NumberedSeq
  <2>2. RequestOK'
    BY <1>4, <1>7, <2>1
  <2> QED
    BY <1>1, <1>5, <1>7, <2>2
<1>8. CASE /\ r.kind = "remove" /\ at # 0
           /\ copy' = [copy EXCEPT ![s] = RemoveAt(c, at)]
           /\ Answer(r, "done") /\ UNCHANGED <<half, texts>>
  <2>1. Copied(RemoveAt(c, at))
    BY <1>2, <1>3, <1>8, RemoveUnique
  <2>2. RequestOK'
    BY <1>1, <1>8, AnswerKeeps DEF Answers
  <2> HIDE DEF at
  <2> QED
    BY <1>1, <1>5, <1>8, <2>1, <2>2
<1>9. CASE /\ r.kind = "move" /\ at # 0
           /\ copy' = [copy EXCEPT ![s] = IF at < Len(c) THEN SwapWithNext(c, at) ELSE c]
           /\ Answer(r, "done") /\ UNCHANGED <<half, texts>>
  <2> DEFINE d == IF at < Len(c) THEN SwapWithNext(c, at) ELSE c
  <2>1. Copied(d)
    BY <1>1, <1>2, <1>3, <1>9, SwapUnique
  <2>2. RequestOK'
    BY <1>1, <1>9, AnswerKeeps DEF Answers
  <2>3. copy' = [copy EXCEPT ![s] = d]
    BY <1>9
  <2> HIDE DEF d
  <2> QED
    BY <1>1, <1>5, <1>9, <2>1, <2>2, <2>3
<1>10. CASE /\ Answer(r, "error") /\ UNCHANGED copy
            /\ \/ UNCHANGED <<half, texts>>
               \/ /\ half' = [half EXCEPT ![s] = Append(half[s], NewElement(texts + 1))]
                  /\ texts' = texts + 1
  <2>1. RequestOK'
    BY <1>1, <1>10, AnswerKeeps DEF Answers
  <2>2. texts' \in Nat
    BY <1>1, <1>10
  <2> QED
    BY <1>1, <1>5, <1>10, <2>1, <2>2
<1>11. DOMAIN copy = Sessions
  BY DEF RefsInv, ServerOK
<1> QED
  BY <1>1, <1>6, <1>7, <1>8, <1>9, <1>10, <1>11 DEF Change

LEMMA ServiceKeepsRefs ==
  ASSUME RefsInv, NEW r \in requests, LoginPage(r) \/ CancelSession(r) \/ Process(r)
  PROVE  RefsInv'
<1> USE DEF serverVars, pageVars, historyVars
<1> DEFINE s == SessionOf[r.win]
<1>0. Good(r) /\ s \in Sessions
  BY GoodFields DEF RefsInv, RequestOK
<1>1. CASE LoginPage(r)
  <2>1. RequestOK'
    BY <1>1, AnswerKeeps DEF LoginPage, Answers
  <2> QED
    BY <1>1, <2>1 DEF LoginPage, RefsInv, ServerOK, PageOK, HistoryOK
<1>2. CASE CancelSession(r)
  <2>1. RequestOK'
    BY <1>2, AnswerKeeps DEF CancelSession, Reaches, Answers
  <2>2. /\ DOMAIN copy' = Sessions /\ copy' = [x \in Sessions |-> copy'[x]]
        /\ \A x \in Sessions : Copied(copy'[x])
    BY <1>0, <1>2, CopyKeeps DEF CancelSession, Copied
  <2>3. /\ record' \in Seq(Element)
        /\ before' \in [Sessions -> Seq(Element) \cup {None}]
    BY <1>0, <1>2 DEF CancelSession, RefsInv, ServerOK
  <2> QED
    BY <1>2, <2>1, <2>2, <2>3 DEF CancelSession, RefsInv, ServerOK, PageOK, HistoryOK
<1>3. CASE Process(r)
  <2>1. RequestOK'
    BY <1>3, AnswerKeeps DEF Process, Reaches, Answers
  <2>2. record' \in Seq(Element) /\ texts' \in Nat
    <3> DEFINE x == NewElement(texts + 1)
    <3>0. texts \in Nat /\ texts + 1 \in Nat
      BY DEF RefsInv
    <3>1. x \in Element /\ record' = Append(record, x) /\ record \in Seq(Element)
          /\ texts' = texts + 1
      BY <1>3, <3>0, NewIsElement DEF Process, RefsInv, ServerOK
    <3> HIDE DEF x
    <3> QED
      BY <3>0, <3>1
  <2> QED
    BY <1>3, <2>1, <2>2 DEF Process, RefsInv, ServerOK, PageOK, HistoryOK
<1> QED
  BY <1>1, <1>2, <1>3

LEMMA ChangedIs ==
  ASSUME NEW r, Good(r), NEW f \in Seq(Numbered)
  PROVE  ChangedFields(f, r) \in Seq(Numbered)
<1> DEFINE at == Find(f, r.ref)
<1>1. at \in 0..Len(f) /\ Len(f) \in Nat
  BY FindIs
<1>2. r.kind \in {"add", "attribute"} /\ r.answer = "done" => r.fields[1] \in Numbered
  <2>1. r.fields \in Seq(Numbered)
    BY GoodFields
  <2> QED
    BY <2>1 DEF Good
<1> HIDE DEF at
<1>3. r.kind = "add" /\ r.answer = "done" => InsertAt(f, at + 1, r.fields[1]) \in Seq(Numbered)
  <2>1. at + 1 \in 1..(Len(f) + 1)
    BY <1>1
  <2> QED
    BY <1>2, <2>1, InsertIs
<1>4. r.kind = "attribute" /\ r.answer = "done" /\ at # 0
        => ReplaceAt(f, at, r.fields[1]) \in Seq(Numbered)
  <2> SUFFICES ASSUME r.kind = "attribute", r.answer = "done", at # 0
               PROVE  ReplaceAt(f, at, r.fields[1]) \in Seq(Numbered)
    OBVIOUS
  <2> DEFINE x == r.fields[1]
  <2>1. x \in Numbered /\ at \in 1..Len(f)
    BY <1>1, <1>2
  <2> HIDE DEF x
  <2>2. [f EXCEPT ![at] = x] \in Seq(Numbered)
    BY <2>1
  <2> QED
    BY <2>2 DEF ReplaceAt, x
<1>5. at # 0 => RemoveAt(f, at) \in Seq(Numbered)
  BY <1>1, RemoveIs
<1>6. at \in 1 .. Len(f) - 1 => SwapWithNext(f, at) \in Seq(Numbered)
  BY <1>1, SwapIs
<1> QED
  BY <1>3, <1>4, <1>5, <1>6 DEF ChangedFields, at

LEMMA FormKeeps ==
  ASSUME RefsInv, NEW w \in Windows, NEW f \in Form \cup {None}, form' = [form EXCEPT ![w] = f]
  PROVE  form' \in [Windows -> Form \cup {None}]
  BY DEF RefsInv, PageOK

LEMMA HearKeepsRefs ==
  ASSUME RefsInv, NEW r \in requests, Hear(r)
  PROVE  RefsInv'
<1> USE DEF serverVars, pageVars, historyVars, Done
<1> DEFINE w == r.win
<1>0. /\ Good(r) /\ w \in Windows /\ r.fields \in Seq(Numbered) /\ r.version \in Nat
      /\ r.silent \in BOOLEAN /\ r.ref \in Nat
      /\ \A q \in requests : Good(q)
      /\ \A q \in Done(r) : Good(q)
  BY GoodFields DEF RefsInv, RequestOK
<1>1. CASE Forget(r)
  BY <1>1 DEF Forget, RefsInv, ServerOK, PageOK, RequestOK, HistoryOK
<1>2. CASE HearForm(r)
  <2>1. [version |-> r.version, fields |-> r.fields] \in Form
    BY <1>0 DEF Form
  <2>2. form' \in [Windows -> Form \cup {None}]
    BY <1>0, <1>2, <2>1, FormKeeps DEF HearForm, NewForm
  <2>3. saving' \in [Windows -> BOOLEAN] /\ working' \in [Windows -> BOOLEAN]
    BY <1>0, <1>2 DEF HearForm, RefsInv, PageOK
  <2> QED
    BY <1>2, <2>2, <2>3 DEF HearForm, RefsInv, ServerOK, PageOK, RequestOK, HistoryOK
<1>3. CASE HearNoForm(r)
  <2>1. form' \in [Windows -> Form \cup {None}]
    BY <1>0, <1>3, FormKeeps DEF HearNoForm
  <2>2. saving' \in [Windows -> BOOLEAN]
    BY <1>0, <1>3 DEF HearNoForm, RefsInv, PageOK
  <2> QED
    BY <1>3, <2>1, <2>2 DEF HearNoForm, RefsInv, ServerOK, PageOK, RequestOK, HistoryOK
<1>4. CASE HearSaved(r)
  <2>1. saving' \in [Windows -> BOOLEAN] /\ working' \in [Windows -> BOOLEAN]
    BY <1>0, <1>4 DEF HearSaved, RefsInv, PageOK
  <2>2. RequestOK' /\ orderly' \in [Sessions -> BOOLEAN]
    <3>1. CASE r.next = "none" /\ requests' = Done(r) /\ UNCHANGED <<ids, orderly>>
      BY <3>1 DEF RefsInv, RequestOK, HistoryOK
    <3>2. CASE /\ r.next \in {"attribute", "process"}
               /\ SendFrom(Done(r), [Blank(w, r.next) EXCEPT !.ref = r.ref])
      <4> DEFINE b == Blank(w, r.next)
                 q == [b EXCEPT !.ref = r.ref]
      <4>1. Good(b) /\ b.stage = "sent" /\ b.answer = "none"
        BY <1>0, <3>2, BlankIsGood DEF Kinds, Changes
      <4> HIDE DEF b
      <4>2. Good(q)
        BY <1>0, <4>1 DEF Good, Request
      <4> HIDE DEF q
      <4>3. SendFrom(Done(r), q)
        BY <3>2 DEF q, b
      <4> QED
        BY <1>0, <4>2, <4>3, SendKeeps
    <3> QED
      BY <1>4, <3>1, <3>2 DEF HearSaved
  <2> QED
    BY <1>4, <2>1, <2>2 DEF HearSaved, RefsInv, ServerOK, PageOK, HistoryOK
<1>5. CASE HearAndClose(r)
  <2>1. Good([r EXCEPT !.heard = FALSE])
    BY <1>0 DEF Good, Request
  <2>2. RequestOK'
    BY <1>5, UnheardIsGood DEF HearAndClose, RefsInv, RequestOK
  <2>3. PageOK'
    BY <1>0, <1>5, BlurKeeps DEF HearAndClose
  <2> QED
    BY <1>5, <2>2, <2>3 DEF HearAndClose, RefsInv, ServerOK, HistoryOK
<1>6. CASE HearNotSaved(r)
  <2>1. /\ saving' \in [Windows -> BOOLEAN] /\ working' \in [Windows -> BOOLEAN]
        /\ loggedOut' \in [Windows -> BOOLEAN]
    BY <1>0, <1>6 DEF HearNotSaved, StaysSaving, RefsInv, PageOK
  <2> QED
    BY <1>6, <2>1 DEF HearNotSaved, RefsInv, ServerOK, PageOK, RequestOK, HistoryOK
<1>7. CASE HearChanged(r)
  <2>1. /\ form' \in [Windows -> Form \cup {None}]
        /\ form[w] # None => form'[w].fields \in Seq(Numbered)
    <3>1. CASE form[w] = None
      BY <1>7, <3>1 DEF HearChanged, RefsInv, PageOK
    <3>2. CASE form[w] # None
      <4> DEFINE fields == ChangedFields(form[w].fields, r)
                 new == [form[w] EXCEPT !.fields = fields]
      <4>1. form[w] \in Form /\ form[w].fields \in Seq(Numbered) /\ w \in DOMAIN form
        BY <1>0, <3>2 DEF RefsInv, PageOK, Form
      <4>2. fields \in Seq(Numbered)
        BY <1>0, <4>1, ChangedIs
      <4>3. form' = [form EXCEPT ![w] = new]
        BY <1>7, <3>2 DEF HearChanged
      <4> HIDE DEF fields
      <4>4. new \in Form /\ new.fields = fields
        <5> DEFINE old == form[w]
        <5>1. old \in Form
          BY <4>1
        <5> HIDE DEF old
        <5>2. [old EXCEPT !.fields = fields] \in Form /\ [old EXCEPT !.fields = fields].fields = fields
          BY <4>2, <5>1 DEF Form
        <5> QED
          BY <5>2 DEF old
      <4> HIDE DEF new
      <4>5. form' \in [Windows -> Form \cup {None}]
        BY <1>0, <4>3, <4>4, FormKeeps
      <4>6. form'[w] = new
        BY <4>1, <4>3
      <4> QED
        BY <4>2, <4>4, <4>5, <4>6
    <3> QED
      BY <3>1, <3>2
  <2>2. CASE requests' = Done(r) /\ UNCHANGED <<saving, working, ids, orderly>>
    BY <1>7, <2>1, <2>2 DEF HearChanged, RefsInv, ServerOK, PageOK, RequestOK, HistoryOK
  <2>3. CASE /\ form[w] # None
             /\ StartSaving(Done(r), w, [fields |-> form'[w].fields,
                            refresh |-> TRUE, silent |-> TRUE, next |-> "none", ref |-> 0])
    <3> DEFINE how == [fields |-> form'[w].fields,
                       refresh |-> TRUE, silent |-> TRUE, next |-> "none", ref |-> 0]
    <3>1. /\ how.fields \in Seq(Numbered) /\ how.refresh \in BOOLEAN /\ how.silent \in BOOLEAN
          /\ how.next \in {"none", "close", "attribute", "process"} /\ how.ref \in Nat
      BY <2>1, <2>3
    <3>2. StartSaving(Done(r), w, how) /\ Done(r) \in SUBSET requests
      BY <2>3
    <3> HIDE DEF how
    <3>3. /\ RequestOK' /\ orderly' \in [Sessions -> BOOLEAN]
          /\ saving' \in [Windows -> BOOLEAN] /\ working' \in [Windows -> BOOLEAN]
      BY <1>0, <2>3, <3>1, <3>2, StartSavingKeeps
    <3> QED
      BY <1>7, <2>1, <3>3 DEF HearChanged, RefsInv, ServerOK, PageOK, HistoryOK
  <2> QED
    BY <1>7, <2>2, <2>3 DEF HearChanged
<1>8. CASE HearNotChanged(r)
  BY <1>8 DEF HearNotChanged, RefsInv, ServerOK, PageOK, RequestOK, HistoryOK
<1>9. CASE HearProcessed(r)
  <2>1. Good(Blank(w, "edit"))
    BY <1>0, BlankIsGood DEF Kinds, Loads
  <2>2. RequestOK' /\ orderly' \in [Sessions -> BOOLEAN]
    BY <1>0, <1>9, <2>1, SendKeeps DEF HearProcessed
  <2> QED
    BY <1>9, <2>2 DEF HearProcessed, RefsInv, ServerOK, PageOK, HistoryOK
<1> QED
  BY <1>1, <1>2, <1>3, <1>4, <1>5, <1>6, <1>7, <1>8, <1>9 DEF Hear

LEMMA RefsNext == RefsInv /\ [Next]_vars => RefsInv'
<1> SUFFICES ASSUME RefsInv, [Next]_vars PROVE RefsInv'
  OBVIOUS
<1>1. CASE \E w \in Windows : \/ Open(w) \/ Type(w) \/ ClickSave(w)
                               \/ ClickElement(w) \/ ClickCancel(w)
  BY <1>1, UserKeepsRefs
<1>2. CASE \E s \in Sessions : Expire(s)
  <2>1. PICK s \in Sessions : Expire(s)
    BY <1>2
  <2>2. /\ DOMAIN copy' = Sessions /\ copy' = [x \in Sessions |-> copy'[x]]
        /\ \A x \in Sessions : Copied(copy'[x])
    BY <2>1, CopyKeeps DEF Expire, Copied
  <2>3. /\ before' \in [Sessions -> Seq(Element) \cup {None}]
        /\ expired' \in [Sessions -> BOOLEAN]
    BY <2>1 DEF Expire, RefsInv, ServerOK
  <2> QED
    BY <2>1, <2>2, <2>3
    DEF Expire, pageVars, historyVars, RefsInv, ServerOK, PageOK, RequestOK, HistoryOK
<1>3. ASSUME NEW r \in requests, Serve(r) PROVE RefsInv'
  BY <1>3, ServiceKeepsRefs, ReadKeepsRefs, LoadKeepsRefs, CheckKeepsRefs, WriteKeepsRefs,
     ChangeKeepsRefs DEF Serve
<1>4. ASSUME NEW r \in requests, Hear(r) PROVE RefsInv'
  BY <1>4, HearKeepsRefs
<1>5. CASE UNCHANGED vars
  BY <1>5 DEF vars, serverVars, pageVars, historyVars,
              RefsInv, ServerOK, PageOK, RequestOK, HistoryOK
<1> QED
  BY <1>1, <1>2, <1>3, <1>4, <1>5 DEF Next, Serve, Hear

\* The types of the editor's variables: the stored record, the working copies,
\* the forms and the requests, the elements of each with their refs.
THEOREM EditorTypeCorrect == EditorSpec => []EditorTypeOK
<1> QED
  BY RefsInit, RefsNext, RefsImplies, PTL DEF EditorSpec

\* No two elements of a working copy ever have the same ref, for any sequence
\* of additions, removals, moves, saves and loads: a ref names one element, to
\* the form as to the services (EditLib.findMaximumRef, enumerateTree).
THEOREM RefsStayUnique == EditorSpec => []RefsAreUnique
<1> QED
  BY RefsInit, RefsNext, RefsImplies, PTL DEF EditorSpec

-----------------------------------------------------------------------------
(* Two sequences that show the same elements under the same refs, whatever  *)
(* their texts.                                                             *)

Same(e, f) ==
  DOMAIN e = DOMAIN f /\ \A i \in DOMAIN e : e[i].ref = f[i].ref /\ e[i].el = f[i].el

\* Every text of a form is in the element that it was shown for.
Holds(fields, content) ==
  \A f \in ToSet(fields) : \E e \in ToSet(content) :
    e.el = f.el /\ e.text = f.text /\ (f.lang # 0 => f.lang \in e.trans)

\* ref is that of the last element, which a new one is put after.
AtEnd(ref, e) == IF e = <<>> THEN ref = 0 ELSE ref = Last(e).ref

LEMMA SameTransitive ==
  ASSUME NEW e, NEW f, NEW g, Same(e, f), Same(f, g)
  PROVE  Same(e, g)
  BY DEF Same

LEMMA SameLength ==
  ASSUME NEW e \in Seq(Numbered), NEW f \in Seq(Numbered), Same(e, f)
  PROVE  Len(e) = Len(f)
  BY DEF Same

LEMMA FirstIs ==
  ASSUME NEW e \in Seq(Numbered), NEW ref
  PROVE  /\ Find(e, ref) = 0 => \A i \in 1..Len(e) : e[i].ref # ref
         /\ Find(e, ref) # 0 =>
              /\ Find(e, ref) \in 1..Len(e) /\ e[Find(e, ref)].ref = ref
<1> DEFINE I == {i \in 1..Len(e) : e[i].ref = ref}
<1>1. Find(e, ref) = IF I # {} THEN Min(I) ELSE 0
  BY DEF Find, SelectInSeq
<1>2. CASE I # {}
  <2>1. I \in SUBSET Nat
    OBVIOUS
  <2>2. \E m \in I : \A k \in I : m <= k
    BY <1>2, <2>1, NatMin
  <2> HIDE DEF I
  <2>3. Min(I) \in I
    BY <2>2 DEF Min
  <2> USE DEF I
  <2> QED
    BY <1>1, <1>2, <2>3
<1> QED
  BY <1>1, <1>2

LEMMA SameFind ==
  ASSUME NEW e \in Seq(Numbered), NEW f \in Seq(Numbered), Same(e, f), NEW ref
  PROVE  Find(e, ref) = Find(f, ref)
<1> DEFINE I(s) == {i \in 1..Len(s) : s[i].ref = ref}
<1>1. I(e) = I(f)
  BY SameLength DEF Same
<1>2. /\ Find(e, ref) = IF I(e) # {} THEN Min(I(e)) ELSE 0
      /\ Find(f, ref) = IF I(f) # {} THEN Min(I(f)) ELSE 0
  BY DEF Find, SelectInSeq
<1> HIDE DEF I
<1> QED
  BY <1>1, <1>2

LEMMA SameAtEnd ==
  ASSUME NEW e \in Seq(Numbered), NEW f \in Seq(Numbered), Same(e, f), NEW ref, AtEnd(ref, e)
  PROVE  AtEnd(ref, f)
<1>1. Len(e) = Len(f) /\ (e = <<>> <=> Len(e) = 0) /\ (f = <<>> <=> Len(f) = 0)
  BY SameLength
<1>2. e # <<>> => e[Len(e)].ref = f[Len(f)].ref
  <2>1. e # <<>> => Len(e) \in DOMAIN e
    OBVIOUS
  <2> QED
    BY <1>1, <2>1 DEF Same
<1> QED
  BY <1>1, <1>2 DEF AtEnd, Last

\* The elements of a sequence after an insertion.
LEMMA InsertElements ==
  ASSUME NEW S, NEW s \in Seq(S), NEW i \in 1..(Len(s) + 1), NEW x \in S
  PROVE  /\ Len(InsertAt(s, i, x)) = Len(s) + 1
         /\ \A k \in 1..(Len(s) + 1) : InsertAt(s, i, x)[k] =
               IF k < i THEN s[k] ELSE IF k = i THEN x ELSE s[k - 1]
<1> DEFINE a == SubSeq(s, 1, i - 1)  z == SubSeq(s, i, Len(s))  b == a \o <<x>>
<1>1. a \in Seq(S) /\ Len(a) = i - 1 /\ \A k \in 1..(i - 1) : a[k] = s[k]
  OBVIOUS
<1>2. z \in Seq(S) /\ Len(z) = Len(s) - i + 1
      /\ \A k \in 1..(Len(s) - i + 1) : z[k] = s[k + i - 1]
  OBVIOUS
<1> HIDE DEF a, z
<1>3. b \in Seq(S) /\ Len(b) = i /\ b[i] = x /\ \A k \in 1..(i - 1) : b[k] = a[k]
  <2>1. <<x>> \in Seq(S) /\ Len(<<x>>) = 1 /\ <<x>>[1] = x
    OBVIOUS
  <2>2. /\ b \in Seq(S) /\ Len(b) = Len(a) + 1
        /\ \A k \in 1 .. Len(a) + 1 : b[k] = IF k <= Len(a) THEN a[k] ELSE <<x>>[k - Len(a)]
    BY <1>1, <2>1, ConcatProperties
  <2> HIDE DEF b
  <2>3. b[i] = <<x>>[1]
    BY <1>1, <2>2
  <2> QED
    BY <1>1, <2>1, <2>2, <2>3
<1> HIDE DEF b
<1>4. /\ Len(b \o z) = Len(b) + Len(z)
      /\ \A k \in 1 .. Len(b) + Len(z) : (b \o z)[k] = IF k <= Len(b) THEN b[k] ELSE z[k - Len(b)]
  BY <1>2, <1>3, ConcatProperties
<1>5. Len(b) + Len(z) = Len(s) + 1
  BY <1>2, <1>3
<1>6. \A k \in 1..(Len(s) + 1) : (b \o z)[k] =
         IF k < i THEN s[k] ELSE IF k = i THEN x ELSE s[k - 1]
  <2> TAKE k \in 1..(Len(s) + 1)
  <2>1. CASE k <= i
    BY <1>1, <1>3, <1>4, <1>5, <2>1
  <2>2. CASE k > i
    <3>1. k - i \in 1..(Len(s) - i + 1) /\ (k - i) + i - 1 = k - 1
      BY <2>2
    <3>2. (b \o z)[k] = z[k - i]
      BY <1>3, <1>4, <1>5, <2>2
    <3> QED
      BY <1>2, <2>2, <3>1, <3>2
  <2>3. k <= i \/ k > i
    OBVIOUS
  <2> QED
    BY <2>1, <2>2, <2>3, Zenon
<1>7. InsertAt(s, i, x) = b \o z
  BY DEF InsertAt, a, b, z
<1> QED
  BY <1>4, <1>5, <1>6, <1>7

LEMMA SameInsert ==
  ASSUME NEW e \in Seq(Numbered), NEW f \in Seq(Numbered), Same(e, f),
         NEW i \in 1..(Len(e) + 1), NEW x \in Numbered
  PROVE  Same(InsertAt(e, i, x), InsertAt(f, i, x))
<1> DEFINE a == InsertAt(e, i, x)  b == InsertAt(f, i, x)
<1>1. Len(e) = Len(f) /\ Len(e) \in Nat /\ i \in Nat
  BY SameLength
<1>2. a \in Seq(Numbered) /\ b \in Seq(Numbered)
  BY <1>1, InsertIs
<1>3. /\ Len(a) = Len(e) + 1 /\ Len(b) = Len(e) + 1
      /\ \A k \in 1..(Len(e) + 1) :
           /\ a[k] = IF k < i THEN e[k] ELSE IF k = i THEN x ELSE e[k - 1]
           /\ b[k] = IF k < i THEN f[k] ELSE IF k = i THEN x ELSE f[k - 1]
  BY <1>1, InsertElements
<1> HIDE DEF a, b
<1>4. \A k \in 1..Len(e) : e[k].ref = f[k].ref /\ e[k].el = f[k].el
  BY DEF Same
<1>5. ASSUME NEW k \in 1..(Len(e) + 1) PROVE a[k].ref = b[k].ref /\ a[k].el = b[k].el
  <2>1. CASE k < i
    BY <1>1, <1>3, <1>4, <2>1
  <2>2. CASE k = i
    BY <1>1, <1>3, <2>2
  <2>3. CASE k > i
    <3>1. k - 1 \in 1..Len(e)
      BY <1>1, <2>3
    <3> QED
      BY <1>1, <1>3, <1>4, <2>3, <3>1
  <2> QED
    BY <1>1, <2>1, <2>2, <2>3
<1>6. DOMAIN a = 1..(Len(e) + 1) /\ DOMAIN b = 1..(Len(e) + 1)
  BY <1>2, <1>3
<1> QED
  BY <1>5, <1>6 DEF Same, a, b

LEMMA SameRemove ==
  ASSUME NEW e \in Seq(Numbered), NEW f \in Seq(Numbered), Same(e, f), NEW i \in 1..Len(e)
  PROVE  Same(RemoveAt(e, i), RemoveAt(f, i))
<1> DEFINE a == RemoveAt(e, i)  b == RemoveAt(f, i)
<1>1. Len(e) = Len(f) /\ Len(e) \in Nat /\ i \in Nat
  BY SameLength
<1>2. /\ a \in Seq(Numbered) /\ b \in Seq(Numbered)
      /\ Len(a) = Len(e) - 1 /\ Len(b) = Len(e) - 1
      /\ \A k \in 1..(Len(e) - 1) : /\ a[k] = e[IF k < i THEN k ELSE k + 1]
                                    /\ b[k] = f[IF k < i THEN k ELSE k + 1]
  BY <1>1, RemoveIs
<1> HIDE DEF a, b
<1>3. \A k \in 1..Len(e) : e[k].ref = f[k].ref /\ e[k].el = f[k].el
  BY DEF Same
<1>4. \A k \in 1..(Len(e) - 1) : (IF k < i THEN k ELSE k + 1) \in 1..Len(e)
  BY <1>1
<1>5. DOMAIN a = 1..(Len(e) - 1) /\ DOMAIN b = 1..(Len(e) - 1)
  BY <1>2
<1> QED
  BY <1>2, <1>3, <1>4, <1>5 DEF Same, a, b

LEMMA SameSwap ==
  ASSUME NEW e \in Seq(Numbered), NEW f \in Seq(Numbered), Same(e, f),
         NEW i \in 1..Len(e), i < Len(e)
  PROVE  Same(SwapWithNext(e, i), SwapWithNext(f, i))
<1> DEFINE a == SwapWithNext(e, i)  b == SwapWithNext(f, i)
           From(k) == IF k = i THEN i + 1 ELSE IF k = i + 1 THEN i ELSE k
<1>1. Len(e) = Len(f) /\ Len(e) \in Nat /\ i \in Nat
  BY SameLength
<1>2. /\ a \in Seq(Numbered) /\ b \in Seq(Numbered)
      /\ Len(a) = Len(e) /\ Len(b) = Len(e)
      /\ \A k \in 1..Len(e) : a[k] = e[From(k)] /\ b[k] = f[From(k)]
  BY <1>1, SwapIs
<1> HIDE DEF a, b
<1>3. \A k \in 1..Len(e) : e[k].ref = f[k].ref /\ e[k].el = f[k].el
  BY DEF Same
<1>4. \A k \in 1..Len(e) : From(k) \in 1..Len(e)
  BY <1>1
<1> HIDE DEF From
<1>5. DOMAIN a = 1..Len(e) /\ DOMAIN b = 1..Len(e)
  BY <1>2
<1> QED
  BY <1>2, <1>3, <1>4, <1>5 DEF Same, a, b

LEMMA SameReplace ==
  ASSUME NEW e \in Seq(Numbered), NEW f \in Seq(Numbered), Same(e, f),
         NEW i \in 1..Len(e), NEW x
  PROVE  Same(ReplaceAt(e, i, x), ReplaceAt(f, i, x))
<1>1. DOMAIN e = 1..Len(e) /\ DOMAIN f = 1..Len(e)
  BY SameLength
<1> QED
  BY <1>1 DEF Same, ReplaceAt

\* What a page makes of an answer depends on the refs and elements it shows,
\* not on their texts.
LEMMA SameChanged ==
  ASSUME NEW r, Good(r), NEW e \in Seq(Numbered), NEW f \in Seq(Numbered), Same(e, f)
  PROVE  Same(ChangedFields(e, r), ChangedFields(f, r))
<1> DEFINE at == Find(e, r.ref)
<1>1. at \in 0..Len(e) /\ Len(e) \in Nat /\ Len(f) = Len(e)
  BY FindIs, SameLength
<1>2. Find(f, r.ref) = at
  BY SameFind
<1>3. r.kind \in {"add", "attribute"} /\ r.answer = "done" => r.fields[1] \in Numbered
  <2>1. r.fields \in Seq(Numbered)
    BY GoodFields
  <2> QED
    BY <2>1 DEF Good
<1> HIDE DEF at
<1>4. r.kind = "add" /\ r.answer = "done" =>
        Same(InsertAt(e, at + 1, r.fields[1]), InsertAt(f, at + 1, r.fields[1]))
  <2>1. at + 1 \in 1..(Len(e) + 1)
    BY <1>1
  <2> QED
    BY <1>3, <2>1, SameInsert
<1>5. at # 0 => Same(ReplaceAt(e, at, r.fields[1]), ReplaceAt(f, at, r.fields[1]))
  BY <1>1, SameReplace
<1>6. at # 0 => Same(RemoveAt(e, at), RemoveAt(f, at))
  BY <1>1, SameRemove
<1>7. at \in 1 .. Len(e) - 1 => Same(SwapWithNext(e, at), SwapWithNext(f, at))
  BY <1>1, SameSwap
<1>8. ChangedFields(e, r) =
        CASE r.kind = "add" /\ r.answer = "done" /\ (at # 0 \/ r.ref = 0) ->
             InsertAt(e, at + 1, r.fields[1])
        [] r.kind = "attribute" /\ r.answer = "done" /\ at # 0 ->
             ReplaceAt(e, at, r.fields[1])
        [] \/ r.kind = "remove" /\ at # 0
           \/ r.kind = "attribute" /\ r.answer = "login" /\ at # 0 -> RemoveAt(e, at)
        [] r.kind = "move" /\ at \in 1 .. Len(e) - 1 -> SwapWithNext(e, at)
        [] OTHER -> e
  BY DEF ChangedFields, at
<1>9. ChangedFields(f, r) =
        CASE r.kind = "add" /\ r.answer = "done" /\ (at # 0 \/ r.ref = 0) ->
             InsertAt(f, at + 1, r.fields[1])
        [] r.kind = "attribute" /\ r.answer = "done" /\ at # 0 ->
             ReplaceAt(f, at, r.fields[1])
        [] \/ r.kind = "remove" /\ at # 0
           \/ r.kind = "attribute" /\ r.answer = "login" /\ at # 0 -> RemoveAt(f, at)
        [] r.kind = "move" /\ at \in 1 .. Len(e) - 1 -> SwapWithNext(f, at)
        [] OTHER -> f
  BY <1>1, <1>2 DEF ChangedFields
<1> HIDE DEF ChangedFields
<1>10. r.kind \in Kinds
  BY GoodFields
<1> QED
  BY <1>4, <1>5, <1>6, <1>7, <1>8, <1>9

\* What a service does to the working copy is what the page will make of its
\* answer, if the page shows what is in the working copy.
LEMMA AddedSame ==
  ASSUME NEW c \in Seq(Numbered), Unique(c), NEW new \in Numbered, NEW q,
         q.kind = "add", q.answer = "done", q.fields = <<new>>, AtEnd(q.ref, c)
  PROVE  Same(ChangedFields(c, q), Append(c, new))
<1> DEFINE at == Find(c, q.ref)
<1>1. Len(c) \in Nat /\ DOMAIN c = 1..Len(c) /\ (c = <<>> <=> Len(c) = 0)
  OBVIOUS
<1>2. at = Len(c) /\ (at # 0 \/ q.ref = 0)
  <2>1. CASE c = <<>>
    <3>1. at \in 0..Len(c)
      BY FindIs
    <3>2. q.ref = 0
      BY <2>1 DEF AtEnd
    <3> QED
      BY <1>1, <2>1, <3>1, <3>2
  <2>2. CASE c # <<>>
    <3>1. Len(c) \in 1..Len(c) /\ c[Len(c)].ref = q.ref
      BY <1>1, <2>2 DEF AtEnd, Last
    <3>2. at # 0 /\ at \in 1..Len(c) /\ c[at].ref = q.ref
      BY <3>1, FindIs, FirstIs
    <3> QED
      BY <1>1, <3>1, <3>2 DEF Unique
  <2> QED
    BY <2>1, <2>2
<1> HIDE DEF at
<1>3. ChangedFields(c, q) = InsertAt(c, Len(c) + 1, new)
  <2>1. ChangedFields(c, q) = InsertAt(c, at + 1, q.fields[1])
    BY <1>2 DEF ChangedFields, at
  <2> QED
    BY <1>2, <2>1
<1> DEFINE a == InsertAt(c, Len(c) + 1, new)  b == Append(c, new)
<1>4. Len(c) + 1 \in 1..(Len(c) + 1)
  BY <1>1
<1>5. /\ a \in Seq(Numbered) /\ Len(a) = Len(c) + 1
      /\ \A k \in 1..(Len(c) + 1) : a[k] =
           IF k < Len(c) + 1 THEN c[k] ELSE IF k = Len(c) + 1 THEN new ELSE c[k - 1]
  <2> DEFINE n == Len(c) + 1
  <2>1. n \in 1..(Len(c) + 1)
    BY <1>4
  <2> HIDE DEF n
  <2>2. InsertAt(c, n, new) \in Seq(Numbered)
    BY <2>1, InsertIs
  <2>3. /\ Len(InsertAt(c, n, new)) = Len(c) + 1
        /\ \A k \in 1..(Len(c) + 1) : InsertAt(c, n, new)[k] =
             IF k < n THEN c[k] ELSE IF k = n THEN new ELSE c[k - 1]
    BY <2>1, InsertElements
  <2> QED
    BY <2>2, <2>3 DEF n
<1>6. /\ DOMAIN b = 1..(Len(c) + 1)
      /\ \A k \in 1..(Len(c) + 1) : b[k] = IF k < Len(c) + 1 THEN c[k] ELSE new
  BY <1>1
<1> HIDE DEF a, b
<1>7. \A k \in 1..(Len(c) + 1) : a[k] = b[k]
  BY <1>1, <1>5, <1>6
<1>8. DOMAIN a = 1..(Len(c) + 1)
  BY <1>5
<1>9. Same(a, b)
  BY <1>6, <1>7, <1>8 DEF Same
<1>10. ChangedFields(c, q) = a /\ Append(c, new) = b
  BY <1>3 DEF a, b
<1> QED
  BY <1>9, <1>10

LEMMA ChangedIsDone ==
  ASSUME NEW c \in Seq(Numbered), NEW q, q.answer = "done",
         NEW at, at = Find(c, q.ref), at # 0
  PROVE  /\ q.kind = "attribute" /\ q.fields = <<c[at]>> => ChangedFields(c, q) = c
         /\ q.kind = "remove" => ChangedFields(c, q) = RemoveAt(c, at)
         /\ q.kind = "move" => ChangedFields(c, q) =
                                IF at < Len(c) THEN SwapWithNext(c, at) ELSE c
<1>1. at \in 1..Len(c) /\ Len(c) \in Nat
  BY FindIs
<1>2. q.kind = "attribute" /\ q.fields = <<c[at]>> => ChangedFields(c, q) = c
  <2> SUFFICES ASSUME q.kind = "attribute", q.fields = <<c[at]>> PROVE ChangedFields(c, q) = c
    OBVIOUS
  <2>1. ChangedFields(c, q) = [c EXCEPT ![at] = q.fields[1]]
    BY DEF ChangedFields, ReplaceAt
  <2>2. q.fields[1] = c[at]
    OBVIOUS
  <2> QED
    BY <1>1, <2>1, <2>2
<1>3. q.kind = "remove" => ChangedFields(c, q) = RemoveAt(c, at)
  BY DEF ChangedFields
<1>4. q.kind = "move" => ChangedFields(c, q) = IF at < Len(c) THEN SwapWithNext(c, at) ELSE c
  <2>1. at \in 1 .. Len(c) - 1 <=> at < Len(c)
    BY <1>1
  <2> QED
    BY <2>1 DEF ChangedFields
<1> QED
  BY <1>2, <1>3, <1>4

\* The input of a form goes to the element of its ref, the last one if there
\* are several.
LEMMA ApplySame ==
  ASSUME NEW e \in Seq(Numbered), NEW f \in Seq(Numbered)
  PROVE  Same(ApplyChanges(e, f), e)
  BY ApplyIs DEF Same

LEMMA PartlySame ==
  ASSUME NEW e \in Seq(Numbered), NEW f \in Seq(Numbered), NEW texted, NEW translated
  PROVE  /\ PartlyChanged(e, ApplyChanges(e, f), texted, translated) \in Seq(Numbered)
         /\ Same(PartlyChanged(e, ApplyChanges(e, f), texted, translated), e)
<1>1. ApplyChanges(e, f) \in Seq(Numbered) /\ DOMAIN ApplyChanges(e, f) = DOMAIN e
  BY ApplyIs
<1> QED
  BY <1>1, PartlyIs DEF Same

LEMMA ApplyHolds ==
  ASSUME NEW c \in Seq(Numbered), Unique(c), NEW f \in Seq(Numbered), Same(f, c)
  PROVE  \A rest \in Seq(Element) : Holds(f, Contents(ApplyChanges(c, f)) \o rest)
<1> DEFINE At(i) == SelectLastInSeq(f, LAMBDA x : x.ref = c[i].ref)
           a == ApplyChanges(c, f)
<1>1. Len(f) = Len(c) /\ DOMAIN f = 1..Len(f) /\ DOMAIN c = 1..Len(f) /\ Len(f) \in Nat
  BY SameLength
<1>2. \A i \in 1..Len(f) : f[i].ref = c[i].ref /\ f[i].el = c[i].el
  BY <1>1 DEF Same
<1>3. ASSUME NEW i \in 1..Len(f) PROVE At(i) = i
  <2> DEFINE ref == c[i].ref
             I == {k \in 1..Len(f) : f[k].ref = ref}
  <2>1. At(i) = IF I # {} THEN Max(I) ELSE 0
    BY DEF SelectLastInSeq
  <2>2. I = {i}
    BY <1>1, <1>2 DEF Unique
  <2>3. Max({i}) = i
    BY DEF Max
  <2> QED
    BY <2>1, <2>2, <2>3
<1>4. ASSUME NEW i \in 1..Len(f)
      PROVE  /\ a[i].el = f[i].el /\ a[i].text = f[i].text
             /\ f[i].lang # 0 => f[i].lang \in a[i].trans
  <2> DEFINE t == Translated(c[i], f[i].lang)
  <2>1. a[i] = IF At(i) = 0 THEN c[i]
               ELSE [Translated(c[i], f[At(i)].lang) EXCEPT !.text = f[At(i)].text]
    BY <1>1 DEF ApplyChanges
  <2> HIDE DEF At, a
  <2>2. a[i] = [t EXCEPT !.text = f[i].text]
    BY <1>3, <2>1
  <2>3. c[i] \in Numbered /\ f[i].lang \in Nat
    BY <1>1, NumberedSeq
  <2>4. t \in Numbered /\ t.el = c[i].el /\ (f[i].lang # 0 => f[i].lang \in t.trans)
    BY <2>3, TranslatedIs
  <2> HIDE DEF t
  <2> QED
    BY <1>2, <2>2, <2>4 DEF Numbered
<1>5. DOMAIN a = 1..Len(f) /\ a \in Seq(Numbered)
  BY <1>1, ApplyIs
<1> HIDE DEF At, a
<1> TAKE rest \in Seq(Element)
<1> DEFINE all == Contents(a) \o rest
<1>6. ASSUME NEW i \in 1..Len(f)
      PROVE  \E e \in ToSet(all) : /\ e.el = f[i].el /\ e.text = f[i].text
                                   /\ f[i].lang # 0 => f[i].lang \in e.trans
  <2> DEFINE e == Contents(a)[i]
  <2>1. e = [el |-> a[i].el, text |-> a[i].text, trans |-> a[i].trans]
    BY <1>5 DEF Contents
  <2>2. Contents(a) \in Seq(Element) /\ DOMAIN Contents(a) = 1..Len(f)
    BY <1>5, ContentsIs DEF Contents
  <2> HIDE DEF e
  <2>3. /\ Len(all) = Len(Contents(a)) + Len(rest) /\ all \in Seq(Element)
        /\ i \in 1..Len(Contents(a))
        /\ all[i] = e
    BY <2>2, ConcatProperties DEF e
  <2>4. i \in DOMAIN all
    BY <2>3
  <2>5. e \in ToSet(all)
    BY <2>3, <2>4 DEF ToSet
  <2> QED
    BY <1>4, <2>1, <2>5
<1>7. \A x \in ToSet(f) : \E i \in 1..Len(f) : x = f[i]
  BY <1>1 DEF ToSet
<1> HIDE DEF all
<1> QED
  BY <1>6, <1>7 DEF Holds, a, all

-----------------------------------------------------------------------------
(* An orderly session: at most one of its requests is under way, and the    *)
(* form that can be saved shows the working copy, now or once the answer    *)
(* has arrived.                                                             *)

Of(s) == {w \in Windows : SessionOf[w] = s}

ChangeDone(r) == r.kind \in Changes /\ r.answer = "done"
\* Requests whose fields are those of a form.
Carries(r)    == r.answer = "form" \/ (r.kind = "save" /\ r.stage = "sent")

\* No request of session s is under way.
Idle(s) ==
  /\ copy[s] # None => \A w \in Of(s) : IsCurrent(w) => Same(form[w].fields, copy[s])
  /\ ~expired[s] => \A w \in Of(s) : loader = w /\ form[w] # None => IsCurrent(w)

\* Request r is the only one of session s that is under way: what the forms
\* and the request show of the working copy, ...
ShownWith(s, r) ==
  /\ \A w \in Of(s) : IsCurrent(w) =>
       IF ChangeDone(r) THEN r.win = w /\ Same(ChangedFields(form[w].fields, r), copy[s])
       ELSE (r.kind \in Loads /\ r.stage # "answered") \/ Same(form[w].fields, copy[s])
  /\ Carries(r) /\ r.version = version => Same(r.fields, copy[s])
  /\ r.kind \in Changes /\ r.stage = "sent" => \A w \in Of(s) : IsCurrent(w) =>
       r.win = w /\ (r.kind = "add" => AtEnd(r.ref, copy[s]))

\* ... and that the last loader has the current version, or will be given it.
LoadedWith(s, r) ==
  \A w \in Of(s) : loader = w =>
    /\ form[w] # None => IsCurrent(w) \/ r.answer = "form" \/ r.kind \in Loads
    /\ r.answer = "form" => r.win = w /\ r.version = version
    /\ r.kind = "save" /\ r.stage = "sent" /\ r.win = w => r.version = version

Busy(s, r) ==
  /\ r.heard
  /\ r.stage = "checked" => Holds(r.fields, r.content)
  /\ copy[s] # None => ShownWith(s, r)
  /\ ~expired[s] => LoadedWith(s, r)

SessionInv(s) ==
  orderly[s] => \/ InSession(s) = {} /\ Idle(s)
                \/ \E r \in requests : InSession(s) = {r} /\ Busy(s, r)

\* The answers a request can have.
Stated(r) ==
  /\ r.answer = "login" => expired[SessionOf[r.win]]
  /\ r.stage # "answered" <=> r.answer = "none"
  /\ r.answer = "form" => r.kind \in Loads \cup {"save"}
  /\ r.stage \in {"read", "written"} => r.kind \in Loads \cup {"save"}
  /\ r.kind \in Loads => r.answer \in {"none", "form", "login"}
LoginInv ==
  /\ \A s \in Sessions : expired[s] => copy[s] = None
  /\ \A r \in requests : Stated(r)

OrderInv == LoginInv /\ \A s \in Sessions : SessionInv(s)

LEMMA OrderInit == Init => OrderInv
  BY WindowAssumption
  DEF Init, OrderInv, LoginInv, SessionInv, InSession, Idle, Of, IsCurrent

-----------------------------------------------------------------------------
(* The answers.                                                             *)

\* A step of a request: the rest goes on, or is new, or is gone.
Heeds(r) == \E q \in requests :
  /\ r.win = q.win /\ r.answer = q.answer /\ r.stage = q.stage /\ r.kind = q.kind
Fresh(r) == r.stage = "sent" /\ r.answer = "none"

LEMMA LoginKeeps ==
  ASSUME LoginInv, RefsInv,
         \A s \in Sessions : expired[s] => expired'[s],
         \A s \in Sessions : expired'[s] => copy'[s] = None,
         \A r \in requests' : Heeds(r) \/ Fresh(r) \/ Stated(r)'
  PROVE  LoginInv'
<1>1. ASSUME NEW r \in requests', Heeds(r) PROVE Stated(r)'
  <2>1. PICK q \in requests :
          r.win = q.win /\ r.answer = q.answer /\ r.stage = q.stage /\ r.kind = q.kind
    BY <1>1 DEF Heeds
  <2>2. Stated(q) /\ SessionOf[q.win] \in Sessions
    BY GoodFields DEF LoginInv, RefsInv, RequestOK
  <2> QED
    BY <2>1, <2>2 DEF Stated
<1>2. ASSUME NEW r \in requests', Fresh(r) PROVE Stated(r)'
  BY <1>2 DEF Fresh, Stated, Loads
<1> QED
  BY <1>1, <1>2 DEF LoginInv

\* Of the windows' requests: those that are left, and a new one.
LEMMA SendHeeds ==
  ASSUME NEW pending, NEW r, SendFrom(pending, r), \A q \in pending : Heeds(q), Fresh(r)
  PROVE  \A q \in requests' : Heeds(q) \/ Fresh(q) \/ Stated(q)'
  BY DEF SendFrom

LEMMA StayHeed == \A q \in requests : Heeds(q)
  BY DEF Heeds

LEMMA UnheardHeeds ==
  ASSUME RefsInv, NEW w
  PROVE  \A q \in Unheard(w) : Heeds(q)
<1>1. \A r \in requests : r \in Request
  BY DEF RefsInv, RequestOK, Good
<1>2. \A r \in requests : LET u == [r EXCEPT !.heard = FALSE] IN
        u.win = r.win /\ u.answer = r.answer /\ u.stage = r.stage /\ u.kind = r.kind
  BY <1>1 DEF Request
<1> QED
  BY <1>2 DEF Unheard, Heeds

LEMMA SavingHeeds ==
  ASSUME NEW pending, NEW w, NEW how, StartSaving(pending, w, how), \A q \in pending : Heeds(q)
  PROVE  \A q \in requests' : Heeds(q) \/ Fresh(q) \/ Stated(q)'
<1> DEFINE r == [Blank(w, "save") EXCEPT
       !.fields = how.fields, !.version = form[w].version, !.refresh = how.refresh,
       !.silent = how.silent, !.next = how.next, !.ref = how.ref]
<1>1. Fresh(r)
  BY DEF Fresh, Blank
<1>2. SendFrom(pending, r)
  BY DEF StartSaving
<1> HIDE DEF r
<1> QED
  BY <1>1, <1>2, SendHeeds

LEMMA UserLogin ==
  ASSUME LoginInv, RefsInv, NEW w \in Windows,
         Open(w) \/ Type(w) \/ ClickSave(w) \/ ClickElement(w) \/ ClickCancel(w)
  PROVE  LoginInv'
<1> USE StayHeed DEF serverVars
<1>1. UNCHANGED <<copy, expired>>
  BY DEF Open, Type, ClickSave, ClickElement, ClickCancel
<1>2. \A q \in requests' : Heeds(q) \/ Fresh(q) \/ Stated(q)'
  <2>1. CASE Open(w)
    BY <2>1, UnheardHeeds, SendHeeds DEF Open, Blank, Fresh
  <2>2. CASE Type(w)
    BY <2>2 DEF Type
  <2>3. CASE ClickSave(w)
    BY <2>3, SavingHeeds DEF ClickSave
  <2>4. CASE ClickElement(w)
    <3>1. \A kind, ref, next : /\ Fresh([Blank(w, kind) EXCEPT !.ref = ref, !.next = next])
                               /\ Fresh([Blank(w, kind) EXCEPT !.ref = ref])
      BY DEF Blank, Fresh
    <3>2. \E r : Fresh(r) /\ SendFrom(requests, r)
      BY <2>4, <3>1 DEF ClickElement, Send
    <3> QED
      BY <3>2, SendHeeds
  <2>5. CASE ClickCancel(w)
    BY <2>5, SendHeeds DEF ClickCancel, Send, Blank, Fresh
  <2> QED
    BY <2>1, <2>2, <2>3, <2>4, <2>5
<1>3. \A s \in Sessions : expired'[s] => copy'[s] = None
  BY <1>1 DEF LoginInv
<1> QED
  BY <1>1, <1>2, <1>3, LoginKeeps

LEMMA ServiceLogin ==
  ASSUME LoginInv, RefsInv, NEW r \in requests, Serve(r)
  PROVE  LoginInv'
<1> USE DEF serverVars
<1> DEFINE s == SessionOf[r.win]
<1>0. r \in Request /\ s \in Sessions /\ Stated(r)
  BY GoodFields DEF RefsInv, RequestOK, LoginInv
<1>1. \A t \in Sessions : expired[t] => copy[t] = None
  BY DEF LoginInv
<1>2. expired' = expired
  BY DEF Serve, LoginPage, Read, Load, Check, Write, Change, CancelSession, Process
<1>3. DOMAIN copy = Sessions
  BY DEF RefsInv, ServerOK
<1>4. \A t \in Sessions : expired'[t] => copy'[t] = None
  <2>1. CASE UNCHANGED copy
    BY <1>1, <1>2, <2>1
  <2>2. CASE \E c : copy' = [copy EXCEPT ![s] = c] /\ (expired[s] => c = None)
    BY <1>0, <1>1, <1>2, <1>3, <2>2
  <2>3. CASE LoginPage(r) \/ Read(r) \/ Write(r) \/ Process(r)
    BY <2>1, <2>3 DEF LoginPage, Read, Write, Process
  <2>4. CASE Load(r)
    BY <2>2, <2>4 DEF Load
  <2>5. CASE Check(r)
    <3>1. ~expired[s]
      BY <2>5 DEF Check, Reaches
    <3>2. UNCHANGED copy \/ \E c : copy' = [copy EXCEPT ![s] = c]
      BY <2>5 DEF Check, Accept, Accepted, Fail
    <3> QED
      BY <2>1, <2>2, <3>1, <3>2
  <2>6. CASE Change(r)
    <3>1. \/ UNCHANGED copy
          \/ ~expired[s] /\ \E c : copy' = [copy EXCEPT ![s] = c]
      BY <2>6 DEF Change, Reaches
    <3> QED
      BY <2>1, <2>2, <3>1
  <2>7. CASE CancelSession(r)
    BY <2>2, <2>7 DEF CancelSession
  <2> QED
    BY <2>3, <2>4, <2>5, <2>6, <2>7 DEF Serve
<1>5. ASSUME NEW q, Replace(r, q), Stated(q)' PROVE LoginInv'
  <2>1. \A x \in requests' : Heeds(x) \/ Fresh(x) \/ Stated(x)'
    BY <1>5, StayHeed DEF Replace
  <2> QED
    BY <1>2, <1>4, <2>1, LoginKeeps
<1>6. ASSUME NEW a, Answer(r, a), a \in {"login", "error", "done"},
             a = "login" => expired[s], a # "login" => r.kind \notin Loads
      PROVE  LoginInv'
  <2> DEFINE q == [r EXCEPT !.stage = "answered", !.answer = a]
  <2>1. q.win = r.win /\ q.kind = r.kind /\ q.stage = "answered" /\ q.answer = a
    BY <1>0 DEF Request
  <2>2. Replace(r, q)
    BY <1>6 DEF Answer
  <2> HIDE DEF q
  <2>3. Stated(q)'
    BY <1>2, <1>6, <2>1 DEF Stated, Loads
  <2> QED
    BY <1>5, <2>2, <2>3
<1>7. CASE LoginPage(r)
  BY <1>6, <1>7 DEF LoginPage
<1>8. CASE Read(r)
  <2>0. PICK q : q = [r EXCEPT !.stage = "read", !.content = record, !.seen = saves,
                               !.crossed = FALSE]
    OBVIOUS
  <2>1. q.win = r.win /\ q.kind = r.kind /\ q.stage = "read" /\ q.answer = r.answer
    BY <1>0, <2>0 DEF Request
  <2>2. Replace(r, q)
    BY <1>8, <2>0 DEF Read
  <2>3. r.answer = "none" /\ r.kind \in Loads \cup {"save"}
    BY <1>0, <1>8 DEF Read, Reaches, Stated
  <2>4. Stated(q)'
    BY <2>1, <2>3 DEF Stated
  <2> QED
    BY <1>5, <2>2, <2>4
<1>9. CASE Load(r)
  <2>0. PICK q : q = [r EXCEPT !.stage = "answered", !.answer = "form",
                               !.fields = Enumerate(r.content), !.version = NewVersion(r),
                               !.content = <<>>]
    OBVIOUS
  <2>1. q.win = r.win /\ q.kind = r.kind /\ q.stage = "answered" /\ q.answer = "form"
    BY <1>0, <2>0 DEF Request
  <2>2. Replace(r, q)
    BY <1>9, <2>0 DEF Load
  <2>3. r.kind \in Loads \cup {"save"}
    BY <1>0, <1>9 DEF Load, Stated
  <2>4. Stated(q)'
    BY <2>1, <2>3 DEF Stated
  <2> QED
    BY <1>5, <2>2, <2>4
<1>10. CASE Check(r)
  <2>1. CASE Answer(r, "error")
    BY <1>6, <1>10, <2>1 DEF Check, Reaches, Loads
  <2>2. CASE Accept(r)
    <3>a. PICK content :
            content = Contents(ApplyChanges(copy[SessionOf[r.win]], r.fields)) \o half[s]
      OBVIOUS
    <3> DEFINE q == [r EXCEPT !.stage = "checked", !.crossed = FALSE, !.content = content]
    <3>0. Replace(r, q)
      BY <2>2, <3>a DEF Accept, Accepted
    <3>1. q.win = r.win /\ q.kind = r.kind /\ q.stage = "checked" /\ q.answer = r.answer
      BY <1>0 DEF Request
    <3> HIDE DEF q
    <3>2. r.kind = "save" /\ r.answer = "none"
      BY <1>0, <1>10 DEF Check, Reaches, Stated
    <3>3. Stated(q)'
      BY <3>1, <3>2 DEF Stated, Loads
    <3> QED
      BY <1>5, <3>0, <3>3
  <2> QED
    BY <1>10, <2>1, <2>2 DEF Check, Fail
<1>11. CASE Write(r)
  <2> DEFINE Crossed(q) == IF q.stage \in {"read", "checked"} THEN [q EXCEPT !.crossed = TRUE] ELSE q
             p == IF r.refresh THEN [r EXCEPT !.stage = "written"]
                  ELSE [r EXCEPT !.stage = "answered", !.answer = "done", !.content = <<>>]
  <2>1. r.kind = "save" /\ r.answer = "none"
    BY <1>0, <1>11 DEF Write, Stated, RefsInv, RequestOK, Good
  <2>2. /\ p.win = r.win /\ p.kind = r.kind
        /\ \/ p.stage = "written" /\ p.answer = r.answer
           \/ p.stage = "answered" /\ p.answer = "done"
    BY <1>0 DEF Request
  <2>3. ASSUME NEW q \in requests PROVE Heeds(Crossed(q))
    <3>1. q \in Request
      BY DEF RefsInv, RequestOK, Good
    <3>2. Crossed(q).win = q.win /\ Crossed(q).answer = q.answer
          /\ Crossed(q).stage = q.stage /\ Crossed(q).kind = q.kind
      BY <3>1 DEF Request
    <3> HIDE DEF Crossed
    <3> QED
      BY <3>2 DEF Heeds
  <2>4. requests' = {Crossed(q) : q \in requests \ {r}} \cup {p}
    BY <1>11 DEF Write
  <2> HIDE DEF Crossed, p
  <2>5. Stated(p)'
    BY <2>1, <2>2 DEF Stated, Loads
  <2>6. \A x \in requests' : Heeds(x) \/ Fresh(x) \/ Stated(x)'
    BY <2>3, <2>4, <2>5
  <2> QED
    BY <1>2, <1>4, <2>6, LoginKeeps
<1>12. CASE Change(r)
  <2>0. r.kind \in Changes /\ r.kind \notin Loads
    BY <1>12 DEF Change, Reaches, Changes, Loads
  <2>1. \/ Answer(r, "done") \/ Answer(r, "error")
        \/ \E x : Replace(r, [r EXCEPT !.stage = "answered", !.answer = "done", !.fields = <<x>>])
    BY <1>12 DEF Change
  <2>2. ASSUME NEW x,
               Replace(r, [r EXCEPT !.stage = "answered", !.answer = "done", !.fields = <<x>>])
        PROVE  LoginInv'
    <3> DEFINE q == [r EXCEPT !.stage = "answered", !.answer = "done", !.fields = <<x>>]
    <3>1. q.win = r.win /\ q.kind = r.kind /\ q.stage = "answered" /\ q.answer = "done"
      BY <1>0 DEF Request
    <3>2. Replace(r, q)
      BY <2>2
    <3> HIDE DEF q
    <3>3. Stated(q)'
      BY <2>0, <3>1 DEF Stated
    <3> QED
      BY <1>5, <3>2, <3>3
  <2> QED
    BY <1>6, <2>0, <2>1, <2>2
<1>13. CASE CancelSession(r) \/ Process(r)
  BY <1>6, <1>13 DEF CancelSession, Process, Reaches, Loads
<1> QED
  BY <1>7, <1>8, <1>9, <1>10, <1>11, <1>12, <1>13 DEF Serve

LEMMA HearLogin ==
  ASSUME LoginInv, RefsInv, NEW r \in requests, Hear(r)
  PROVE  LoginInv'
<1> USE StayHeed DEF serverVars, Done
<1>1. UNCHANGED <<copy, expired>>
  BY DEF Hear, Forget, HearForm, HearNoForm, HearSaved, HearAndClose, HearNotSaved,
         HearChanged, HearNotChanged, HearProcessed
<1>2. \A q \in requests' : Heeds(q) \/ Fresh(q) \/ Stated(q)'
  <2>1. CASE requests' = Done(r)
    BY <2>1
  <2>2. CASE HearSaved(r)
    <3>1. Fresh([Blank(r.win, r.next) EXCEPT !.ref = r.ref])
      BY DEF Blank, Fresh
    <3> QED
      BY <2>1, <2>2, <3>1, SendHeeds DEF HearSaved
  <2>3. CASE HearAndClose(r)
    BY <2>3, UnheardHeeds DEF HearAndClose
  <2>4. CASE HearChanged(r)
    BY <2>1, <2>4, SavingHeeds DEF HearChanged
  <2>5. CASE HearProcessed(r)
    BY <2>5, SendHeeds DEF HearProcessed, Blank, Fresh
  <2> QED
    BY <2>1, <2>2, <2>3, <2>4, <2>5
    DEF Hear, Forget, HearForm, HearNoForm, HearNotSaved, HearNotChanged
<1>3. \A s \in Sessions : expired'[s] => copy'[s] = None
  BY <1>1 DEF LoginInv
<1> QED
  BY <1>1, <1>2, <1>3, LoginKeeps

-----------------------------------------------------------------------------
(* A session that a step does not disturb.                                  *)

Alike(p, q) ==
  /\ p.win = q.win /\ p.kind = q.kind /\ p.stage = q.stage /\ p.heard = q.heard
  /\ p.ref = q.ref /\ p.fields = q.fields /\ p.version = q.version
  /\ p.content = q.content /\ p.answer = q.answer
StillShows(w) ==
  \/ form'[w] = form[w]
  \/ /\ form[w] # None /\ form'[w] # None /\ form'[w].version = form[w].version
     /\ Same(form'[w].fields, form[w].fields)
SameRequests(s) ==
  /\ InSession(s) = {} => InSession(s)' = {}
  /\ \A q \in requests : InSession(s) = {q} =>
       \E p \in requests' : InSession(s)' = {p} /\ Alike(p, q)
Undisturbed(s) ==
  /\ orderly'[s] => orderly[s]
  /\ copy'[s] = copy[s] /\ expired'[s] = expired[s]
  /\ SameRequests(s)
  /\ \A w \in Of(s) : StillShows(w)
  /\ \/ UNCHANGED <<version, loader>>
     \/ version' = version + 1 /\ loader' \notin Of(s)

LEMMA FormTyped ==
  ASSUME RefsInv, NEW w \in Windows, form[w] # None
  PROVE  form[w].fields \in Seq(Numbered) /\ form[w].version \in Nat
  BY DEF RefsInv, PageOK, Form

LEMMA CopyTyped ==
  ASSUME RefsInv, NEW s \in Sessions, copy[s] # None
  PROVE  copy[s] \in Seq(Numbered) /\ Unique(copy[s])
  BY DEF RefsInv, ServerOK, Copied

LEMMA ChangedAlike ==
  ASSUME NEW p, NEW q, Alike(p, q), NEW fields
  PROVE  ChangedFields(fields, p) = ChangedFields(fields, q)
  BY DEF ChangedFields, Alike

LEMMA StillCurrent ==
  ASSUME UNCHANGED version, NEW w, StillShows(w)
  PROVE  /\ IsCurrent(w)' <=> IsCurrent(w)
         /\ form'[w] # None <=> form[w] # None
  BY DEF IsCurrent, StillShows

LEMMA IdleStays ==
  ASSUME EditorInv, RefsInv, NEW s \in Sessions, Idle(s), Undisturbed(s)
  PROVE  Idle(s)'
<1>1. CASE UNCHANGED <<version, loader>>
  <2>1. \A w \in Of(s) : (IsCurrent(w)' <=> IsCurrent(w)) /\ (form'[w] # None <=> form[w] # None)
    BY <1>1, StillCurrent DEF Undisturbed
  <2>2. ASSUME copy[s] # None, NEW w \in Of(s), IsCurrent(w)
        PROVE  Same(form'[w].fields, copy[s])
    <3>1. Same(form[w].fields, copy[s])
      BY <2>2 DEF Idle
    <3>2. form'[w] = form[w] \/ Same(form'[w].fields, form[w].fields)
      BY DEF Undisturbed, StillShows
    <3> QED
      BY <3>1, <3>2, SameTransitive
  <2>3. Of(s)' = Of(s)
    BY DEF Of
  <2> QED
    BY <1>1, <2>1, <2>2, <2>3 DEF Idle, Undisturbed
<1>2. CASE version' = version + 1 /\ loader' \notin Of(s)
  <2>1. \A w \in Of(s) : ~IsCurrent(w)'
    <3> TAKE w \in Of(s)
    <3>1. form[w] # None => form[w].version \in Nat /\ form[w].version <= version
      BY DEF Of, EditorInv, VersionInv, Owned
    <3>2. form'[w] # None => form[w] # None /\ form'[w].version = form[w].version
      BY DEF Undisturbed, StillShows
    <3>3. version \in Nat
      BY DEF EditorInv, VersionInv
    <3>4. form'[w] # None => form'[w].version # version'
      BY <1>2, <3>1, <3>2, <3>3
    <3> QED
      BY <3>4 DEF IsCurrent
  <2>2. Of(s)' = Of(s)
    BY DEF Of
  <2> QED
    BY <1>2, <2>1, <2>2 DEF Idle
<1> QED
  BY <1>1, <1>2 DEF Undisturbed

LEMMA BusyStays ==
  ASSUME EditorInv, RefsInv, NEW s \in Sessions, NEW q \in requests, Busy(s, q),
         Undisturbed(s), NEW p, Alike(p, q), RefsInv'
  PROVE  Busy(s, p)'
<1> USE DEF Alike
<1>0. Of(s)' = Of(s) /\ Of(s) \subseteq Windows
  BY DEF Of
<1>a. Good(q)
  BY DEF RefsInv, RequestOK
<1>b. p.heard /\ (p.stage = "checked" => Holds(p.fields, p.content))
  BY DEF Busy
<1>c. /\ ChangeDone(p) <=> ChangeDone(q)
      /\ Carries(p) <=> Carries(q)
  BY DEF ChangeDone, Carries
<1>1. CASE UNCHANGED <<version, loader>>
  <2>1. \A w \in Of(s) : (IsCurrent(w)' <=> IsCurrent(w)) /\ (form'[w] # None <=> form[w] # None)
    BY <1>1, StillCurrent DEF Undisturbed
  <2>2. ASSUME copy[s] # None PROVE ShownWith(s, p)'
    <3>0. ShownWith(s, q) /\ copy'[s] = copy[s]
      BY <2>2 DEF Busy, Undisturbed
    <3>1. ASSUME NEW w \in Of(s), IsCurrent(w)
          PROVE  IF ChangeDone(p) THEN p.win = w /\ Same(ChangedFields(form'[w].fields, p), copy'[s])
                 ELSE (p.kind \in Loads /\ p.stage # "answered") \/ Same(form'[w].fields, copy'[s])
      <4>1. IF ChangeDone(q) THEN q.win = w /\ Same(ChangedFields(form[w].fields, q), copy[s])
            ELSE (q.kind \in Loads /\ q.stage # "answered") \/ Same(form[w].fields, copy[s])
        BY <3>0, <3>1 DEF ShownWith
      <4>2. form'[w] = form[w] \/ Same(form'[w].fields, form[w].fields)
        BY DEF Undisturbed, StillShows
      <4>3. form[w].fields \in Seq(Numbered) /\ form'[w].fields \in Seq(Numbered)
        BY <1>0, <2>1, <3>1, FormTyped DEF IsCurrent, RefsInv, PageOK, Form
      <4>4. ChangedFields(form'[w].fields, p) = ChangedFields(form'[w].fields, q)
        BY ChangedAlike
      <4>5. CASE ChangeDone(q)
        <5>1. \/ form'[w] = form[w]
              \/ Same(ChangedFields(form'[w].fields, q), ChangedFields(form[w].fields, q))
          BY <1>a, <4>2, <4>3, SameChanged
        <5>2. Same(ChangedFields(form'[w].fields, q), copy[s])
          BY <4>1, <4>5, <5>1, SameTransitive
        <5> QED
          BY <1>c, <3>0, <4>1, <4>4, <4>5, <5>2
      <4>6. CASE ~ChangeDone(q)
        <5>1. Same(form[w].fields, copy[s]) => Same(form'[w].fields, copy[s])
          BY <4>2, SameTransitive
        <5> QED
          BY <1>c, <3>0, <4>1, <4>6, <5>1
      <4> QED
        BY <4>5, <4>6
    <3>2. Carries(p) /\ p.version = version => Same(p.fields, copy[s])
      BY <1>c, <3>0 DEF ShownWith
    <3>3. p.kind \in Changes /\ p.stage = "sent" => \A w \in Of(s) : IsCurrent(w) =>
            p.win = w /\ (p.kind = "add" => AtEnd(p.ref, copy[s]))
      BY <3>0 DEF ShownWith
    <3>4. Carries(p)' <=> Carries(p)
      BY DEF Carries
    <3>5. ChangeDone(p)' <=> ChangeDone(p)
      BY DEF ChangeDone
    <3> QED
      BY <1>0, <1>1, <2>1, <3>0, <3>1, <3>2, <3>3, <3>4, <3>5 DEF ShownWith
  <2>3. ASSUME ~expired[s] PROVE LoadedWith(s, p)'
    <3>1. LoadedWith(s, q)
      BY <2>3 DEF Busy
    <3> QED
      BY <1>0, <1>1, <2>1, <3>1 DEF LoadedWith
  <2> QED
    BY <1>b, <2>2, <2>3 DEF Busy, Undisturbed
<1>2. CASE version' = version + 1 /\ loader' \notin Of(s)
  <2>1. \A w \in Of(s) : ~IsCurrent(w)'
    <3> TAKE w \in Of(s)
    <3>1. form[w] # None => form[w].version \in Nat /\ form[w].version <= version
      BY DEF Of, EditorInv, VersionInv, Owned
    <3>2. form'[w] # None => form[w] # None /\ form'[w].version = form[w].version
      BY DEF Undisturbed, StillShows
    <3>3. version \in Nat
      BY DEF EditorInv, VersionInv
    <3>4. form'[w] # None => form'[w].version # version'
      BY <1>2, <3>1, <3>2, <3>3
    <3> QED
      BY <3>4 DEF IsCurrent
  <2>2. p.version # version'
    <3>1. q.version \in Nat /\ q.version <= version /\ version \in Nat
      BY DEF EditorInv, VersionInv, Owned
    <3> QED
      BY <1>2, <3>1
  <2>3. ShownWith(s, p)' /\ LoadedWith(s, p)'
    BY <1>0, <1>2, <2>1, <2>2 DEF ShownWith, LoadedWith
  <2> QED
    BY <1>b, <2>3 DEF Busy
<1> QED
  BY <1>1, <1>2 DEF Undisturbed

LEMMA UndisturbedKeeps ==
  ASSUME EditorInv, RefsInv, RefsInv', NEW s \in Sessions, SessionInv(s), Undisturbed(s)
  PROVE  SessionInv(s)'
<1> SUFFICES ASSUME orderly'[s]
             PROVE  \/ InSession(s)' = {} /\ Idle(s)'
                    \/ \E p \in requests' : InSession(s)' = {p} /\ Busy(s, p)'
  BY DEF SessionInv
<1>1. orderly[s] /\ SameRequests(s)
  BY DEF Undisturbed
<1>2. CASE InSession(s) = {} /\ Idle(s)
  BY <1>1, <1>2, IdleStays DEF SameRequests
<1>3. ASSUME NEW q \in requests, InSession(s) = {q}, Busy(s, q)
      PROVE  \E p \in requests' : InSession(s)' = {p} /\ Busy(s, p)'
  <2>1. PICK p \in requests' : InSession(s)' = {p} /\ Alike(p, q)
    BY <1>1, <1>3 DEF SameRequests
  <2>2. Busy(s, p)'
    BY <1>3, <2>1, BusyStays
  <2> QED
    BY <2>1, <2>2
<1> QED
  BY <1>1, <1>2, <1>3 DEF SessionInv

-----------------------------------------------------------------------------
(* The requests of the sessions: those of the others stay, and a session    *)
(* has one more, another, or one less.                                      *)

LEMMA SameSet ==
  ASSUME NEW s, InSession(s)' = InSession(s)
  PROVE  SameRequests(s)
<1>1. \A q \in requests : Alike(q, q)
  BY DEF Alike
<1>2. \A q : InSession(s)' = {q} => q \in requests'
  BY DEF InSession
<1> QED
  BY <1>1, <1>2 DEF SameRequests

\* The state that the sessions depend on, but for the requests.
Calm(s) ==
  /\ UNCHANGED <<version, loader, expired>>
  /\ \A t \in Sessions : t # s => copy'[t] = copy[t] /\ orderly'[t] = orderly[t]
  /\ \A w \in Windows : SessionOf[w] # s => form'[w] = form[w]

OfPending(pending, s) == {q \in pending : SessionOf[q.win] = s}

LEMMA CalmKeeps ==
  ASSUME EditorInv, RefsInv, RefsInv', OrderInv, NEW s \in Sessions, Calm(s),
         \A t \in Sessions : t # s => InSession(t)' = InSession(t),
         SessionInv(s)'
  PROVE  \A t \in Sessions : SessionInv(t)'
<1> SUFFICES ASSUME NEW t \in Sessions, t # s PROVE SessionInv(t)'
  OBVIOUS
<1>1. SameRequests(t)
  BY SameSet
<1>2. Undisturbed(t)
  BY <1>1 DEF Calm, Undisturbed, StillShows, Of
<1>3. SessionInv(t)
  BY DEF OrderInv
<1> QED
  BY <1>2, <1>3, UndisturbedKeeps

\* A session sends a request, if it is orderly its only one.
LEMMA SendOrder ==
  ASSUME EditorInv, RefsInv, RefsInv', OrderInv, NEW pending, NEW r, NEW s \in Sessions,
         SendFrom(pending, r), SessionOf[r.win] = s,
         \A t \in Sessions : t # s => OfPending(pending, t) = InSession(t),
         UNCHANGED <<version, loader, expired, copy>>,
         \A w \in Windows : SessionOf[w] # s => form'[w] = form[w],
         /\ OfPending(pending, s) = {}
         /\ r.kind = "open" \/ (orderly[s] /\ (r.kind \in Changes => IsCurrent(r.win)))
         => Busy(s, r)'
  PROVE  \A t \in Sessions : SessionInv(t)'
<1>1. /\ requests' = pending \cup {r}
      /\ orderly' = [orderly EXCEPT ![s] =
           IF \E q \in pending : SessionOf[q.win] = s THEN FALSE
           ELSE \/ r.kind = "open"
                \/ @ /\ (r.kind \in Changes => IsCurrent(r.win))]
  BY DEF SendFrom
<1>2. \A t \in Sessions : t # s => InSession(t)' = InSession(t)
  BY <1>1 DEF InSession, OfPending
<1>3. Calm(s)
  BY <1>1 DEF Calm
<1>4. ASSUME orderly'[s] PROVE InSession(s)' = {r} /\ r \in requests' /\ Busy(s, r)'
  <2>1. orderly \in [Sessions -> BOOLEAN]
    BY DEF RefsInv, HistoryOK
  <2>2. /\ ~ \E q \in pending : SessionOf[q.win] = s
        /\ r.kind = "open" \/ (orderly[s] /\ (r.kind \in Changes => IsCurrent(r.win)))
    BY <1>1, <1>4, <2>1
  <2>3. OfPending(pending, s) = {}
    BY <2>2 DEF OfPending
  <2>4. InSession(s)' = {r}
    BY <1>1, <2>2 DEF InSession
  <2> QED
    BY <1>1, <2>2, <2>3, <2>4
<1>5. SessionInv(s)'
  BY <1>4 DEF SessionInv
<1> QED
  BY <1>2, <1>3, <1>5, CalmKeeps

\* The answer of a request has arrived, and is the last in an orderly session.
LEMMA DoneOrder ==
  ASSUME EditorInv, RefsInv, RefsInv', OrderInv, NEW r \in requests,
         NEW s \in Sessions, s = SessionOf[r.win],
         UNCHANGED <<version, loader, expired, copy, orderly>>,
         \A t \in Sessions : t # s => InSession(t)' = InSession(t),
         InSession(s) = {r} => InSession(s)' = {},
         \A w \in Windows : SessionOf[w] # s => form'[w] = form[w],
         InSession(s) = {r} /\ Busy(s, r) => Idle(s)'
  PROVE  \A t \in Sessions : SessionInv(t)'
<1>1. r \in InSession(s)
  BY DEF InSession
<1>2. ASSUME orderly[s] PROVE InSession(s) = {r} /\ Busy(s, r)
  BY <1>1, <1>2 DEF OrderInv, SessionInv
<1>3. SessionInv(s)'
  BY <1>2 DEF SessionInv
<1>4. Calm(s)
  BY DEF Calm
<1> QED
  BY <1>3, <1>4, CalmKeeps

\* The requests of the sessions after Done.
LEMMA DoneRequests ==
  ASSUME NEW r \in requests, requests' = Done(r), NEW s, s = SessionOf[r.win]
  PROVE  /\ \A t \in Sessions : t # s => InSession(t)' = InSession(t)
         /\ InSession(s) = {r} => InSession(s)' = {}
  BY DEF InSession, Done

LEMMA DonePending ==
  ASSUME NEW r \in requests, NEW s, s = SessionOf[r.win]
  PROVE  /\ \A t \in Sessions : t # s => OfPending(Done(r), t) = InSession(t)
         /\ OfPending(Done(r), s) = {} => InSession(s) = {r}
  BY DEF InSession, OfPending, Done

LEMMA AllPending ==
  \A t : OfPending(requests, t) = InSession(t)
  BY DEF InSession, OfPending

\* The requests whose page is gone.
LEMMA UnheardIs ==
  ASSUME RefsInv, NEW w \in Windows
  PROVE  /\ \A t : t # SessionOf[w] => OfPending(Unheard(w), t) = InSession(t)
         /\ \A r \in requests : InSession(SessionOf[w]) = {r} /\ r.win = w =>
              OfPending(Unheard(w), SessionOf[w]) = {[r EXCEPT !.heard = FALSE]}
<1>1. \A r \in requests : [r EXCEPT !.heard = FALSE].win = r.win
  BY DEF RefsInv, RequestOK, Good, Request
<1> DEFINE U(r) == IF r.win = w THEN [r EXCEPT !.heard = FALSE] ELSE r
<1>2. \A r \in requests : U(r).win = r.win /\ (r.win # w => U(r) = r)
  BY <1>1
<1>3. Unheard(w) = {U(r) : r \in requests}
  BY DEF Unheard
<1>4. \A r \in requests : r.win = w => U(r) = [r EXCEPT !.heard = FALSE]
  OBVIOUS
<1> HIDE DEF U
<1>5. ASSUME NEW t, t # SessionOf[w] PROVE OfPending(Unheard(w), t) = InSession(t)
  BY <1>2, <1>3, <1>5 DEF OfPending, InSession
<1>6. ASSUME NEW r \in requests, InSession(SessionOf[w]) = {r}, r.win = w
      PROVE  OfPending(Unheard(w), SessionOf[w]) = {U(r)}
  BY <1>2, <1>3, <1>6 DEF OfPending, InSession
<1> QED
  BY <1>4, <1>5, <1>6

-----------------------------------------------------------------------------
(* What users do.                                                           *)

\* A request that a session sends when none of its requests is under way, or
\* one that loads the form anew.
LEMMA SentIsBusy ==
  ASSUME RefsInv', EditorInv', NEW s \in Sessions, NEW r, r.win \in Of(s),
         r.heard, r.stage = "sent", r.answer = "none",
         Idle(s)' \/ r.kind \in Loads,
         r.kind = "save" => /\ form'[r.win] # None
                            /\ r.fields = form'[r.win].fields /\ r.version = form'[r.win].version,
         r.kind \in Changes => /\ form'[r.win] # None /\ form'[r.win].version = version'
                               /\ r.kind = "add" => AtEnd(r.ref, form'[r.win].fields)
  PROVE  Busy(s, r)'
<1>0. Of(s)' = Of(s) /\ Of(s) \subseteq Windows
  BY DEF Of
<1>1. ~ChangeDone(r)' /\ (Carries(r)' => r.kind = "save")
  BY DEF ChangeDone, Carries
<1>2. CASE r.kind \in Loads
  <2>1. r.kind \notin Changes /\ r.kind # "save"
    BY <1>2 DEF Loads, Changes
  <2>2. ShownWith(s, r)' /\ LoadedWith(s, r)'
    BY <1>1, <1>2, <2>1 DEF ShownWith, LoadedWith
  <2> QED
    BY <2>2 DEF Busy
<1>3. CASE r.kind \notin Loads
  <2>0. Idle(s)'
    BY <1>3
  <2>1. ASSUME copy'[s] # None PROVE ShownWith(s, r)'
    <3>1. \A w \in Of(s) : IsCurrent(w)' => Same(form'[w].fields, copy'[s])
      BY <1>0, <2>0, <2>1 DEF Idle
    <3>2. Carries(r)' /\ r.version = version' => Same(r.fields, copy'[s])
      BY <1>1, <3>1 DEF IsCurrent
    <3>3. ASSUME r.kind \in Changes, NEW w \in Of(s), IsCurrent(w)'
          PROVE  r.win = w /\ (r.kind = "add" => AtEnd(r.ref, copy'[s]))
      <4>1. w = r.win
        <5>1. form'[w] # None /\ form'[w].version = version'
          BY <3>3 DEF IsCurrent
        <5>2. loader' = w /\ loader' = r.win
          BY <1>0, <3>3, <5>1 DEF EditorInv, VersionInv, Owned
        <5> QED
          BY <5>2
      <4>2. Same(form'[r.win].fields, copy'[s])
        BY <3>1, <3>3, <4>1
      <4>3. form'[r.win].fields \in Seq(Numbered) /\ copy'[s] \in Seq(Numbered)
        <5>1. form'[r.win] \in Form
          BY <1>0, <3>3 DEF RefsInv, PageOK
        <5> QED
          BY <2>1, <5>1 DEF RefsInv, ServerOK, Copied, Form
      <4> QED
        BY <3>3, <4>1, <4>2, <4>3, SameAtEnd
    <3> QED
      BY <1>0, <1>1, <3>1, <3>2, <3>3 DEF ShownWith
  <2>2. ASSUME ~expired'[s] PROVE LoadedWith(s, r)'
    <3>1. \A w \in Of(s) : loader' = w /\ form'[w] # None => IsCurrent(w)'
      BY <1>0, <2>0, <2>2 DEF Idle
    <3> QED
      BY <1>0, <3>1 DEF LoadedWith, IsCurrent
  <2> QED
    BY <2>1, <2>2 DEF Busy
<1> QED
  BY <1>2, <1>3

LEMMA OpenOrder ==
  ASSUME EditorInv, RefsInv, EditorInv', RefsInv', OrderInv, NEW w \in Windows, Open(w)
  PROVE  \A t \in Sessions : SessionInv(t)'
<1> DEFINE s == SessionOf[w]  r == Blank(w, "open")
<1>1. s \in Sessions /\ w \in Of(s)
  BY WindowAssumption DEF Of
<1>2. PICK b : b = Blank(w, "open")
  OBVIOUS
<1>3. /\ b.win = w /\ b.heard /\ b.stage = "sent" /\ b.answer = "none" /\ b.kind = "open"
      /\ b.kind \in Loads /\ b.kind \notin Changes
  BY <1>2 DEF Blank, Loads, Changes
<1>4. /\ SendFrom(Unheard(w), b) /\ UNCHANGED <<version, loader, expired, copy>>
      /\ \A v \in Windows : SessionOf[v] # s => form'[v] = form[v]
  BY <1>2 DEF Open, Blur, serverVars
<1>5. Busy(s, b)'
  BY <1>1, <1>3, SentIsBusy
<1> QED
  BY <1>1, <1>3, <1>4, <1>5, UnheardIs, SendOrder

LEMMA TypeOrder ==
  ASSUME EditorInv, RefsInv, RefsInv', OrderInv, NEW w \in Windows, Type(w)
  PROVE  \A t \in Sessions : SessionInv(t)'
<1> DEFINE e == form[w].fields
<1>1. PICK i \in DOMAIN e :
        \/ form' = [form EXCEPT ![w].fields[i].text = texts + 1]
        \/ form' = [form EXCEPT ![w].fields[i].lang = texts + 1]
        \/ form' = [form EXCEPT ![w].fields[i].lang = 0]
  BY DEF Type
<1>2. form[w] # None /\ e \in Seq(Numbered) /\ form[w] \in Form
  BY DEF Type, RefsInv, PageOK, Form
<1>b. PICK x \in Numbered : /\ form' = [form EXCEPT ![w].fields[i] = x]
                          /\ x.ref = e[i].ref /\ x.el = e[i].el
  <2>1. e[i] \in Numbered /\ texts + 1 \in Nat
    BY <1>2 DEF RefsInv
  <2>2. PICK a, b, c : /\ a = [e[i] EXCEPT !.text = texts + 1]
                       /\ b = [e[i] EXCEPT !.lang = texts + 1]
                       /\ c = [e[i] EXCEPT !.lang = 0]
    OBVIOUS
  <2>3. \/ form' = [form EXCEPT ![w].fields[i] = a]
        \/ form' = [form EXCEPT ![w].fields[i] = b]
        \/ form' = [form EXCEPT ![w].fields[i] = c]
    BY <1>1, <2>2
  <2> HIDE DEF e
  <2>4. \A x \in {a, b, c} : x \in Numbered /\ x.ref = e[i].ref /\ x.el = e[i].el
    BY <2>1, <2>2 DEF Numbered
  <2> USE DEF e
  <2> QED
    BY <2>3, <2>4
<1> DEFINE f == [e EXCEPT ![i] = x]
<1>3. Same(f, e)
  <2>1. DOMAIN f = DOMAIN e
    OBVIOUS
  <2>2. ASSUME NEW k \in DOMAIN e PROVE f[k].ref = e[k].ref /\ f[k].el = e[k].el
    <3>1. f[k] = IF k = i THEN x ELSE e[k]
      OBVIOUS
    <3> HIDE DEF e, f
    <3> QED
      BY <1>b, <3>1
  <2> QED
    BY <2>1, <2>2 DEF Same
<1>a. f \in Seq(Numbered)
  <2> HIDE DEF e
  <2> QED
    BY <1>2
<1>4. DOMAIN form = Windows /\ form' = [form EXCEPT ![w] = [form[w] EXCEPT !.fields = f]]
  BY <1>b DEF RefsInv, PageOK
<1> HIDE DEF f
<1>5. \A v \in Windows : StillShows(v)
  <2>1. \A v \in Windows : v # w => form'[v] = form[v]
    BY <1>4
  <2>2. form'[w] = [form[w] EXCEPT !.fields = f]
    BY <1>4
  <2>3. form'[w].version = form[w].version /\ form'[w].fields = f
    BY <1>2, <2>2 DEF Form
  <2>4. form'[w] # None
    <3>1. [form[w] EXCEPT !.fields = f] \in Form
      BY <1>2, <1>a DEF Form
    <3> QED
      BY <2>2, <3>1, NoneAssumption
  <2> QED
    BY <1>2, <1>3, <2>1, <2>3, <2>4 DEF StillShows
<1>6. UNCHANGED <<version, loader, copy, expired, requests, orderly>>
  BY DEF Type, serverVars, historyVars
<1> SUFFICES ASSUME NEW t \in Sessions PROVE SessionInv(t)'
  OBVIOUS
<1>7. SameRequests(t)
  BY <1>6, SameSet DEF InSession
<1>8. Undisturbed(t)
  BY <1>5, <1>6, <1>7 DEF Undisturbed, Of
<1> QED
  BY <1>8, UndisturbedKeeps DEF OrderInv

\* A save that is sent: when nothing of its session is under way, the form
\* shows the working copy.
LEMMA SavingOrder ==
  ASSUME EditorInv, RefsInv, EditorInv', RefsInv', OrderInv, NEW pending, NEW w \in Windows,
         NEW how, StartSaving(pending, w, how),
         \A t \in Sessions : t # SessionOf[w] => OfPending(pending, t) = InSession(t),
         UNCHANGED <<version, loader, expired, copy>>,
         \A v \in Windows : SessionOf[v] # SessionOf[w] => form'[v] = form[v],
         form'[w] # None, form'[w].version = form[w].version, how.fields = form'[w].fields,
         OfPending(pending, SessionOf[w]) = {} /\ orderly[SessionOf[w]] => Idle(SessionOf[w])'
  PROVE  \A t \in Sessions : SessionInv(t)'
<1> DEFINE s == SessionOf[w]
<1>1. s \in Sessions /\ w \in Of(s)
  BY WindowAssumption DEF Of
<1>2. PICK r : r = [Blank(w, "save") EXCEPT
       !.fields = how.fields, !.version = form[w].version, !.refresh = how.refresh,
       !.silent = how.silent, !.next = how.next, !.ref = how.ref]
  OBVIOUS
<1>3. /\ r.win = w /\ r.heard /\ r.stage = "sent" /\ r.answer = "none" /\ r.kind = "save"
      /\ r.fields = how.fields /\ r.version = form[w].version
      /\ r.kind \notin Changes /\ r.kind \notin Loads /\ r.kind # "open"
  BY <1>2 DEF Blank, Loads, Changes
<1>4. SendFrom(pending, r)
  BY <1>2 DEF StartSaving
<1>5. ASSUME OfPending(pending, s) = {}, orderly[s] PROVE Busy(s, r)'
  <2>1. Idle(s)'
    BY <1>5
  <2> QED
    BY <1>1, <1>3, <2>1, SentIsBusy
<1> QED
  BY <1>1, <1>3, <1>4, <1>5, SendOrder

\* A page that is idle sends a request.
LEMMA ClickOrder ==
  ASSUME EditorInv, RefsInv, EditorInv', RefsInv', OrderInv, NEW w \in Windows,
         ClickSave(w) \/ ClickElement(w) \/ ClickCancel(w)
  PROVE  \A t \in Sessions : SessionInv(t)'
<1> DEFINE s == SessionOf[w]
<1>1. s \in Sessions /\ w \in Of(s) /\ form[w] # None
  BY WindowAssumption DEF Of, ClickSave, ClickElement, ClickCancel
<1>2. UNCHANGED <<version, loader, expired, copy, form>>
  BY DEF ClickSave, ClickElement, ClickCancel, serverVars, pageVars
<1>3. ASSUME InSession(s) = {}, orderly[s] PROVE Idle(s)'
  <2>1. Idle(s)
    BY <1>1, <1>3 DEF OrderInv, SessionInv
  <2> QED
    BY <1>2, <2>1 DEF Idle, IsCurrent, Of
<1>4. CASE ClickSave(w)
  <2>1. \E how : StartSaving(requests, w, how) /\ how.fields = form[w].fields
    BY <1>4 DEF ClickSave
  <2>2. PICK how : StartSaving(requests, w, how) /\ how.fields = form[w].fields
    BY <2>1
  <2> QED
    BY <1>1, <1>2, <1>3, <2>2, AllPending, SavingOrder
<1>5. ASSUME NEW r, SendFrom(requests, r), r.win = w, r.heard, r.stage = "sent",
             r.answer = "none", r.kind \notin {"save", "open"},
             r.kind = "add" => AtEnd(r.ref, form[w].fields)
      PROVE  \A t \in Sessions : SessionInv(t)'
  <2>1. ASSUME OfPending(requests, s) = {},
               orderly[s] /\ (r.kind \in Changes => IsCurrent(r.win))
        PROVE  Busy(s, r)'
    <3>1. Idle(s)'
      BY <1>3, <2>1, AllPending
    <3>2. r.kind \in Changes => form'[w] # None /\ form'[w].version = version'
      BY <1>2, <1>5, <2>1 DEF IsCurrent
    <3> QED
      BY <1>1, <1>2, <1>5, <3>1, <3>2, SentIsBusy
  <2> QED
    BY <1>1, <1>2, <1>5, <2>1, AllPending, SendOrder
<1>6. CASE ClickElement(w)
  <2>1. ASSUME NEW c \in {"remove", "move"}, NEW ref, Send([Blank(w, c) EXCEPT !.ref = ref])
        PROVE  \A t \in Sessions : SessionInv(t)'
    <3>1. PICK r : r = [Blank(w, c) EXCEPT !.ref = ref]
      OBVIOUS
    <3>2. /\ r.win = w /\ r.heard /\ r.stage = "sent" /\ r.answer = "none"
          /\ r.kind \notin {"save", "open", "add"}
      BY <3>1 DEF Blank
    <3>3. SendFrom(requests, r)
      BY <2>1, <3>1 DEF Send
    <3> QED
      BY <1>5, <3>2, <3>3
  <2>2. ASSUME NEW next,
               Send([Blank(w, "add") EXCEPT
                  !.ref = IF form[w].fields = <<>> THEN 0 ELSE Last(form[w].fields).ref,
                  !.next = next])
        PROVE  \A t \in Sessions : SessionInv(t)'
    <3>0. PICK ref : ref = IF form[w].fields = <<>> THEN 0 ELSE Last(form[w].fields).ref
      OBVIOUS
    <3>1. PICK r : r = [Blank(w, "add") EXCEPT !.ref = ref, !.next = next]
      OBVIOUS
    <3>2. /\ r.win = w /\ r.heard /\ r.stage = "sent" /\ r.answer = "none"
          /\ r.kind = "add" /\ r.ref = ref
      BY <3>1 DEF Blank
    <3>3. AtEnd(r.ref, form[w].fields)
      BY <3>0, <3>2 DEF AtEnd
    <3>4. SendFrom(requests, r)
      BY <2>2, <3>0, <3>1 DEF Send
    <3> QED
      BY <1>5, <3>2, <3>3, <3>4
  <2> QED
    BY <1>6, <2>1, <2>2 DEF ClickElement
<1>7. CASE ClickCancel(w)
  <2>1. PICK r : r = Blank(w, "cancel")
    OBVIOUS
  <2>2. /\ r.win = w /\ r.heard /\ r.stage = "sent" /\ r.answer = "none"
        /\ r.kind \notin {"save", "open", "add"}
    BY <2>1 DEF Blank
  <2>3. SendFrom(requests, r)
    BY <1>7, <2>1 DEF ClickCancel, Send
  <2> QED
    BY <1>5, <2>2, <2>3
<1> QED
  BY <1>4, <1>6, <1>7

\* The session expires: its working copy is gone.
LEMMA ExpireOrder ==
  ASSUME EditorInv, RefsInv, RefsInv', OrderInv, NEW s \in Sessions, Expire(s)
  PROVE  \A t \in Sessions : SessionInv(t)'
<1>1. /\ UNCHANGED <<version, loader, requests, form, orderly>>
      /\ expired' = [expired EXCEPT ![s] = TRUE] /\ copy' = [copy EXCEPT ![s] = None]
      /\ DOMAIN expired = Sessions /\ DOMAIN copy = Sessions
  BY DEF Expire, pageVars, historyVars, RefsInv, ServerOK
<1>2. \A t : InSession(t)' = InSession(t)
  BY <1>1 DEF InSession
<1>3. ASSUME NEW t \in Sessions, t # s PROVE SessionInv(t)'
  <2>1. Undisturbed(t)
    BY <1>1, <1>2, <1>3, SameSet DEF Undisturbed, StillShows
  <2> QED
    BY <2>1, UndisturbedKeeps DEF OrderInv
<1>4. SessionInv(s)'
  <2>1. expired'[s] /\ copy'[s] = None
    BY <1>1
  <2>2. SessionInv(s)
    BY DEF OrderInv
  <2>3. \A r : Busy(s, r) => Busy(s, r)'
    BY <2>1 DEF Busy
  <2>4. Idle(s)'
    BY <2>1 DEF Idle
  <2>5. orderly'[s] = orderly[s]
    BY <1>1
  <2> QED
    BY <1>1, <1>2, <2>2, <2>3, <2>4, <2>5 DEF SessionInv
<1> QED
  BY <1>3, <1>4

-----------------------------------------------------------------------------
(* What the services do.                                                    *)

\* The request of an orderly session goes on.
LEMMA ReplaceOrder ==
  ASSUME EditorInv, RefsInv, RefsInv', OrderInv, NEW r \in requests, NEW q, Replace(r, q),
         q.win = r.win, UNCHANGED <<form, orderly, expired>>,
         \A t \in Sessions : t # SessionOf[r.win] => copy'[t] = copy[t],
         UNCHANGED <<version, loader>> \/ (version' = version + 1 /\ loader' = r.win),
         Busy(SessionOf[r.win], r) => Busy(SessionOf[r.win], q)'
  PROVE  \A t \in Sessions : SessionInv(t)'
<1> DEFINE s == SessionOf[r.win]
<1>1. s \in Sessions /\ r.win \in Of(s) /\ r \in InSession(s)
  BY GoodFields DEF RefsInv, RequestOK, Of, InSession
<1>2. ASSUME NEW t \in Sessions, t # s PROVE SessionInv(t)'
  <2>1. InSession(t)' = InSession(t)
    BY <1>2 DEF InSession, Replace
  <2>2. Undisturbed(t)
    BY <1>1, <1>2, <2>1, SameSet DEF Undisturbed, StillShows, Of
  <2> QED
    BY <2>2, UndisturbedKeeps DEF OrderInv
<1>3. ASSUME orderly[s] PROVE q \in requests' /\ InSession(s)' = {q} /\ Busy(s, q)'
  <2>1. InSession(s) = {r} /\ Busy(s, r)
    BY <1>1, <1>3 DEF OrderInv, SessionInv
  <2>2. InSession(s)' = {q} /\ q \in requests'
    BY <2>1 DEF InSession, Replace
  <2> QED
    BY <2>1, <2>2
<1>4. SessionInv(s)'
  BY <1>3 DEF SessionInv
<1> QED
  BY <1>2, <1>4

\* What the working copy and the forms show goes on when a request that changes
\* no element is answered, but for an answer with a form.
LEMMA StepIsBusy ==
  ASSUME RefsInv, NEW r \in requests, NEW s, Busy(s, r), NEW q,
         r.answer = "none", q.win = r.win, q.kind = r.kind, q.heard = r.heard,
         q.answer # "form", ~ChangeDone(q), q.stage # "sent",
         q.stage = "answered" => r.kind \notin Loads \/ copy'[s] = None,
         q.stage = "checked" => Holds(q.fields, q.content),
         UNCHANGED <<version, loader, form>>, expired'[s] = expired[s],
         copy'[s] # None => copy[s] # None /\ Same(copy[s], copy'[s])
  PROVE  Busy(s, q)'
<1>0. Of(s)' = Of(s) /\ \A w : IsCurrent(w)' <=> IsCurrent(w)
  BY DEF Of, IsCurrent
<1>1. ~ChangeDone(r) /\ ~Carries(q) /\ Carries(q)' = Carries(q) /\ ChangeDone(q)' = ChangeDone(q)
  BY DEF ChangeDone, Carries
<1>2. ASSUME copy'[s] # None PROVE ShownWith(s, q)'
  <2>1. ShownWith(s, r)
    BY <1>2 DEF Busy
  <2>2. \A w \in Of(s) : IsCurrent(w) =>
          (r.kind \in Loads /\ r.stage # "answered") \/ Same(form[w].fields, copy[s])
    BY <1>1, <2>1 DEF ShownWith
  <2>3. \A w \in Of(s) : IsCurrent(w) =>
          (q.kind \in Loads /\ q.stage # "answered") \/ Same(form[w].fields, copy'[s])
    BY <1>2, <2>2, SameTransitive
  <2> QED
    BY <1>0, <1>1, <2>3 DEF ShownWith
<1>3. ASSUME ~expired'[s] PROVE LoadedWith(s, q)'
  <2>1. LoadedWith(s, r)
    BY <1>3 DEF Busy
  <2> QED
    BY <1>0, <2>1 DEF LoadedWith
<1> QED
  BY <1>2, <1>3 DEF Busy

LEMMA SameItself == \A e : Same(e, e)
  BY DEF Same

\* An answer that shows nothing and has changed no more than texts.
LEMMA AnswerOrder ==
  ASSUME EditorInv, RefsInv, RefsInv', OrderInv, NEW r \in requests, NEW a, Answer(r, a),
         r.stage = "sent", a # "form", a = "done" => r.kind \notin Changes,
         UNCHANGED <<form, orderly, expired, version, loader>>,
         \A t \in Sessions : t # SessionOf[r.win] => copy'[t] = copy[t],
         copy'[SessionOf[r.win]] # None =>
            /\ r.kind \notin Loads /\ copy[SessionOf[r.win]] # None
            /\ Same(copy[SessionOf[r.win]], copy'[SessionOf[r.win]])
  PROVE  \A t \in Sessions : SessionInv(t)'
<1>1. PICK q : q = [r EXCEPT !.stage = "answered", !.answer = a]
  OBVIOUS
<1>2. r \in Request /\ r.answer = "none" /\ SessionOf[r.win] \in Sessions
  BY GoodFields DEF RefsInv, RequestOK, OrderInv, LoginInv, Stated
<1>3. /\ q.win = r.win /\ q.kind = r.kind /\ q.heard = r.heard /\ q.stage = "answered"
      /\ q.answer = a
  BY <1>1, <1>2 DEF Request
<1>4. ~ChangeDone(q)
  BY <1>3 DEF ChangeDone
<1>5. Replace(r, q)
  BY <1>1 DEF Answer
<1>6. Busy(SessionOf[r.win], r) => Busy(SessionOf[r.win], q)'
  BY <1>2, <1>3, <1>4, StepIsBusy
<1> QED
  BY <1>3, <1>5, <1>6, ReplaceOrder

LEMMA ReadOrder ==
  ASSUME EditorInv, RefsInv, RefsInv', OrderInv, NEW r \in requests, Read(r)
  PROVE  \A t \in Sessions : SessionInv(t)'
<1>1. PICK q : q = [r EXCEPT !.stage = "read", !.content = record, !.seen = saves,
                             !.crossed = FALSE]
  OBVIOUS
<1>2. r \in Request /\ r.answer = "none" /\ SessionOf[r.win] \in Sessions
  BY GoodFields DEF Read, Reaches, RefsInv, RequestOK, OrderInv, LoginInv, Stated
<1>3. /\ q.win = r.win /\ q.kind = r.kind /\ q.heard = r.heard /\ q.stage = "read"
      /\ q.answer = r.answer
  BY <1>1, <1>2 DEF Request
<1>4. ~ChangeDone(q)
  BY <1>2, <1>3 DEF ChangeDone
<1>5. Replace(r, q) /\ UNCHANGED <<form, orderly, expired, version, loader, copy>>
  BY <1>1 DEF Read, pageVars, historyVars
<1>6. Busy(SessionOf[r.win], r) => Busy(SessionOf[r.win], q)'
  BY <1>2, <1>3, <1>4, <1>5, SameItself, StepIsBusy
<1> QED
  BY <1>3, <1>5, <1>6, ReplaceOrder

\* The answer shows the new working copy, and is the only form with the new
\* version.
LEMMA LoadOrder ==
  ASSUME EditorInv, RefsInv, RefsInv', OrderInv, NEW r \in requests, Load(r)
  PROVE  \A t \in Sessions : SessionInv(t)'
<1> DEFINE s == SessionOf[r.win]
<1>1. PICK q : q = [r EXCEPT !.stage = "answered", !.answer = "form",
                             !.fields = Enumerate(r.content), !.version = NewVersion(r),
                             !.content = <<>>]
  OBVIOUS
<1>2. r \in Request /\ s \in Sessions /\ DOMAIN copy = Sessions /\ version \in Nat
  BY GoodFields DEF RefsInv, RequestOK, ServerOK
<1>3. /\ q.win = r.win /\ q.kind = r.kind /\ q.heard = r.heard /\ q.stage = "answered"
      /\ q.answer = "form" /\ q.fields = Enumerate(r.content) /\ q.version = version + 1
  BY <1>1, <1>2 DEF Request, NewVersion
<1>4. /\ Replace(r, q) /\ UNCHANGED <<form, orderly, expired>>
      /\ version' = version + 1 /\ loader' = r.win
      /\ copy' = [copy EXCEPT ![s] = IF expired[s] THEN None ELSE Enumerate(r.content)]
  BY <1>1 DEF Load, NewVersion, pageVars
<1>5. r.kind \notin Changes
  BY DEF Load, OrderInv, LoginInv, Stated, Loads, Changes
<1>6. \A w \in Windows : ~IsCurrent(w)'
  <2> TAKE w \in Windows
  <2>1. form[w] # None => form[w].version \in Nat /\ form[w].version <= version
    BY DEF EditorInv, VersionInv, Owned
  <2>2. form[w] # None => form[w].version # version + 1
    BY <1>2, <2>1
  <2> QED
    BY <1>4, <2>2 DEF IsCurrent
<1>7. ASSUME Busy(s, r) PROVE Busy(s, q)'
  <2>1. copy'[s] # None => Same(q.fields, copy'[s])
    BY <1>2, <1>3, <1>4, SameItself
  <2>2. Of(s)' = Of(s) /\ Of(s) \subseteq Windows
    BY DEF Of
  <2>3. copy'[s] # None => ShownWith(s, q)'
    BY <1>3, <1>5, <1>6, <2>1, <2>2 DEF ShownWith
  <2>4. LoadedWith(s, q)'
    BY <1>3, <1>4 DEF LoadedWith
  <2>5. q.heard /\ q.stage # "checked"
    BY <1>3, <1>7 DEF Busy
  <2> QED
    BY <2>3, <2>4, <2>5 DEF Busy
<1> QED
  BY <1>2, <1>3, <1>4, <1>7, ReplaceOrder

\* A save that is accepted goes to the working copy that its form shows.
LEMMA CheckOrder ==
  ASSUME EditorInv, RefsInv, RefsInv', OrderInv, NEW r \in requests, Check(r)
  PROVE  \A t \in Sessions : SessionInv(t)'
<1> DEFINE s == SessionOf[r.win]
<1>1. /\ r.stage = "sent" /\ r.kind = "save" /\ r.kind \notin Changes /\ r.kind \notin Loads
      /\ UNCHANGED <<form, orderly, expired, version, loader>>
  BY DEF Check, Reaches, pageVars, historyVars, Changes, Loads
<1>2. /\ r \in Request /\ r.answer = "none" /\ s \in Sessions /\ DOMAIN copy = Sessions
      /\ r.fields \in Seq(Numbered)
  BY <1>1, GoodFields DEF RefsInv, RequestOK, ServerOK, OrderInv, LoginInv, Stated
<1>3. CASE Answer(r, "error") /\ UNCHANGED copy
  BY <1>1, <1>3, SameItself, AnswerOrder
<1>5. CASE ~Refuses(r) /\ Fail(r)
  <2>1. copy[s] # None /\ copy[s] \in Seq(Numbered)
    BY <1>2, <1>5, CopyTyped DEF Refuses
  <2>2. PICK texted, translated : copy' = [copy EXCEPT ![s] =
          PartlyChanged(copy[s], ApplyChanges(copy[s], r.fields), texted, translated)]
    BY <1>5 DEF Fail
  <2>3. PICK d : d = PartlyChanged(copy[s], ApplyChanges(copy[s], r.fields), texted, translated)
    OBVIOUS
  <2>4. Same(d, copy[s])
    BY <1>2, <2>1, <2>3, PartlySame
  <2>5. copy'[s] = d /\ \A t \in Sessions : t # s => copy'[t] = copy[t]
    BY <1>2, <2>2, <2>3
  <2>6. Same(copy[s], copy'[s])
    BY <2>4, <2>5 DEF Same
  <2> QED
    BY <1>1, <1>5, <2>1, <2>5, <2>6, AnswerOrder DEF Fail
<1>4. CASE ~Refuses(r) /\ Accept(r)
  <2>0. PICK changed : changed = ApplyChanges(copy[s], r.fields)
    OBVIOUS
  <2>1. PICK q : q = [r EXCEPT !.stage = "checked", !.crossed = FALSE,
                               !.content = Contents(changed) \o half[s]]
    OBVIOUS
  <2>2. /\ q.win = r.win /\ q.kind = r.kind /\ q.heard = r.heard /\ q.stage = "checked"
        /\ q.answer = r.answer /\ q.fields = r.fields
        /\ q.content = Contents(changed) \o half[s]
    BY <1>2, <2>1 DEF Request
  <2>3. copy' = [copy EXCEPT ![s] = changed] /\ Replace(r, q)
    BY <1>4, <2>0, <2>1 DEF Accept, Accepted
  <2>4. copy[s] # None /\ r.version = version /\ copy[s] \in Seq(Numbered) /\ Unique(copy[s])
    BY <1>2, <1>4, CopyTyped DEF Refuses
  <2>5. ASSUME Busy(s, r) PROVE Holds(q.fields, q.content)
    <3>1. Same(r.fields, copy[s])
      BY <1>1, <2>4, <2>5 DEF Busy, ShownWith, Carries
    <3>2. half[s] \in Seq(Element)
      BY <1>2 DEF RefsInv, ServerOK
    <3> QED
      BY <1>2, <2>0, <2>2, <2>4, <3>1, <3>2, ApplyHolds
  <2>6. Same(copy[s], copy'[s])
    <3>1. Same(changed, copy[s])
      BY <1>2, <2>0, <2>4, ApplySame
    <3> QED
      BY <1>2, <2>3, <3>1 DEF Same
  <2>7. ~ChangeDone(q)
    BY <1>1, <2>2 DEF ChangeDone
  <2>8. Busy(s, r) => Busy(s, q)'
    BY <1>1, <1>2, <2>2, <2>4, <2>5, <2>6, <2>7, StepIsBusy
  <2> QED
    BY <1>1, <1>2, <2>2, <2>3, <2>8, ReplaceOrder
<1> QED
  BY <1>3, <1>4, <1>5 DEF Check

\* The commit of a save touches the requests of the others only in what is
\* known of the crossing.
LEMMA WriteOrder ==
  ASSUME EditorInv, RefsInv, RefsInv', OrderInv, NEW r \in requests, Write(r)
  PROVE  \A t \in Sessions : SessionInv(t)'
<1> DEFINE s == SessionOf[r.win]
           Crossed(q) == IF q.stage \in {"read", "checked"} THEN [q EXCEPT !.crossed = TRUE] ELSE q
<1>1. PICK p : p = IF r.refresh THEN [r EXCEPT !.stage = "written"]
                   ELSE [r EXCEPT !.stage = "answered", !.answer = "done", !.content = <<>>]
  OBVIOUS
<1>2. /\ requests' = {Crossed(q) : q \in requests \ {r}} \cup {p}
      /\ UNCHANGED <<form, orderly, expired, version, loader, copy>> /\ r.stage = "checked"
  BY <1>1 DEF Write, pageVars
<1>3. /\ r \in Request /\ r.answer = "none" /\ s \in Sessions /\ r.win \in Of(s)
      /\ r.kind = "save" /\ r.kind \notin Loads /\ r.kind \notin Changes /\ r \in InSession(s)
  BY <1>2, GoodFields
  DEF RefsInv, RequestOK, Good, OrderInv, LoginInv, Stated, Loads, Changes, InSession, Of
<1>4. /\ p.win = r.win /\ p.kind = r.kind /\ p.heard = r.heard
      /\ \/ p.stage = "written" /\ p.answer = r.answer
         \/ p.stage = "answered" /\ p.answer = "done"
  BY <1>1, <1>3 DEF Request
<1>5. \A q \in requests : Alike(Crossed(q), q)
  <2> TAKE q \in requests
  <2>1. q \in Request
    BY DEF RefsInv, RequestOK, Good
  <2> QED
    BY <2>1 DEF Request, Alike
<1>6. \A q \in requests : Crossed(q).win = q.win
  BY <1>5 DEF Alike
<1> HIDE DEF Crossed
<1>7. ASSUME NEW t \in Sessions, t # s PROVE SessionInv(t)'
  <2>1. InSession(t)' = {Crossed(q) : q \in InSession(t)}
    BY <1>2, <1>4, <1>6, <1>7 DEF InSession
  <2>2. SameRequests(t)
    <3>1. ASSUME NEW q \in requests, InSession(t) = {q}
          PROVE  InSession(t)' = {Crossed(q)} /\ Crossed(q) \in requests'
      <4>1. InSession(t)' = {Crossed(q)}
        BY <2>1, <3>1
      <4> QED
        BY <4>1 DEF InSession
    <3> QED
      BY <1>5, <2>1, <3>1 DEF SameRequests
  <2>3. Undisturbed(t)
    BY <1>2, <2>2 DEF Undisturbed, StillShows
  <2> QED
    BY <2>3, UndisturbedKeeps DEF OrderInv
<1>8. ASSUME orderly[s] PROVE p \in requests' /\ InSession(s)' = {p} /\ Busy(s, p)'
  <2>1. InSession(s) = {r} /\ Busy(s, r)
    BY <1>3, <1>8 DEF OrderInv, SessionInv
  <2>2. InSession(s)' = {p} /\ p \in requests'
    BY <1>2, <1>4, <1>6, <2>1 DEF InSession
  <2>3. ~ChangeDone(p)
    BY <1>3, <1>4 DEF ChangeDone
  <2>4. Busy(s, p)'
    BY <1>2, <1>3, <1>4, <2>1, <2>3, SameItself, StepIsBusy
  <2> QED
    BY <2>2, <2>4
<1>9. SessionInv(s)'
  BY <1>2, <1>8 DEF SessionInv
<1> QED
  BY <1>7, <1>9

\* The answer of a change: what the page will make of it is what the working
\* copy has become.
LEMMA ChangedIsBusy ==
  ASSUME RefsInv, NEW r \in requests, NEW s \in Sessions, s = SessionOf[r.win], Busy(s, r),
         r.kind \in Changes, r.stage = "sent", r.answer = "none", copy[s] # None,
         NEW q, Good(q), q.win = r.win, q.kind = r.kind, q.heard = r.heard,
         q.stage = "answered", q.answer = "done", q.ref = r.ref,
         UNCHANGED <<version, loader, form>>, expired'[s] = expired[s],
         (r.kind = "add" => AtEnd(r.ref, copy[s])) =>
           Same(ChangedFields(copy[s], q), copy'[s])
  PROVE  Busy(s, q)'
<1>0. /\ Of(s)' = Of(s) /\ Of(s) \subseteq Windows /\ \A w : IsCurrent(w)' <=> IsCurrent(w)
      /\ r.kind \notin Loads /\ r.kind # "save"
  BY DEF Of, IsCurrent, Loads, Changes
<1>1. ~ChangeDone(r) /\ ChangeDone(q)' /\ ~Carries(q)'
  BY <1>0 DEF ChangeDone, Carries
<1>2. ShownWith(s, q)'
  <2>1. ShownWith(s, r)
    BY DEF Busy
  <2>2. ASSUME NEW w \in Of(s), IsCurrent(w)
        PROVE  q.win = w /\ Same(ChangedFields(form[w].fields, q), copy'[s])
    <3>1. Same(form[w].fields, copy[s]) /\ r.win = w /\ (r.kind = "add" => AtEnd(r.ref, copy[s]))
      BY <1>0, <1>1, <2>1, <2>2 DEF ShownWith
    <3>2. form[w].fields \in Seq(Numbered) /\ copy[s] \in Seq(Numbered)
      BY <1>0, <2>2, FormTyped, CopyTyped DEF IsCurrent
    <3>3. Same(ChangedFields(form[w].fields, q), ChangedFields(copy[s], q))
      BY <3>1, <3>2, SameChanged
    <3>4. Same(ChangedFields(copy[s], q), copy'[s])
      BY <3>1
    <3> QED
      BY <3>1, <3>3, <3>4, SameTransitive
  <2> QED
    BY <1>0, <1>1, <2>2 DEF ShownWith
<1>3. ASSUME ~expired'[s] PROVE LoadedWith(s, q)'
  <2>1. LoadedWith(s, r)
    BY <1>3 DEF Busy
  <2> QED
    BY <1>0, <2>1 DEF LoadedWith
<1> QED
  BY <1>2, <1>3 DEF Busy

LEMMA ChangeOrder ==
  ASSUME EditorInv, RefsInv, RefsInv', OrderInv, NEW r \in requests, Change(r)
  PROVE  \A t \in Sessions : SessionInv(t)'
<1> DEFINE s  == SessionOf[r.win]
           c  == copy[s]
           at == IF c # None THEN Find(c, r.ref) ELSE 0
           Added == [Enumerate(<<NewElement(texts + 1)>>)[1] EXCEPT !.ref = MaximumRef(c) + 1]
<1>1. /\ r.stage = "sent" /\ r.kind \in Changes /\ r.kind \notin Loads
      /\ UNCHANGED <<form, orderly, expired, version, loader>>
  BY DEF Change, Reaches, pageVars, historyVars, Changes, Loads
<1>2. /\ Good(r) /\ r \in Request /\ r.answer = "none" /\ s \in Sessions /\ DOMAIN copy = Sessions
      /\ c # None => c \in Seq(Numbered) /\ Unique(c)
  BY <1>1, GoodFields, CopyTyped
  DEF RefsInv, RequestOK, ServerOK, OrderInv, LoginInv, Stated
<1>3. at # 0 => c # None /\ at \in 1..Len(c) /\ c[at] \in Numbered
  <2> SUFFICES ASSUME at # 0 PROVE c # None /\ at \in 1..Len(c) /\ c[at] \in Numbered
    OBVIOUS
  <2>1. c # None /\ c \in Seq(Numbered)
    BY <1>2
  <2>2. at \in 1..Len(c)
    BY <2>1, FindIs
  <2> HIDE DEF at
  <2> QED
    BY <2>1, <2>2
\* An answer "done" that has changed the working copy to d.
<1>4. ASSUME NEW q, Replace(r, q), q \in Request, q.win = r.win, q.kind = r.kind,
             q.heard = r.heard, q.stage = "answered", q.answer = "done", q.ref = r.ref,
             NEW d, copy' = [copy EXCEPT ![s] = d] \/ (UNCHANGED copy /\ d = c), c # None,
             (r.kind = "add" => AtEnd(r.ref, c)) => Same(ChangedFields(c, q), d)
      PROVE  \A t \in Sessions : SessionInv(t)'
  <2>1. copy'[s] = d /\ \A t \in Sessions : t # s => copy'[t] = copy[t]
    BY <1>2, <1>4
  <2>2. Good(q)
    <3>1. q \in requests'
      BY <1>4 DEF Replace
    <3> QED
      BY <3>1 DEF RefsInv, RequestOK
  <2>3. Busy(s, r) => Busy(s, q)'
    BY <1>1, <1>2, <1>4, <2>1, <2>2, ChangedIsBusy
  <2> QED
    BY <1>1, <1>2, <1>4, <2>1, <2>3, ReplaceOrder
<1>5. ASSUME NEW q, q = [r EXCEPT !.stage = "answered", !.answer = "done"]
      PROVE  /\ q \in Request /\ q.win = r.win /\ q.kind = r.kind
             /\ q.heard = r.heard /\ q.stage = "answered" /\ q.answer = "done" /\ q.ref = r.ref
  BY <1>2, <1>5 DEF Request, Stages, Answers
<1>6. ASSUME NEW x \in Numbered, NEW q,
             q = [r EXCEPT !.stage = "answered", !.answer = "done", !.fields = <<x>>]
      PROVE  /\ q \in Request /\ q.win = r.win /\ q.kind = r.kind /\ q.fields = <<x>>
             /\ q.heard = r.heard /\ q.stage = "answered" /\ q.answer = "done" /\ q.ref = r.ref
  <2>1. <<x>> \in Seq(Numbered)
    OBVIOUS
  <2> QED
    BY <1>2, <1>6, <2>1 DEF Request, Stages, Answers
<1>7. CASE /\ r.kind = "add" /\ c # None
           /\ \E new : /\ new = Added
                       /\ copy' = [copy EXCEPT ![s] = Append(c, new)]
                       /\ Replace(r, [r EXCEPT !.stage = "answered", !.answer = "done",
                                               !.fields = <<new>>])
  <2>1. PICK new : /\ new = Added
                   /\ copy' = [copy EXCEPT ![s] = Append(c, new)]
                   /\ Replace(r, [r EXCEPT !.stage = "answered", !.answer = "done",
                                           !.fields = <<new>>])
    BY <1>7
  <2>2. new \in Numbered
    BY <1>2, <1>7, <2>1, AppendUnique DEF RefsInv
  <2>3. PICK q : q = [r EXCEPT !.stage = "answered", !.answer = "done", !.fields = <<new>>]
    OBVIOUS
  <2>4. /\ q \in Request /\ q.win = r.win /\ q.kind = r.kind /\ q.fields = <<new>>
        /\ q.heard = r.heard /\ q.stage = "answered" /\ q.answer = "done" /\ q.ref = r.ref
    BY <1>6, <2>2, <2>3
  <2>5. Replace(r, q)
    BY <2>1, <2>3
  <2>6. AtEnd(r.ref, c) => Same(ChangedFields(c, q), Append(c, new))
    BY <1>2, <1>7, <2>2, <2>4, AddedSame
  <2> QED
    BY <1>4, <1>7, <2>1, <2>4, <2>5, <2>6
<1>8. CASE /\ r.kind = "attribute" /\ at # 0 /\ UNCHANGED copy
           /\ Replace(r, [r EXCEPT !.stage = "answered", !.answer = "done",
                                   !.fields = <<c[at]>>])
  <2>1. PICK x : x = c[at]
    OBVIOUS
  <2>2. PICK q : q = [r EXCEPT !.stage = "answered", !.answer = "done", !.fields = <<x>>]
    OBVIOUS
  <2>a. at # 0
    BY <1>8
  <2>b. x \in Numbered
    <3> HIDE DEF c, at
    <3> QED
      BY <1>3, <2>1, <2>a
  <2>3. /\ q \in Request /\ q.win = r.win /\ q.kind = r.kind /\ q.fields = <<x>>
        /\ q.heard = r.heard /\ q.stage = "answered" /\ q.answer = "done" /\ q.ref = r.ref
    BY <1>6, <2>2, <2>b
  <2>4. Replace(r, q) /\ c # None
    BY <1>3, <1>8, <2>1, <2>2
  <2>5. ChangedFields(c, q) = c
    BY <1>2, <1>8, <2>1, <2>3, <2>4, ChangedIsDone
  <2> QED
    BY <1>4, <1>8, <2>3, <2>4, <2>5, SameItself
<1>9. CASE /\ r.kind = "remove" /\ at # 0 /\ copy' = [copy EXCEPT ![s] = RemoveAt(c, at)]
           /\ Answer(r, "done")
  <2>1. PICK q : q = [r EXCEPT !.stage = "answered", !.answer = "done"]
    OBVIOUS
  <2>2. /\ q \in Request /\ q.win = r.win /\ q.kind = r.kind
        /\ q.heard = r.heard /\ q.stage = "answered" /\ q.answer = "done" /\ q.ref = r.ref
    BY <1>5, <2>1
  <2>3. Replace(r, q) /\ c # None /\ at = Find(c, q.ref)
    BY <1>3, <1>9, <2>1, <2>2 DEF Answer
  <2>4. ChangedFields(c, q) = RemoveAt(c, at)
    BY <1>2, <1>9, <2>2, <2>3, ChangedIsDone
  <2> HIDE DEF at
  <2>5. PICK d : d = RemoveAt(c, at)
    OBVIOUS
  <2> QED
    BY <1>4, <1>9, <2>2, <2>3, <2>4, <2>5, SameItself
<1>10. CASE /\ r.kind = "move" /\ at # 0 /\ at < Len(c)
            /\ copy' = [copy EXCEPT ![s] = SwapWithNext(c, at)] /\ Answer(r, "done")
  <2>1. PICK q : q = [r EXCEPT !.stage = "answered", !.answer = "done"]
    OBVIOUS
  <2>2. /\ q \in Request /\ q.win = r.win /\ q.kind = r.kind
        /\ q.heard = r.heard /\ q.stage = "answered" /\ q.answer = "done" /\ q.ref = r.ref
    BY <1>5, <2>1
  <2>3. Replace(r, q) /\ c # None /\ at = Find(c, q.ref)
    BY <1>3, <1>10, <2>1, <2>2 DEF Answer
  <2>4. ChangedFields(c, q) = SwapWithNext(c, at)
    BY <1>2, <1>10, <2>2, <2>3, ChangedIsDone
  <2> HIDE DEF at
  <2>5. PICK d : d = SwapWithNext(c, at)
    OBVIOUS
  <2> QED
    BY <1>4, <1>10, <2>2, <2>3, <2>4, <2>5, SameItself
<1>12. CASE /\ r.kind = "move" /\ at # 0 /\ ~(at < Len(c)) /\ UNCHANGED copy
            /\ Answer(r, "done")
  <2>1. PICK q : q = [r EXCEPT !.stage = "answered", !.answer = "done"]
    OBVIOUS
  <2>2. /\ q \in Request /\ q.win = r.win /\ q.kind = r.kind
        /\ q.heard = r.heard /\ q.stage = "answered" /\ q.answer = "done" /\ q.ref = r.ref
    BY <1>5, <2>1
  <2>3. Replace(r, q) /\ c # None /\ at = Find(c, q.ref)
    BY <1>3, <1>12, <2>1, <2>2 DEF Answer
  <2>4. ChangedFields(c, q) = c
    BY <1>2, <1>12, <2>2, <2>3, ChangedIsDone
  <2> QED
    BY <1>4, <1>12, <2>2, <2>3, <2>4, SameItself
<1>11. CASE Answer(r, "error") /\ UNCHANGED copy
  BY <1>1, <1>11, SameItself, AnswerOrder
<1>13. copy' = [copy EXCEPT ![s] = c] => UNCHANGED copy
  BY <1>2 DEF RefsInv, ServerOK
<1> QED
  BY <1>7, <1>8, <1>9, <1>10, <1>11, <1>12, <1>13 DEF Change

LEMMA ServiceOrder ==
  ASSUME EditorInv, RefsInv, RefsInv', OrderInv, NEW r \in requests, Serve(r)
  PROVE  \A t \in Sessions : SessionInv(t)'
<1> USE DEF serverVars, pageVars, historyVars
<1>1. CASE LoginPage(r)
  <2>1. copy[SessionOf[r.win]] = None
    BY <1>1, GoodFields DEF LoginPage, RefsInv, RequestOK, OrderInv, LoginInv
  <2> QED
    BY <1>1, <2>1, AnswerOrder DEF LoginPage
<1>2. CASE CancelSession(r)
  <2>1. /\ copy' = [copy EXCEPT ![SessionOf[r.win]] = None] /\ DOMAIN copy = Sessions
        /\ SessionOf[r.win] \in Sessions
    BY <1>2, GoodFields DEF CancelSession, RefsInv, RequestOK, ServerOK
  <2>2. /\ copy'[SessionOf[r.win]] = None
        /\ \A t \in Sessions : t # SessionOf[r.win] => copy'[t] = copy[t]
    BY <2>1
  <2> QED
    BY <1>2, <2>2, AnswerOrder DEF CancelSession, Reaches, Changes
<1>3. CASE Process(r)
  BY <1>3, SameItself, AnswerOrder DEF Process, Reaches, Changes, Loads
<1> QED
  BY <1>1, <1>2, <1>3, ReadOrder, LoadOrder, CheckOrder, WriteOrder, ChangeOrder DEF Serve

-----------------------------------------------------------------------------
(* What a page does with an answer.                                         *)

\* The form stays as it is, or is gone: the session is idle with what it shows.
LEMMA HeardIsIdle ==
  ASSUME OrderInv, NEW r \in requests, NEW s \in Sessions, s = SessionOf[r.win], Busy(s, r),
         r.stage = "answered", r.answer # "form", ~ChangeDone(r),
         UNCHANGED <<version, loader, expired, copy>>,
         \A w \in Of(s) : form'[w] \in {None, form[w]}
  PROVE  Idle(s)'
<1>1. Of(s)' = Of(s) /\ \A w \in Of(s) : IsCurrent(w)' => IsCurrent(w) /\ form'[w] = form[w]
  BY DEF Of, IsCurrent
<1>2. ASSUME copy[s] # None PROVE \A w \in Of(s) : IsCurrent(w) => Same(form[w].fields, copy[s])
  BY <1>2 DEF Busy, ShownWith
<1>3. ASSUME ~expired[s], NEW w \in Of(s), loader = w, form'[w] # None PROVE IsCurrent(w)'
  <2>1. form'[w] = form[w]
    BY <1>3
  <2>2. r.kind \notin Loads
    <3>1. Stated(r)
      BY DEF OrderInv, LoginInv
    <3> QED
      BY <1>3, <3>1 DEF Stated
  <2>3. IsCurrent(w)
    BY <1>3, <2>1, <2>2 DEF Busy, LoadedWith
  <2> QED
    BY <2>1, <2>3 DEF IsCurrent
<1> QED
  BY <1>1, <1>2, <1>3 DEF Idle

LEMMA HearFormOrder ==
  ASSUME EditorInv, RefsInv, RefsInv', OrderInv, NEW r \in requests, HearForm(r)
  PROVE  \A t \in Sessions : SessionInv(t)'
<1> DEFINE s == SessionOf[r.win]  w == r.win
<1>1. s \in Sessions /\ w \in Of(s) /\ w \in Windows /\ DOMAIN form = Windows
  BY GoodFields DEF RefsInv, RequestOK, PageOK, Of
<1>2. /\ requests' = Done(r) /\ r.stage = "answered" /\ r.answer = "form"
      /\ UNCHANGED <<version, loader, expired, copy, orderly>>
      /\ form' = [form EXCEPT ![w] = [version |-> r.version, fields |-> r.fields]]
  BY DEF HearForm, Arrives, NewForm, serverVars, historyVars
<1>3. /\ form'[w].version = r.version /\ form'[w].fields = r.fields
      /\ \A v \in Windows : v # w => form'[v] = form[v]
  BY <1>1, <1>2
<1>4. ASSUME Busy(s, r) PROVE Idle(s)'
  <2>1. Of(s)' = Of(s) /\ Of(s) \subseteq Windows
    BY DEF Of
  <2>2. ASSUME copy[s] # None, NEW v \in Of(s), IsCurrent(v)'
        PROVE  Same(form'[v].fields, copy[s])
    <3>1. ShownWith(s, r)
      BY <1>4, <2>2 DEF Busy
    <3>2. CASE v = w
      BY <1>2, <1>3, <2>2, <3>1, <3>2 DEF ShownWith, Carries, IsCurrent
    <3>3. CASE v # w
      <4>1. form'[v] = form[v] /\ IsCurrent(v)
        BY <1>2, <1>3, <2>1, <2>2, <3>3 DEF IsCurrent
      <4> QED
        BY <1>2, <3>1, <4>1 DEF ShownWith, ChangeDone
    <3> QED
      BY <3>2, <3>3
  <2>3. ASSUME ~expired[s], NEW v \in Of(s), loader = v, form'[v] # None
        PROVE  IsCurrent(v)'
    <3>1. r.win = v /\ r.version = version
      BY <1>2, <1>4, <2>3 DEF Busy, LoadedWith
    <3> QED
      BY <1>2, <1>3, <2>3, <3>1 DEF IsCurrent
  <2> QED
    BY <1>2, <2>1, <2>2, <2>3 DEF Idle
<1>5. \A v \in Windows : SessionOf[v] # s => form'[v] = form[v]
  BY <1>3
<1> QED
  BY <1>1, <1>2, <1>4, <1>5, DoneRequests, DoneOrder

LEMMA HearChangedOrder ==
  ASSUME EditorInv, RefsInv, EditorInv', RefsInv', OrderInv, NEW r \in requests, HearChanged(r)
  PROVE  \A t \in Sessions : SessionInv(t)'
<1> DEFINE s == SessionOf[r.win]  w == r.win
<1>1. /\ s \in Sessions /\ w \in Of(s) /\ w \in Windows /\ DOMAIN form = Windows /\ Good(r)
      /\ Stated(r)
  BY GoodFields DEF RefsInv, RequestOK, PageOK, Of, OrderInv, LoginInv
<1>2. /\ r.stage = "answered" /\ r.answer \in {"done", "login"} /\ r.kind \in Changes
      /\ UNCHANGED <<version, loader, expired, copy>>
      /\ form' = IF form[w] = None THEN form
                 ELSE [form EXCEPT ![w].fields = ChangedFields(@, r)]
  BY DEF HearChanged, Arrives, serverVars
<1>a. r.kind \notin Loads
  BY <1>2 DEF Loads, Changes
<1>3. \A v \in Windows : v # w => form'[v] = form[v]
  BY <1>1, <1>2
<1>4. ASSUME form[w] # None
      PROVE  /\ form'[w] # None /\ form'[w].version = form[w].version
             /\ form'[w].fields = ChangedFields(form[w].fields, r)
  <2>1. form[w] \in Form /\ form[w].fields \in Seq(Numbered)
    BY <1>1, <1>4 DEF RefsInv, PageOK, Form
  <2>2. ChangedFields(form[w].fields, r) \in Seq(Numbered)
    BY <1>1, <2>1, ChangedIs
  <2>3. PICK f : f = ChangedFields(form[w].fields, r)
    OBVIOUS
  <2>4. form'[w] = [form[w] EXCEPT !.fields = f]
    BY <1>1, <1>2, <1>4, <2>3
  <2>5. form'[w] \in Form /\ form'[w].version = form[w].version /\ form'[w].fields = f
    BY <2>1, <2>2, <2>3, <2>4 DEF Form
  <2> QED
    BY <2>3, <2>5, NoneAssumption
<1>5. ASSUME Busy(s, r) PROVE Idle(s)'
  <2>1. Of(s)' = Of(s) /\ Of(s) \subseteq Windows
    BY DEF Of
  <2>2. \A v \in Of(s) : form'[v] # None => form[v] # None /\ form'[v].version = form[v].version
    BY <1>2, <1>3, <1>4, <2>1
  <2>3. ASSUME copy[s] # None, NEW v \in Of(s), IsCurrent(v)'
        PROVE  Same(form'[v].fields, copy[s])
    <3>1. ShownWith(s, r)
      BY <1>5, <2>3 DEF Busy
    <3>2. ChangeDone(r)
      BY <1>1, <1>2, <2>3 DEF ChangeDone, Stated, OrderInv, LoginInv
    <3>3. IsCurrent(v)
      BY <1>2, <2>2, <2>3 DEF IsCurrent
    <3>4. v = w /\ Same(ChangedFields(form[v].fields, r), copy[s])
      BY <3>1, <3>2, <3>3 DEF ShownWith
    <3> QED
      BY <1>4, <3>3, <3>4 DEF IsCurrent
  <2>4. ASSUME ~expired[s], NEW v \in Of(s), loader = v, form'[v] # None
        PROVE  IsCurrent(v)'
    <3>1. r.answer # "form"
      BY <1>2
    <3>2. IsCurrent(v)
      BY <1>a, <1>5, <2>2, <2>4, <3>1 DEF Busy, LoadedWith
    <3> QED
      BY <1>2, <2>2, <2>4, <3>2 DEF IsCurrent
  <2> QED
    BY <1>2, <2>1, <2>3, <2>4 DEF Idle
<1>6. \A v \in Windows : SessionOf[v] # s => form'[v] = form[v]
  BY <1>3
<1>7. CASE requests' = Done(r) /\ UNCHANGED <<saving, working, ids, orderly>>
  BY <1>1, <1>2, <1>5, <1>6, <1>7, DoneRequests, DoneOrder
<1>8. CASE /\ form[w] # None
           /\ StartSaving(Done(r), w, [fields |-> form'[w].fields,
                          refresh |-> TRUE, silent |-> TRUE, next |-> "none", ref |-> 0])
  <2>1. PICK how : how = [fields |-> form'[w].fields,
                          refresh |-> TRUE, silent |-> TRUE, next |-> "none", ref |-> 0]
    OBVIOUS
  <2>2. StartSaving(Done(r), w, how) /\ how.fields = form'[w].fields
    BY <1>8, <2>1
  <2>3. ASSUME OfPending(Done(r), s) = {}, orderly[s] PROVE Idle(s)'
    <3>1. InSession(s) = {r}
      BY <2>3, DonePending
    <3>2. Busy(s, r)
      BY <1>1, <2>3, <3>1 DEF OrderInv, SessionInv
    <3> QED
      BY <1>5, <3>2
  <2>4. \A t \in Sessions : t # s => OfPending(Done(r), t) = InSession(t)
    BY DonePending
  <2>5. form'[w] # None /\ form'[w].version = form[w].version /\ w \in Windows
    BY <1>1, <1>4, <1>8
  <2>6. UNCHANGED <<version, loader, expired, copy>>
    BY <1>2
  <2> QED
    BY <1>6, <2>2, <2>3, <2>4, <2>5, <2>6, SavingOrder
<1> QED
  BY <1>7, <1>8 DEF HearChanged

LEMMA HearOrder ==
  ASSUME EditorInv, RefsInv, EditorInv', RefsInv', OrderInv, NEW r \in requests, Hear(r)
  PROVE  \A t \in Sessions : SessionInv(t)'
<1> USE DEF serverVars, pageVars, historyVars
<1> DEFINE s == SessionOf[r.win]  w == r.win
<1>0. s \in Sessions /\ w \in Of(s) /\ w \in Windows /\ DOMAIN form = Windows /\ r \in InSession(s)
  BY GoodFields DEF RefsInv, RequestOK, PageOK, Of, InSession
\* An answer after which nothing is sent, with which the form stays or goes.
<1>1. ASSUME r.stage = "answered", r.answer # "form", ~ChangeDone(r),
             UNCHANGED <<version, loader, expired, copy, orderly>>,
             \A t \in Sessions : t # s => InSession(t)' = InSession(t),
             InSession(s) = {r} => InSession(s)' = {},
             \A v \in Windows : v # w => form'[v] = form[v], form'[w] \in {None, form[w]}
      PROVE  \A t \in Sessions : SessionInv(t)'
  <2>1. \A v \in Windows : SessionOf[v] # s => form'[v] = form[v]
    BY <1>1
  <2>2. \A v \in Of(s) : form'[v] \in {None, form[v]}
    BY <1>1 DEF Of
  <2>3. Busy(s, r) => Idle(s)'
    BY <1>0, <1>1, <2>2, HeardIsIdle
  <2> QED
    BY <1>0, <1>1, <2>1, <2>3, DoneOrder
\* A request sent after an answer.
<1>2. ASSUME r.stage = "answered", r.answer # "form", ~ChangeDone(r),
             UNCHANGED <<version, loader, expired, copy, form>>,
             NEW q, SendFrom(Done(r), q), q.win = w, q.heard, q.stage = "sent",
             q.answer = "none", q.kind \notin {"save", "add", "open"}
      PROVE  \A t \in Sessions : SessionInv(t)'
  <2>1. ASSUME OfPending(Done(r), s) = {},
               orderly[s] /\ (q.kind \in Changes => IsCurrent(q.win))
        PROVE  Busy(s, q)'
    <3>1. InSession(s) = {r}
      BY <2>1, DonePending
    <3>2. Busy(s, r)
      BY <1>0, <2>1, <3>1 DEF OrderInv, SessionInv
    <3>3. Idle(s)'
      BY <1>0, <1>2, <3>2, HeardIsIdle
    <3>4. q.kind \in Changes => form'[w] # None /\ form'[w].version = version'
      BY <1>2, <2>1 DEF IsCurrent
    <3> QED
      BY <1>0, <1>2, <3>3, <3>4, SentIsBusy
  <2> QED
    BY <1>0, <1>2, <2>1, DonePending, SendOrder
<1>3. CASE Forget(r)
  <2>1. /\ UNCHANGED <<version, loader, expired, copy, orderly, form>> /\ requests' = Done(r)
        /\ ~r.heard
    BY <1>3 DEF Forget
  <2>2. ~Busy(s, r)
    BY <2>1 DEF Busy
  <2> QED
    BY <1>0, <2>1, <2>2, DoneRequests, DoneOrder
<1>4. CASE HearForm(r)
  BY <1>4, HearFormOrder
<1>5. CASE HearNoForm(r)
  <2>1. /\ requests' = Done(r) /\ r.stage = "answered" /\ r.answer = "login"
        /\ UNCHANGED <<version, loader, expired, copy, orderly>>
        /\ form' = [form EXCEPT ![w] = None]
    BY <1>5 DEF HearNoForm, Arrives
  <2> QED
    BY <1>0, <1>1, <2>1, DoneRequests DEF ChangeDone
<1>6. CASE HearSaved(r)
  <2>1. /\ r.stage = "answered" /\ r.answer = "done" /\ r.kind = "save"
        /\ UNCHANGED <<version, loader, expired, copy, form>>
    BY <1>6 DEF HearSaved, Arrives
  <2>2. ~ChangeDone(r)
    BY <2>1 DEF ChangeDone, Changes
  <2>3. CASE requests' = Done(r) /\ UNCHANGED <<ids, orderly>>
    BY <1>0, <1>1, <2>1, <2>2, <2>3, DoneRequests
  <2>4. CASE /\ r.next \in {"attribute", "process"}
             /\ SendFrom(Done(r), [Blank(r.win, r.next) EXCEPT !.ref = r.ref])
    <3>1. PICK q : q = [Blank(r.win, r.next) EXCEPT !.ref = r.ref]
      OBVIOUS
    <3>2. /\ q.win = w /\ q.heard /\ q.stage = "sent" /\ q.answer = "none"
          /\ q.kind \notin {"save", "add", "open"}
      BY <2>4, <3>1 DEF Blank
    <3> QED
      BY <1>2, <2>1, <2>2, <2>4, <3>1, <3>2
  <2> QED
    BY <1>6, <2>3, <2>4 DEF HearSaved
<1>7. CASE HearAndClose(r)
  <2>1. /\ r.stage = "answered" /\ r.answer \in {"done", "login"} /\ r.kind \in {"save", "cancel"}
        /\ UNCHANGED <<version, loader, expired, copy, orderly>>
        /\ form' = [form EXCEPT ![w] = None]
        /\ requests' = Unheard(w) \ {[r EXCEPT !.heard = FALSE]}
    BY <1>7 DEF HearAndClose, Arrives, Blur
  <2>2. ~ChangeDone(r)
    BY <2>1 DEF ChangeDone, Changes
  <2>3. PICK u : u = [r EXCEPT !.heard = FALSE]
    OBVIOUS
  <2>4. u.win = w
    BY <2>3 DEF RefsInv, RequestOK, Good, Request
  <2>5. \A t \in Sessions : t # s => InSession(t)' = InSession(t)
    <3>1. \A t : InSession(t)' = OfPending(Unheard(w), t) \ {u}
      BY <2>1, <2>3 DEF InSession, OfPending
    <3>2. \A t \in Sessions : t # s => OfPending(Unheard(w), t) = InSession(t)
      BY <1>0, UnheardIs
    <3>3. \A t \in Sessions : t # s => u \notin OfPending(Unheard(w), t)
      BY <2>4 DEF OfPending
    <3> QED
      BY <3>1, <3>2, <3>3
  <2>6. InSession(s) = {r} => InSession(s)' = {}
    <3>1. InSession(s)' = OfPending(Unheard(w), s) \ {u}
      BY <2>1, <2>3 DEF InSession, OfPending
    <3>2. InSession(s) = {r} => OfPending(Unheard(w), s) = {u}
      BY <1>0, <2>3, UnheardIs
    <3> QED
      BY <3>1, <3>2
  <2> QED
    BY <1>0, <1>1, <2>1, <2>2, <2>5, <2>6
<1>8. CASE HearNotSaved(r)
  <2>1. /\ requests' = Done(r) /\ r.stage = "answered" /\ r.answer # "form" /\ r.kind = "save"
        /\ UNCHANGED <<version, loader, expired, copy, orderly, form>>
    BY <1>8 DEF HearNotSaved, Arrives
  <2>2. ~ChangeDone(r)
    BY <2>1 DEF ChangeDone, Changes
  <2> QED
    BY <1>1, <2>1, <2>2, DoneRequests
<1>9. CASE HearChanged(r)
  BY <1>9, HearChangedOrder
<1>10. CASE HearNotChanged(r)
  <2>1. /\ requests' = Done(r) /\ r.stage = "answered" /\ r.answer = "error"
        /\ UNCHANGED <<version, loader, expired, copy, orderly, form>>
    BY <1>10 DEF HearNotChanged, Arrives
  <2>2. ~ChangeDone(r)
    BY <2>1 DEF ChangeDone
  <2> QED
    BY <1>1, <2>1, <2>2, DoneRequests
<1>11. CASE HearProcessed(r)
  <2>1. /\ r.stage = "answered" /\ r.answer # "form" /\ r.kind = "process"
        /\ UNCHANGED <<version, loader, expired, copy, form>>
        /\ SendFrom(Done(r), Blank(r.win, "edit"))
    BY <1>11 DEF HearProcessed, Arrives
  <2>2. ~ChangeDone(r)
    BY <2>1 DEF ChangeDone, Changes
  <2>3. PICK q : q = Blank(r.win, "edit")
    OBVIOUS
  <2>4. /\ q.win = w /\ q.heard /\ q.stage = "sent" /\ q.answer = "none"
        /\ q.kind \notin {"save", "add", "open"}
    BY <2>3 DEF Blank
  <2> QED
    BY <1>2, <2>1, <2>2, <2>3, <2>4
<1> QED
  BY <1>3, <1>4, <1>5, <1>6, <1>7, <1>8, <1>9, <1>10, <1>11 DEF Hear

-----------------------------------------------------------------------------
EditingInv == EditorInv /\ RefsInv /\ OrderInv

LEMMA EditingInit == Init => EditingInv
  BY EditorInit, RefsInit, OrderInit DEF EditingInv

LEMMA EditingNext == EditingInv /\ [Next]_vars => EditingInv'
<1> SUFFICES ASSUME EditorInv, RefsInv, OrderInv, [Next]_vars PROVE EditingInv'
  BY DEF EditingInv
<1>0. EditorInv' /\ RefsInv'
  BY EditorNext, RefsNext
<1>1. LoginInv
  BY DEF OrderInv
<1>2. ASSUME NEW w \in Windows,
             Open(w) \/ Type(w) \/ ClickSave(w) \/ ClickElement(w) \/ ClickCancel(w)
      PROVE  OrderInv'
  <2>1. LoginInv'
    BY <1>1, <1>2, UserLogin
  <2>2. \A t \in Sessions : SessionInv(t)'
    BY <1>0, <1>2, OpenOrder, TypeOrder, ClickOrder
  <2> QED
    BY <2>1, <2>2 DEF OrderInv
<1>3. ASSUME NEW s \in Sessions, Expire(s) PROVE OrderInv'
  <2>1. LoginInv'
    <3>1. requests' = requests /\ \A t \in Sessions : expired[t] => expired'[t]
      BY <1>3 DEF Expire, RefsInv, ServerOK
    <3>2. \A t \in Sessions : expired'[t] => copy'[t] = None
      BY <1>1, <1>3 DEF Expire, RefsInv, ServerOK, LoginInv
    <3> QED
      BY <1>1, <3>1, <3>2, StayHeed, LoginKeeps
  <2>2. \A t \in Sessions : SessionInv(t)'
    BY <1>0, <1>3, ExpireOrder
  <2> QED
    BY <2>1, <2>2 DEF OrderInv
<1>4. ASSUME NEW r \in requests, Serve(r) PROVE OrderInv'
  <2>1. LoginInv'
    BY <1>1, <1>4, ServiceLogin
  <2>2. \A t \in Sessions : SessionInv(t)'
    BY <1>0, <1>4, ServiceOrder
  <2> QED
    BY <2>1, <2>2 DEF OrderInv
<1>5. ASSUME NEW r \in requests, Hear(r) PROVE OrderInv'
  <2>1. LoginInv'
    BY <1>1, <1>5, HearLogin
  <2>2. \A t \in Sessions : SessionInv(t)'
    BY <1>0, <1>5, HearOrder
  <2> QED
    BY <2>1, <2>2 DEF OrderInv
<1>6. ASSUME UNCHANGED vars PROVE OrderInv'
  <2>1. UNCHANGED <<version, loader, copy, expired, requests, orderly, form>>
    BY <1>6 DEF vars, serverVars, pageVars, historyVars
  <2>2. LoginInv'
    <3>1. \A t \in Sessions : expired'[t] => copy'[t] = None
      BY <1>1, <2>1 DEF LoginInv
    <3> QED
      BY <1>1, <2>1, <3>1, StayHeed, LoginKeeps
  <2>3. ASSUME NEW t \in Sessions PROVE SessionInv(t)'
    <3>1. InSession(t)' = InSession(t)
      BY <2>1 DEF InSession
    <3>2. Undisturbed(t)
      BY <2>1, <3>1, SameSet DEF Undisturbed, StillShows
    <3> QED
      BY <1>0, <3>2, UndisturbedKeeps DEF OrderInv
  <2> QED
    BY <2>2, <2>3 DEF OrderInv
<1>7. OrderInv'
  BY <1>2, <1>3, <1>4, <1>5, <1>6 DEF Next, Serve, Hear
<1> QED
  BY <1>0, <1>7 DEF EditingInv

\* Whatever the windows of an orderly session added, removed, moved, saved and
\* loaded again: once all is answered, a form that can be saved shows the
\* elements of the working copy, in order and under their refs
\* (EditorService.js add, remove, move against AjaxEditUtils).
THEOREM FormShowsCopy == EditorSpec => []FormMatchesCopy
<1>1. EditingInv => FormMatchesCopy
  <2> SUFFICES ASSUME EditingInv, NEW w \in Windows, IsCurrent(w), orderly[SessionOf[w]],
                      InSession(SessionOf[w]) = {}, copy[SessionOf[w]] # None
               PROVE  LET s == SessionOf[w]
                          shown(elements) ==
                            [i \in DOMAIN elements |-> <<elements[i].ref, elements[i].el>>]
                      IN  shown(form[w].fields) = shown(copy[s])
    BY DEF FormMatchesCopy
  <2>1. SessionOf[w] \in Sessions /\ w \in Of(SessionOf[w])
    BY WindowAssumption DEF Of
  <2>2. Idle(SessionOf[w])
    BY <2>1 DEF EditingInv, OrderInv, SessionInv
  <2>3. Same(form[w].fields, copy[SessionOf[w]])
    BY <2>1, <2>2 DEF Idle
  <2> QED
    BY <2>3 DEF Same
<1> QED
  BY <1>1, EditingInit, EditingNext, PTL DEF EditorSpec

\* A save that is carried out in an orderly session stores every text and every
\* new translation of the form that was sent, in the element it was shown for:
\* none is skipped by the change map (AjaxEditUtils.applyChangesEmbedded).
THEOREM AcceptedSavesAreStored == EditorSpec => AcceptedIsStored
<1>1. EditingInv /\ [Next]_vars =>
        [\A r \in requests : Write(r) /\ orderly[SessionOf[r.win]] =>
           \A f \in ToSet(r.fields) : \E e \in ToSet(record') :
             e.el = f.el /\ e.text = f.text /\ (f.lang # 0 => f.lang \in e.trans)]_vars
  <2> SUFFICES ASSUME EditingInv, NEW r \in requests, Write(r), orderly[SessionOf[r.win]]
               PROVE  Holds(r.fields, record')
    BY DEF Holds
  <2>1. SessionOf[r.win] \in Sessions /\ r \in InSession(SessionOf[r.win])
    BY GoodFields DEF EditingInv, RefsInv, RequestOK, InSession
  <2>2. Busy(SessionOf[r.win], r)
    BY <2>1 DEF EditingInv, OrderInv, SessionInv
  <2> QED
    BY <2>2 DEF Busy, Write
<1> QED
  BY <1>1, EditingInit, EditingNext, PTL DEF EditorSpec, AcceptedIsStored

\* Who waits for the answers, and whose window loaded the form last, is not
\* refused the save (ConcurrentUpdateEx).
THEOREM OrderlySavesAreTaken == EditorSpec => RefusedForCause
<1>1. EditingInv /\ [Next]_vars =>
        [\A r \in requests :
           Check(r) /\ orderly[SessionOf[r.win]] /\ copy[SessionOf[r.win]] # None
             => \/ loader # r.win
                \/ [r EXCEPT !.stage = "answered", !.answer = "error"] \notin requests']_vars
  <2> SUFFICES ASSUME EditingInv, NEW r \in requests, Check(r), orderly[SessionOf[r.win]],
                      copy[SessionOf[r.win]] # None, loader = r.win
               PROVE  [r EXCEPT !.stage = "answered", !.answer = "error"] \notin requests'
    OBVIOUS
  <2> DEFINE s == SessionOf[r.win]
  <2>1. s \in Sessions /\ r \in InSession(s) /\ r.win \in Of(s) /\ r \in Request
    BY GoodFields DEF EditingInv, RefsInv, RequestOK, InSession, Of
  <2>2. InSession(s) = {r} /\ Busy(s, r)
    BY <2>1 DEF EditingInv, OrderInv, SessionInv
  <2>3. r.stage = "sent" /\ r.kind = "save" /\ ~expired[s]
    BY DEF Check, Reaches
  <2>4. r.version = version
    BY <2>1, <2>2, <2>3 DEF Busy, LoadedWith
  <2>a. ~Strays(r)
    <3>1. Same(r.fields, copy[s])
      BY <2>2, <2>3, <2>4 DEF Busy, ShownWith, Carries
    <3>2. r.fields \in Seq(Numbered) /\ copy[s] \in Seq(Numbered)
      BY <2>1, GoodFields, CopyTyped DEF EditingInv, RefsInv, RequestOK
    <3>3. ASSUME NEW f \in ToSet(r.fields) PROVE Find(copy[s], f.ref) # 0
      <4>1. PICK i \in DOMAIN r.fields : f = r.fields[i]
        BY DEF ToSet
      <4>2. i \in 1..Len(copy[s]) /\ copy[s][i].ref = f.ref
        BY <3>1, <3>2, <4>1 DEF Same
      <4> QED
        BY <3>2, <4>2, FirstIs
    <3> QED
      BY <3>3 DEF Strays
  <2>5. Accept(r)
    BY <2>4, <2>a DEF Check, Refuses
  <2>6. PICK e : e = [r EXCEPT !.stage = "answered", !.answer = "error"]
    OBVIOUS
  <2>7. PICK content : content = Contents(ApplyChanges(copy[s], r.fields)) \o half[s]
    OBVIOUS
  <2>8. PICK q : q = [r EXCEPT !.stage = "checked", !.crossed = FALSE, !.content = content]
    OBVIOUS
  <2>9. requests' = (requests \ {r}) \cup {q}
    BY <2>5, <2>7, <2>8 DEF Accept, Accepted, Replace
  <2>10. e.stage = "answered" /\ e.win = r.win /\ q.stage = "checked"
    BY <2>1, <2>6, <2>8 DEF Request
  <2>11. e \notin requests \ {r}
    BY <2>2, <2>10 DEF InSession
  <2> QED
    BY <2>6, <2>9, <2>10, <2>11
<1> QED
  BY <1>1, EditingInit, EditingNext, PTL DEF EditorSpec, RefusedForCause

=============================================================================
