------------------------------- MODULE Editor -------------------------------
(***************************************************************************)
(* The metadata editor: the pages of the web interface that edit one       *)
(* record (EditorService.js, EditorController.js), and the services that   *)
(* answer them (Update, AjaxEditUtils, GetEditableData, DataManager).      *)
(*                                                                         *)
(* The server keeps, per HTTP session, a working copy whose elements are   *)
(* numbered (the "ref" of an element) and the record as it was when the    *)
(* session began.  A form is loaded from the working copy and sends back   *)
(* the text of its inputs by ref, with the version number it was loaded    *)
(* with; a save with another number than the current one is refused.       *)
(* Adding, removing and moving an element change only the working copy,    *)
(* and carry no version.                                                   *)
(*                                                                         *)
(* An element may have a translation.  One that the record has is an input *)
(* with a ref of its own; for one it has not there is an input "lang_",    *)
(* whose text the save adds to the element of its ref.  What is added so   *)
(* has an empty ref in the working copy until the form is loaded again,    *)
(* and as long as it is there no element can be added: the search for the  *)
(* greatest ref fails over it, half way through.                           *)
(*                                                                         *)
(* Requests are handled in any order and their answers arrive in any       *)
(* order.  A save has three steps on the server: the check, with the       *)
(* update of the working copy; the commit of the record; and for           *)
(* md.edit.save, which forwards to md.edit, the load of a new form, which  *)
(* itself reads the record first and takes a version number later.         *)
(***************************************************************************)
EXTENDS Naturals, FiniteSets, SequencesExt

CONSTANTS
  Windows,      \* browser windows
  Sessions,     \* HTTP sessions
  SessionOf,    \* the session of a window
  Clicks,       \* what users do besides opening the editor and typing
  Schema,       \* the schema of the record
  Initially,    \* number of elements of the record
  MaxRequests,  \* bound: requests sent
  MaxTyped,     \* bound: texts typed, the elements added before included
  MaxExpired,   \* bound: sessions that expire
  None          \* no form, no working copy, no original record

AllClicks == {"save", "switchTab", "silentSave", "process", "close",
              "attribute", "add", "addAndSave", "remove", "move", "cancel"}
Loads     == {"open", "edit"}                   \* md.edit
Changes   == {"add", "attribute", "remove", "move"}  \* md.element.*, md.attribute.*
Kinds     == Loads \cup Changes \cup {"save", "cancel", "process"}
Stages    == {"sent", "checked", "written", "read", "answered"}
Answers   == {"none", "form", "done", "error", "login"}

ASSUME WindowAssumption == SessionOf \in [Windows -> Sessions]
ASSUME ClickAssumption  == Clicks \subseteq AllClicks
ASSUME SchemaAssumption == Schema \in {"iso19139", "iso19139.che"}
ASSUME BoundAssumption  == /\ Initially \in Nat /\ MaxRequests \in Nat
                           /\ MaxTyped \in Nat /\ MaxExpired \in Nat

VARIABLES
  record,    \* the stored record: a sequence of elements with their texts
  version,   \* EditLib.htVersions
  copy,      \* the session property METADATA_EDITING: elements with their refs
  half,      \* elements of the working copy whose addition failed half way
  info,      \* has the working copy its geonet:info?
  before,    \* the session property METADATA_BEFORE_ANY_CHANGES
  expired,   \* sessions whose user is no longer logged in
  form,      \* the form of a window: its version and its elements
  saving,    \* gnCurrentEdit.saving
  working,   \* gnCurrentEdit.working
  loggedOut, \* $scope.isLoggedOut
  requests,  \* requests sent whose answer has not arrived
  ids,       \* requests sent so far
  texts,     \* texts and elements made so far
  saves,     \* history: saves stored so far
  base,      \* history: the saves that a session's working copy has seen
  crossed,   \* history: did a save cross the load of the working copy?
  loader,    \* history: the window whose form took the version last
  orderly    \* history: see SendFrom

serverVars  == <<record, version, copy, half, info, before, expired>>
pageVars    == <<form, saving, working, loggedOut>>
historyVars == <<saves, base, crossed, loader, orderly>>
vars == <<serverVars, pageVars, requests, ids, texts, historyVars>>

Element  == [el : Nat, text : Nat,              \* el: which element it is
             trans : SUBSET Nat]                \* its translations
Numbered == [ref : Nat, el : Nat, text : Nat, trans : SUBSET Nat,
             lang : Nat,        \* in a form: the text of the input "lang_"
             blank : BOOLEAN]   \* in a copy: has a translation an empty ref?
Form     == [version : Nat, fields : Seq(Numbered)]
ASSUME NoneAssumption == None \notin Form
Request  == [id : Nat, win : Windows, kind : Kinds, stage : Stages,
             heard : BOOLEAN,      \* is the page that sent it still there?
             ref : Nat,            \* the element a change is about
             fields : Seq(Numbered), version : Nat,  \* the form sent or answered
             refresh : BOOLEAN, silent : BOOLEAN,
             next : {"none", "close", "attribute", "process", "save"},
             content : Seq(Element),   \* read from, or written to, the record
             seen : Nat, crossed : BOOLEAN,          \* history, see base, crossed
             answer : Answers]

EditorTypeOK ==
  /\ record \in Seq(Element) /\ version \in Nat
  /\ copy \in [Sessions -> Seq(Numbered) \cup {None}]
  /\ half \in [Sessions -> Seq(Element)] /\ info \in [Sessions -> BOOLEAN]
  /\ before \in [Sessions -> Seq(Element) \cup {None}]
  /\ expired \in [Sessions -> BOOLEAN]
  /\ form \in [Windows -> Form \cup {None}]
  /\ saving \in [Windows -> BOOLEAN] /\ working \in [Windows -> BOOLEAN]
  /\ loggedOut \in [Windows -> BOOLEAN]
  /\ requests \subseteq Request
  /\ ids \in Nat /\ texts \in Nat /\ saves \in Nat
  /\ base \in [Sessions -> Nat]
  /\ crossed \in [Sessions -> BOOLEAN] /\ loader \in Windows \cup {None}
  /\ orderly \in [Sessions -> BOOLEAN]

----------------------------------------------------------------------------
\* Elements, refs and forms.

\* EditLib.enumerateTree: the elements are numbered in the order of the document.
Enumerate(content) ==
  [i \in DOMAIN content |->
    [ref |-> i, el |-> content[i].el, text |-> content[i].text,
     trans |-> content[i].trans, lang |-> 0, blank |-> FALSE]]
\* Mutant of Contents: the editing information is not removed.
ContentsWithRefs(elements) == elements
\* EditLib.removeEditingInfo
Contents(elements) ==
  [i \in DOMAIN elements |->
    [el |-> elements[i].el, text |-> elements[i].text, trans |-> elements[i].trans]]
\* EditLib.findElement, $('#gn-el-' + ref): the first, 0 if there is none.
Find(elements, ref) == SelectInSeq(elements, LAMBDA e : e.ref = ref)
\* Mutant of MaximumRef: the number of elements.
NumberOfRefs(elements) == Len(elements)
\* EditLib.findMaximumRef, where every ref is a number.
MaximumRef(elements) ==
  CHOOSE n \in {0} \cup {e.ref : e \in ToSet(elements)} :
    \A e \in ToSet(elements) : e.ref <= n
\* findMaximumRef fails: an empty ref is no number.
Unnumbered(elements) == \E e \in ToSet(elements) : e.blank
\* updatedLocalizedTextElement, for an input that is not empty.  The plugin of
\* iso19139.che gives back no translation where there is one: a second is added.
Translated(e, lang) ==
  LET adds == e.trans = {} \/ Schema = "iso19139.che"
  IN  IF lang = 0 THEN e
      ELSE [e EXCEPT !.trans = IF adds THEN @ \cup {lang} ELSE {lang},
                     !.blank = @ \/ adds]
\* The change map of applyChangesEmbedded: the last input of a ref wins, an
\* input whose ref is not in the working copy is logged and skipped.
ApplyChanges(elements, fields) ==
  [i \in DOMAIN elements |->
    LET at == SelectLastInSeq(fields, LAMBDA f : f.ref = elements[i].ref)
    IN  IF at = 0 THEN elements[i]
        ELSE [Translated(elements[i], fields[at].lang) EXCEPT !.text = fields[at].text]]
\* The same given up half way: only some of the texts and translations.
PartlyChanged(old, new, texted, translated) ==
  [i \in DOMAIN old |->
    [old[i] EXCEPT !.text  = IF i \in texted THEN new[i].text ELSE @,
                   !.trans = IF i \in translated THEN new[i].trans ELSE @,
                   !.blank = IF i \in translated THEN new[i].blank ELSE @]]
\* swapElementEmbedded and the page's move: with the next of its kind.
SwapWithNext(elements, i) ==
  [elements EXCEPT ![i] = elements[i + 1], ![i + 1] = elements[i]]

----------------------------------------------------------------------------
\* Requests.

InSession(s)  == {r \in requests : SessionOf[r.win] = s}
IsCurrent(w)  == form[w] # None /\ form[w].version = version
CanSend       == ids < MaxRequests

Blank(w, kind) ==
  [id |-> ids, win |-> w, kind |-> kind, stage |-> "sent", heard |-> TRUE,
   ref |-> 0, fields |-> <<>>, version |-> 0, refresh |-> FALSE,
   silent |-> FALSE, next |-> "none", content |-> <<>>, seen |-> 0,
   crossed |-> FALSE, answer |-> "none"]

\* A session is orderly as long as its windows wait for the answer of a request
\* before the next one, and change elements only of the form loaded last.
SendFrom(pending, r) ==
  LET s == SessionOf[r.win]
  IN  /\ requests' = pending \cup {r}
      /\ ids' = ids + 1
      /\ orderly' = [orderly EXCEPT ![s] =
           IF \E q \in pending : SessionOf[q.win] = s THEN FALSE
           ELSE \/ r.kind = "open"
                \/ @ /\ (r.kind \in Changes => IsCurrent(r.win))]
Send(r) == SendFrom(requests, r)

\* gnEditor.save: the whole form is serialized when it is called.
StartSaving(pending, w, how) ==
  /\ ~saving[w]
  /\ SendFrom(pending, [Blank(w, "save") EXCEPT
       !.fields = how.fields, !.version = form[w].version, !.refresh = how.refresh,
       !.silent = how.silent, !.next = how.next, !.ref = how.ref])
  /\ saving' = [saving EXCEPT ![w] = ~how.silent]
  /\ working' = [working EXCEPT ![w] = TRUE]

----------------------------------------------------------------------------
\* What users do.

NewElement(el) == [el |-> el, text |-> 0, trans |-> {}]

Init ==
  /\ record = [i \in 1 .. Initially |-> NewElement(i)]
  /\ version = 1
  /\ copy = [s \in Sessions |-> None] /\ before = [s \in Sessions |-> None]
  /\ half = [s \in Sessions |-> <<>>] /\ info = [s \in Sessions |-> TRUE]
  /\ expired = [s \in Sessions |-> FALSE]
  /\ form = [w \in Windows |-> None]
  /\ saving = [w \in Windows |-> FALSE] /\ working = [w \in Windows |-> FALSE]
  /\ loggedOut = [w \in Windows |-> FALSE]
  /\ requests = {} /\ ids = 0 /\ texts = Initially
  /\ saves = 0 /\ base = [s \in Sessions |-> 0]
  /\ crossed = [s \in Sessions |-> FALSE] /\ loader = None
  /\ orderly = [s \in Sessions |-> TRUE]

\* The page is gone: nobody hears the answers to its requests.
Unheard(w) == {IF r.win = w THEN [r EXCEPT !.heard = FALSE] ELSE r : r \in requests}
Blur(w) ==
  /\ form' = [form EXCEPT ![w] = None]
  /\ saving' = [saving EXCEPT ![w] = FALSE]
  /\ working' = [working EXCEPT ![w] = FALSE]
  /\ loggedOut' = [loggedOut EXCEPT ![w] = FALSE]

\* The editor is opened or reloaded: md.edit with starteditingsession=yes.
Open(w) ==
  /\ CanSend
  /\ Blur(w)
  /\ SendFrom(Unheard(w), Blank(w, "open"))
  /\ UNCHANGED <<serverVars, texts, saves, base, crossed, loader>>

\* Nothing keeps a user from typing into the focused field while a save is on
\* its way.  The input "lang_" is there when the form shows no translation, and
\* may be emptied again.
Type(w) ==
  /\ form[w] # None /\ ~loggedOut[w]
  /\ \E i \in DOMAIN form[w].fields :
       \/ /\ texts < Initially + MaxTyped /\ texts' = texts + 1
          /\ \/ form' = [form EXCEPT ![w].fields[i].text = texts + 1]
             \/ /\ form[w].fields[i].trans = {}
                /\ form' = [form EXCEPT ![w].fields[i].lang = texts + 1]
       \/ /\ form[w].fields[i].lang # 0
          /\ form' = [form EXCEPT ![w].fields[i].lang = 0]
          /\ UNCHANGED texts
  /\ UNCHANGED <<serverVars, saving, working, loggedOut, requests, ids, historyVars>>

\* refresh, silent and what the caller does with the answer.
SaveClicks ==
  [save |-> <<FALSE, FALSE, "none">>, switchTab |-> <<TRUE, FALSE, "none">>,
   silentSave |-> <<TRUE, TRUE, "none">>, process |-> <<FALSE, TRUE, "process">>,
   close |-> <<FALSE, FALSE, "close">>, attribute |-> <<FALSE, FALSE, "attribute">>]
ClickSave(w) ==
  /\ form[w] # None /\ ~loggedOut[w] /\ CanSend
  /\ \E c \in Clicks \cap DOMAIN SaveClicks :
       \E ref \in IF c = "attribute" THEN {f.ref : f \in ToSet(form[w].fields)} ELSE {0} :
         StartSaving(requests, w, [fields |-> form[w].fields, refresh |-> SaveClicks[c][1],
                       silent |-> SaveClicks[c][2], next |-> SaveClicks[c][3], ref |-> ref])
  /\ UNCHANGED <<serverVars, form, loggedOut, texts, saves, base, crossed, loader>>

\* The buttons inside the form, which is covered while working.  An element is
\* added after the last one shown.
ClickElement(w) ==
  /\ form[w] # None /\ ~loggedOut[w] /\ ~working[w] /\ CanSend
  /\ \/ \E c \in Clicks \cap {"remove", "move"}, f \in ToSet(form[w].fields) :
          Send([Blank(w, c) EXCEPT !.ref = f.ref])
     \/ \E c \in Clicks \cap {"add", "addAndSave"} :
          Send([Blank(w, "add") EXCEPT
                  !.ref = IF form[w].fields = <<>> THEN 0 ELSE Last(form[w].fields).ref,
                  !.next = IF c = "addAndSave" THEN "save" ELSE "none"])
  /\ UNCHANGED <<serverVars, pageVars, texts, saves, base, crossed, loader>>

ClickCancel(w) ==
  /\ form[w] # None /\ ~loggedOut[w] /\ ~saving[w] /\ "cancel" \in Clicks /\ CanSend
  /\ Send(Blank(w, "cancel"))
  /\ saving' = [saving EXCEPT ![w] = TRUE]
  /\ UNCHANGED <<serverVars, form, working, loggedOut, texts, saves, base, crossed, loader>>

Expire(s) ==
  /\ Cardinality({x \in Sessions : expired[x]}) < MaxExpired
  /\ ~expired[s]
  /\ expired' = [expired EXCEPT ![s] = TRUE]
  /\ copy' = [copy EXCEPT ![s] = None] /\ before' = [before EXCEPT ![s] = None]
  /\ UNCHANGED <<record, version, half, info, pageVars, requests, ids, texts, historyVars>>

----------------------------------------------------------------------------
\* What the services do.

Replace(r, q) == requests' = (requests \ {r}) \cup {q}
Answer(r, a)  == Replace(r, [r EXCEPT !.stage = "answered", !.answer = a])

\* The spring security filter sends everybody who is not logged in to a login page.
LoginPage(r) ==
  /\ r.stage = "sent" /\ expired[SessionOf[r.win]]
  /\ Answer(r, "login")
  /\ UNCHANGED <<serverVars, pageVars, ids, texts, historyVars>>

Reaches(r, kinds) == /\ r.stage = "sent" /\ r.kind \in kinds
                     /\ ~expired[SessionOf[r.win]]

\* GetEditableData: startEditingSession, then the record is read.
Read(r) ==
  LET s == SessionOf[r.win]
  IN  /\ Reaches(r, Loads) \/ r.stage = "written"
      /\ Replace(r, [r EXCEPT !.stage = "read", !.content = record,
                              !.seen = saves, !.crossed = FALSE])
      /\ before' = IF r.kind = "open" THEN [before EXCEPT ![s] = record] ELSE before
      /\ UNCHANGED <<record, version, copy, half, info, expired, pageVars, ids, texts, historyVars>>

\* Mutant of NewVersion: only a new editing session takes a number.
NewVersionOfSession(r) == IF r.kind = "open" THEN version + 1 ELSE version
\* EditLib.getVersion(id, true), which is synchronized.
NewVersion(r) == version + 1

\* getVersionForEditing and setMetadataIntoSession: a new number, and a new copy,
\* all of it numbered.
Load(r) ==
  LET s == SessionOf[r.win]
  IN  /\ r.stage = "read"
      /\ version' = NewVersion(r)
      /\ copy' = [copy EXCEPT ![s] = IF expired[s] THEN None ELSE Enumerate(r.content)]
      /\ half' = [half EXCEPT ![s] = <<>>] /\ info' = [info EXCEPT ![s] = TRUE]
      /\ Replace(r, [r EXCEPT !.stage = "answered", !.answer = "form",
                              !.fields = Enumerate(r.content), !.version = NewVersion(r),
                              !.content = <<>>])
      /\ base' = [base EXCEPT ![s] = r.seen]
      /\ crossed' = [crossed EXCEPT ![s] =
                       r.crossed \/ \E q \in requests : q.stage = "checked"]
      /\ loader' = r.win
      /\ UNCHANGED <<record, before, expired, pageVars, ids, texts, saves, orderly>>

\* Mutant of Refuses: the version is not compared.
RefusesWithoutCopy(r) == copy[SessionOf[r.win]] = None
\* Mutant of Refuses: the version has to be a newer one.
RefusesUnlessNewer(r) == r.version <= version \/ copy[SessionOf[r.win]] = None
\* The version check; without a working copy the service fails.
Refuses(r) == r.version # version \/ copy[SessionOf[r.win]] = None

Accepted(r, changed, stored) ==
  LET s == SessionOf[r.win]
  IN  /\ copy' = [copy EXCEPT ![s] = changed]
      /\ Replace(r, [r EXCEPT !.stage = "checked", !.crossed = FALSE,
                              !.content = Contents(stored) \o half[s]])
\* Mutant of Accept: what is stored is the copy as it was.
AcceptOld(r) == LET old == copy[SessionOf[r.win]]
                IN  Accepted(r, ApplyChanges(old, r.fields), old)
\* The changes to the working copy, which is then stored.
Accept(r) == LET changed == ApplyChanges(copy[SessionOf[r.win]], r.fields)
             IN  Accepted(r, changed, changed)

\* A translation of an element that is not in the working copy ends in an
\* exception, and the changes made so far stay.
Strays(r) == \E f \in ToSet(r.fields) : f.lang # 0 /\ Find(copy[SessionOf[r.win]], f.ref) = 0
Fail(r) ==
  LET s == SessionOf[r.win]
  IN  /\ \E texted \in SUBSET (DOMAIN copy[s]) : \E translated \in SUBSET (DOMAIN copy[s]) :
           copy' = [copy EXCEPT ![s] =
                      PartlyChanged(@, ApplyChanges(@, r.fields), texted, translated)]
      /\ Answer(r, "error")

\* Update without forget, updateContent, applyChangesEmbedded.
Check(r) ==
  /\ Reaches(r, {"save"})
  /\ \/ Refuses(r) /\ Answer(r, "error") /\ UNCHANGED copy
     \/ ~Refuses(r) /\ Strays(r) /\ Fail(r)
     \/ ~Refuses(r) /\ ~Strays(r) /\ Accept(r)
  /\ UNCHANGED <<record, version, half, info, before, expired, pageVars, ids, texts, historyVars>>

\* dataMan.updateMetadata and the end of the transaction.
Write(r) ==
  LET s == SessionOf[r.win]
  IN  /\ r.stage = "checked"
      /\ record' = r.content
      /\ saves' = saves + 1
      /\ base' = [base EXCEPT ![s] = saves + 1]
      /\ requests' =
           {IF q.stage \in {"read", "checked"} THEN [q EXCEPT !.crossed = TRUE] ELSE q
              : q \in requests \ {r}}
           \cup {IF r.refresh THEN [r EXCEPT !.stage = "written"]
                 ELSE [r EXCEPT !.stage = "answered", !.answer = "done", !.content = <<>>]}
      /\ UNCHANGED <<version, copy, half, info, before, expired, pageVars, ids, texts, crossed, loader, orderly>>

\* Mutant of Reattached: a removal does not put geonet:info back.
ReattachedUnlessRemoved(r) == r.kind # "remove"
\* geonet:info is taken from the working copy at first, and put back at last.
Reattached(r) == TRUE

\* addElementEmbedded (the new element is the last of its kind), the same with
\* an attribute, deleteElementEmbedded, swapElementEmbedded.  The first three
\* take geonet:info away while they work, and fail if it is not there.
Change(r) ==
  LET s    == SessionOf[r.win]
      here == copy[s] # None
      at   == IF here THEN Find(copy[s], r.ref) ELSE 0
      new  == Enumerate(<<NewElement(texts + 1)>>)[1]
      Returns(element) == Replace(r, [r EXCEPT !.stage = "answered", !.answer = "done",
                                               !.fields = <<element>>])
      Reattach == info' = [info EXCEPT ![s] = Reattached(r)] /\ UNCHANGED half
      Detach   == info' = [info EXCEPT ![s] = FALSE] /\ Answer(r, "error")
      fails    == \/ ~here
                  \/ r.kind # "move" /\ ~info[s]
                  \/ r.kind \in {"attribute", "move"} /\ at = 0
                  \/ here /\ r.kind = "move" /\ at = Len(copy[s]) /\ half[s] = <<>>
  IN  /\ Reaches(r, Changes)
      /\ \/ /\ r.kind = "add" /\ here /\ info[s] /\ ~Unnumbered(copy[s])
            /\ \E element \in {[new EXCEPT !.ref = MaximumRef(copy[s]) + 1]} :
                 copy' = [copy EXCEPT ![s] = Append(@, element)] /\ Returns(element)
            /\ texts' = texts + 1 /\ Reattach
         \/ /\ r.kind = "add" /\ here /\ info[s] /\ Unnumbered(copy[s])
            /\ half' = [half EXCEPT ![s] = Append(@, NewElement(texts + 1))]
            /\ texts' = texts + 1 /\ Detach /\ UNCHANGED copy
         \/ r.kind = "attribute" /\ at # 0 /\ info[s]
            /\ Returns(copy[s][at]) /\ Reattach /\ UNCHANGED <<copy, texts>>
         \/ r.kind = "remove" /\ at # 0 /\ info[s]
            /\ copy' = [copy EXCEPT ![s] = RemoveAt(@, at)]
            /\ Answer(r, "done") /\ Reattach /\ UNCHANGED texts
         \/ r.kind = "remove" /\ here /\ at = 0 /\ info[s]
            /\ Detach /\ UNCHANGED <<copy, half, texts>>
         \* The last trades places with what was added in half, wherever that is.
         \/ r.kind = "move" /\ at # 0 /\ (at < Len(copy[s]) \/ half[s] # <<>>)
            /\ copy' = [copy EXCEPT ![s] = IF at < Len(@) THEN SwapWithNext(@, at) ELSE @]
            /\ Answer(r, "done") /\ UNCHANGED <<half, info, texts>>
         \/ fails /\ Answer(r, "error") /\ UNCHANGED <<copy, half, info, texts>>
      /\ UNCHANGED <<record, version, before, expired, pageVars, ids, historyVars>>

\* Update with forget and finished: cancelEditingSession, removeMetadataEmbedded.
CancelSession(r) ==
  LET s == SessionOf[r.win]
  IN  /\ Reaches(r, {"cancel"})
      /\ record' = IF before[s] = None THEN record ELSE before[s]
      /\ before' = [before EXCEPT ![s] = None]
      /\ copy' = [copy EXCEPT ![s] = None]
      /\ Answer(r, "done")
      /\ UNCHANGED <<version, half, info, expired, pageVars, ids, texts, historyVars>>

\* md.processing and its like change the stored record, here by an element.
Process(r) ==
  /\ Reaches(r, {"process"})
  /\ record' = Append(record, NewElement(texts + 1))
  /\ texts' = texts + 1
  /\ Answer(r, "done")
  /\ UNCHANGED <<version, copy, half, info, before, expired, pageVars, ids, historyVars>>

Serve(r) == \/ LoginPage(r) \/ Read(r) \/ Load(r) \/ Check(r) \/ Write(r)
            \/ Change(r) \/ CancelSession(r) \/ Process(r)

----------------------------------------------------------------------------
\* What a page does with an answer.

Arrives(r, kinds, answers) ==
  r.stage = "answered" /\ r.heard /\ r.kind \in kinds /\ r.answer \in answers
Done(r) == requests \ {r}

Forget(r) ==
  /\ r.stage = "answered" /\ ~r.heard
  /\ requests' = Done(r)
  /\ UNCHANGED <<serverVars, pageVars, ids, texts, historyVars>>

\* Mutant of NewForm: after a save only the version is taken over.
NewFormOfVersion(r) ==
  [version |-> r.version,
   fields |-> IF r.kind = "save" /\ form[r.win] # None THEN form[r.win].fields ELSE r.fields]
\* The form is replaced, whatever was typed into it.
NewForm(r) == [version |-> r.version, fields |-> r.fields]

\* refreshEditorForm and onFormLoad.
HearForm(r) ==
  /\ Arrives(r, Loads \cup {"save"}, {"form"})
  /\ form' = [form EXCEPT ![r.win] = NewForm(r)]
  /\ saving' = [saving EXCEPT ![r.win] = FALSE]
  /\ working' = [working EXCEPT ![r.win] = @ /\ r.kind # "save"]
  /\ requests' = Done(r)
  /\ UNCHANGED <<serverVars, loggedOut, ids, texts, historyVars>>

\* A login page in the place of the form.
HearNoForm(r) ==
  /\ Arrives(r, Loads, {"login"})
  /\ form' = [form EXCEPT ![r.win] = None]
  /\ saving' = [saving EXCEPT ![r.win] = FALSE]
  /\ requests' = Done(r)
  /\ UNCHANGED <<serverVars, working, loggedOut, ids, texts, historyVars>>

\* The answer of md.edit.saveonly, and what the caller of save does next.
HearSaved(r) ==
  /\ Arrives(r, {"save"}, {"done"})
  /\ saving' = [saving EXCEPT ![r.win] = @ /\ r.silent]
  /\ working' = [working EXCEPT ![r.win] = FALSE]
  /\ \/ r.next = "none" /\ requests' = Done(r) /\ UNCHANGED <<ids, orderly>>
     \/ r.next \in {"attribute", "process"}
        /\ SendFrom(Done(r), [Blank(r.win, r.next) EXCEPT !.ref = r.ref])
  /\ UNCHANGED <<serverVars, form, loggedOut, texts, saves, base, crossed, loader>>

\* closeEditor, after a save or a cancellation: the window goes elsewhere.
HearAndClose(r) ==
  /\ \/ Arrives(r, {"save"}, {"done"}) /\ r.next = "close"
     \/ Arrives(r, {"cancel"}, {"done", "login"})
  /\ Blur(r.win)
  /\ requests' = Unheard(r.win) \ {[r EXCEPT !.heard = FALSE]}
  /\ UNCHANGED <<serverVars, ids, texts, historyVars>>

\* Mutant of StaysSaving: a failed save does not reset the flag.
StaysSavingOnError(r) == TRUE
\* The answer that is a login page leaves saving set.
StaysSaving(r) == r.silent \/ r.answer = "login"

\* save's promise is rejected.  The controller takes every error for a lost
\* login: its condition is the assignment error.msg = 'loggedout'.
HearNotSaved(r) ==
  /\ Arrives(r, {"save"}, {"error", "login"})
  /\ saving' = [saving EXCEPT ![r.win] = @ /\ StaysSaving(r)]
  /\ working' = [working EXCEPT ![r.win] = FALSE]
  /\ loggedOut' = [loggedOut EXCEPT ![r.win] =
                     @ \/ (~r.silent /\ r.next \in {"none", "close"})]
  /\ requests' = Done(r)
  /\ UNCHANGED <<serverVars, form, ids, texts, historyVars>>

\* The fields of a form after the answer of a change; an element that is not
\* there any more is nothing to jQuery.
ChangedFields(fields, r) ==
  LET at == Find(fields, r.ref)
  IN  CASE r.kind = "add" /\ r.answer = "done" /\ (at # 0 \/ r.ref = 0) ->
             InsertAt(fields, at + 1, r.fields[1])
        [] r.kind = "attribute" /\ r.answer = "done" /\ at # 0 ->
             ReplaceAt(fields, at, r.fields[1])
        [] \/ r.kind = "remove" /\ at # 0
           \/ r.kind = "attribute" /\ r.answer = "login" /\ at # 0 -> RemoveAt(fields, at)
        [] r.kind = "move" /\ at \in 1 .. Len(fields) - 1 -> SwapWithNext(fields, at)
        [] OTHER -> fields

HearChanged(r) ==
  /\ Arrives(r, Changes, {"done", "login"})
  /\ form' = IF form[r.win] = None THEN form
             ELSE [form EXCEPT ![r.win].fields = ChangedFields(@, r)]
  /\ \/ /\ r.next = "none" \/ saving[r.win] \/ form[r.win] = None \/ r.answer = "login"
        /\ requests' = Done(r)
        /\ UNCHANGED <<saving, working, ids, orderly>>
     \/ /\ r.next = "save" /\ form[r.win] # None /\ r.answer = "done"
        /\ StartSaving(Done(r), r.win, [fields |-> form'[r.win].fields,
                         refresh |-> TRUE, silent |-> TRUE, next |-> "none", ref |-> 0])
  /\ UNCHANGED <<serverVars, loggedOut, texts, saves, base, crossed, loader>>

\* A change that failed is only rejected to a caller who does not look.
HearNotChanged(r) ==
  /\ Arrives(r, Changes, {"error"})
  /\ requests' = Done(r)
  /\ UNCHANGED <<serverVars, pageVars, ids, texts, historyVars>>

\* runProcessMd loads the record again after the process.
HearProcessed(r) ==
  /\ Arrives(r, {"process"}, {"done", "login"})
  /\ SendFrom(Done(r), Blank(r.win, "edit"))
  /\ UNCHANGED <<serverVars, pageVars, texts, saves, base, crossed, loader>>

Hear(r) == \/ Forget(r) \/ HearForm(r) \/ HearNoForm(r) \/ HearSaved(r)
           \/ HearAndClose(r) \/ HearNotSaved(r) \/ HearChanged(r)
           \/ HearNotChanged(r) \/ HearProcessed(r)

----------------------------------------------------------------------------
Next ==
  \/ \E w \in Windows : \/ Open(w) \/ Type(w) \/ ClickSave(w)
                        \/ ClickElement(w) \/ ClickCancel(w)
  \/ \E s \in Sessions : Expire(s)
  \/ \E r \in requests :
       \/ LoginPage(r) \/ Read(r) \/ Load(r) \/ Check(r) \/ Write(r)
       \/ Change(r) \/ CancelSession(r) \/ Process(r)
       \/ Forget(r) \/ HearForm(r) \/ HearNoForm(r) \/ HearSaved(r)
       \/ HearAndClose(r) \/ HearNotSaved(r) \/ HearChanged(r)
       \/ HearNotChanged(r) \/ HearProcessed(r)

EditorSpec == Init /\ [][Next]_vars
\* The server works on, and answers arrive.
EditorFairSpec == EditorSpec /\ WF_vars(\E r \in requests : Serve(r) \/ Hear(r))

----------------------------------------------------------------------------
\* Whatever was added to a working copy and removed from it, no two of its
\* elements have the same number (EditLib.findMaximumRef, enumerateTree).  This
\* is not said of what has no number: a translation added by a save has an empty
\* ref, an element added in half has none, until the form is loaded again.
RefsAreUnique ==
  \A s \in Sessions : copy[s] # None =>
    \A i, j \in DOMAIN copy[s] : copy[s][i].ref = copy[s][j].ref => i = j

\* The current version belongs to the window that loaded a form last: of all
\* forms shown or on their way, at most one can be saved
\* (EditLib.getVersion, the check of applyChangesEmbedded).
OneFormIsCurrent ==
  /\ \A w \in Windows : IsCurrent(w) => loader = w
  /\ \A r \in requests : r.answer = "form" /\ r.version = version => loader = r.win

\* A form that can be saved shows the elements of its session's working copy
\* under the refs they have there, once every request of the session is
\* answered and if the session was orderly: what is typed next to a label goes
\* to that element (EditorService.js add, remove, move against AjaxEditUtils).
FormMatchesCopy ==
  \A w \in Windows :
    LET s == SessionOf[w]
        shown(elements) == [i \in DOMAIN elements |-> <<elements[i].ref, elements[i].el>>]
    IN  IsCurrent(w) /\ orderly[s] /\ InSession(s) = {} /\ copy[s] # None
          => shown(form[w].fields) = shown(copy[s])

\* A save replaces no save that its session has not seen, unless the two
\* crossed: one was committed while the other was being handled, or while the
\* form of the other was being loaded (the version check of
\* applyChangesEmbedded is not one step with the commit).
NoQuietOverwrite ==
  [][\A r \in requests : Write(r) =>
       LET s == SessionOf[r.win] IN base[s] = saves \/ crossed[s] \/ r.crossed]_vars

\* A save that is carried out stores every text of the form that was sent, in
\* the element it was shown for, if the session was orderly (the change map of
\* applyChangesEmbedded skips what it does not find); a translation too, but
\* not that one was emptied.
AcceptedIsStored ==
  [][\A r \in requests : Write(r) /\ orderly[SessionOf[r.win]] =>
       \A f \in ToSet(r.fields) : \E e \in ToSet(record') :
         e.el = f.el /\ e.text = f.text /\ (f.lang # 0 => f.lang \in e.trans)]_vars

\* What an orderly user adds or removes is refused only as long as a translation
\* of the working copy has no number: nothing else loses geonet:info, or the
\* element (addElementEmbedded, deleteElementEmbedded, findMaximumRef).
ChangesFailForCause ==
  [][\A r \in requests :
       LET s == SessionOf[r.win]
       IN  /\ Change(r) /\ r.kind # "move" /\ orderly[s] /\ copy[s] # None
           /\ ~Unnumbered(copy[s])
           => [r EXCEPT !.stage = "answered", !.answer = "error"] \notin requests']_vars

\* Who waits for the answers and is the last to have opened the record is not
\* refused a save (ConcurrentUpdateEx).
RefusedForCause ==
  [][\A r \in requests : Check(r) /\ orderly[SessionOf[r.win]] /\ copy[SessionOf[r.win]] # None
       => \/ loader # r.win
          \/ [r EXCEPT !.stage = "answered", !.answer = "error"] \notin requests']_vars

\* A page does not stay blocked by a save: gnCurrentEdit.saving and working are
\* reset by some answer, except that saving stays set when the login is lost.
SavesSettle ==
  \A w \in Windows :
    /\ working[w] ~> ~working[w]
    /\ saving[w] ~> ~saving[w] \/ expired[SessionOf[w]]

\* A save never replaces a save its session has not seen (the comment on the
\* version check: "check if the metadata has been modified from last time").
SavesAreKept ==
  [][\A r \in requests : Write(r) => base[SessionOf[r.win]] = saves]_vars

=============================================================================
