-------------------------- MODULE CswHarvest_proofs --------------------------
(***************************************************************************)
(* The harvests of CSW nodes into one catalogue: what a harvest may touch, *)
(* what it removes, and what a change date says of a copy.                 *)
(***************************************************************************)
EXTENDS CswHarvest, FiniteSetTheorems, SequenceTheorems, TLAPS

-----------------------------------------------------------------------------
(* Types.                                                                   *)

\* The answers of a remote catalogue: a uuid is in them at most once.
Answers == {s \in Seq(Uuids) : \A i, j \in 1..Len(s) : s[i] = s[j] => i = j}

Copies  == [id : Nat, date : Time \cup {NoDate}]
Records == [id : Nat, owner : Nodes \cup {NoNode}, date : Time \cup {NoDate},
            content : (Nodes \cup {NoNode}) \X Nat]

RemoteTypes ==
  /\ offer \in [Nodes -> Answers]
  /\ changed \in [Nodes -> [Uuids -> Time]]
  /\ clock \in Time

HarvestTypes ==
  /\ pc \in [Nodes -> PCs]
  /\ found \in [Nodes -> [Uuids -> Time \cup {NoDate}]]
  /\ local \in [Nodes -> [Uuids -> Copies]]
  /\ left \in [Nodes -> SUBSET Uuids]
  /\ current \in [Nodes -> [uuid : Uuids \cup {NoNode}, id : Nat]]
  /\ cancel \in [Nodes -> BOOLEAN]
  /\ gone \in [Nodes -> SUBSET Uuids]
  /\ overlooked \in [Nodes -> SUBSET Uuids]

StartTypes == start \in [Nodes -> 1..Cardinality(Uuids)]

\* What is left to process, and what is retrieved, was found.
RetrievesFound ==
  \A n \in Nodes :
    /\ pc[n] \in {"records", "add", "update"} => left[n] \subseteq Found(n)
    /\ pc[n] \in {"add", "update"} => current[n].uuid \in Found(n)

TypeInv ==
  /\ RemoteTypes
  /\ HarvestTypes
  /\ StartTypes
  /\ catalogue \in [Uuids -> Records]
  /\ disturbed \in 0..MaxDisturbed
  /\ RetrievesFound

LEMMA AnswerFits ==
  ASSUME NEW s \in Answers
  PROVE  /\ Len(s) <= Cardinality(Uuids)
         /\ Cardinality(Uuids) \in Nat
<1>1. s \in [1..Len(s) -> Uuids] /\ Len(s) \in Nat
  BY DEF Answers
<1>2. s \in Injection(1..Len(s), Uuids)
  BY <1>1 DEF Answers, Injection, IsInjective
<1>3. IsFiniteSet(Uuids)
  BY CswAssumption
<1>4. Cardinality(1..Len(s)) = Len(s)
  <2> DEFINE n == Len(s)
  <2>1. 1 \in Int /\ n \in Int /\ n \in Nat
    BY <1>1
  <2> HIDE DEF n
  <2>2. Cardinality(1..n) = IF 1 > n THEN 0 ELSE n - 1 + 1
    BY <2>1, FS_Interval, Zenon
  <2>3. (IF 1 > n THEN 0 ELSE n - 1 + 1) = n
    BY <2>1
  <2> QED
    BY <2>2, <2>3 DEF n
<1>5. Cardinality(1..Len(s)) <= Cardinality(Uuids)
  BY <1>2, <1>3, FS_Injection
<1>6. Cardinality(Uuids) \in Nat
  BY <1>3, FS_CardinalityType
<1> QED
  BY <1>4, <1>5, <1>6

LEMMA AnswersOneMore ==
  ASSUME NEW s \in Answers, NEW u \in Uuids, \A i \in 1..Len(s) : s[i] # u
  PROVE  /\ Append(s, u) \in Answers
         /\ <<u>> \o s \in Answers
         /\ Len(Append(s, u)) = Len(s) + 1 /\ Len(<<u>> \o s) = Len(s) + 1
         /\ \A i \in 1..Len(s) : Append(s, u)[i] = s[i] /\ (<<u>> \o s)[i + 1] = s[i]
         /\ Append(s, u)[Len(s) + 1] = u /\ (<<u>> \o s)[1] = u
<1>1. s \in Seq(Uuids) /\ Len(s) \in Nat /\ \A i, j \in 1..Len(s) : s[i] = s[j] => i = j
  BY DEF Answers
<1>2. /\ Append(s, u) \in Seq(Uuids) /\ Len(Append(s, u)) = Len(s) + 1
      /\ \A i \in 1..Len(s) : Append(s, u)[i] = s[i]
      /\ Append(s, u)[Len(s) + 1] = u
  BY <1>1
<1>3. /\ <<u>> \o s \in Seq(Uuids) /\ Len(<<u>> \o s) = Len(s) + 1
      /\ \A i \in 1..Len(s) + 1 : (<<u>> \o s)[i] = IF i = 1 THEN u ELSE s[i - 1]
  <2>1. <<u>> \in Seq(Uuids) /\ Len(<<u>>) = 1 /\ <<u>>[1] = u
    OBVIOUS
  <2> QED
    BY <1>1, <2>1, ConcatProperties
<1>4. \A i \in 1..Len(s) : (<<u>> \o s)[i + 1] = s[i]
  <2> TAKE i \in 1..Len(s)
  <2>1. i + 1 \in 1..Len(s) + 1 /\ i + 1 # 1 /\ (i + 1) - 1 = i
    BY <1>1
  <2> QED
    BY <1>3, <2>1
<1>5. Append(s, u) \in Answers
  <2> DEFINE a == Append(s, u)
  <2> SUFFICES ASSUME NEW i \in 1..Len(s) + 1, NEW j \in 1..Len(s) + 1, a[i] = a[j] PROVE i = j
    BY <1>2 DEF Answers
  <2>1. \A k \in 1..Len(s) + 1 : a[k] = IF k = Len(s) + 1 THEN u ELSE s[k]
    BY <1>1, <1>2
  <2> HIDE DEF a
  <2> QED
    BY <1>1, <2>1
<1>6. <<u>> \o s \in Answers
  <2> DEFINE a == <<u>> \o s
  <2> SUFFICES ASSUME NEW i \in 1..Len(s) + 1, NEW j \in 1..Len(s) + 1, a[i] = a[j] PROVE i = j
    BY <1>3 DEF Answers
  <2>1. \A k \in 1..Len(s) + 1 : a[k] = IF k = 1 THEN u ELSE s[k - 1]
    BY <1>3
  <2> HIDE DEF a
  <2> QED
    BY <1>1, <2>1
<1> QED
  BY <1>1, <1>2, <1>3, <1>4, <1>5, <1>6

LEMMA AnswersOneLess ==
  ASSUME NEW s \in Answers, NEW i \in 1..Len(s)
  PROVE  Without(s, i) \in Answers
<1> DEFINE a == Without(s, i)
<1>1. s \in Seq(Uuids) /\ Len(s) \in Nat /\ \A k, l \in 1..Len(s) : s[k] = s[l] => k = l
  BY DEF Answers
<1>2. Len(s) - 1 \in Nat /\ \A k \in 1..(Len(s) - 1) : (IF k < i THEN k ELSE k + 1) \in 1..Len(s)
  BY <1>1
<1>3. a \in [1..(Len(s) - 1) -> Uuids]
      /\ \A k \in 1..(Len(s) - 1) : a[k] = s[IF k < i THEN k ELSE k + 1]
  BY <1>1, <1>2 DEF Without
<1> HIDE DEF a
<1>4. a \in Seq(Uuids) /\ Len(a) = Len(s) - 1
  BY <1>2, <1>3
<1>5. \A k, l \in 1..Len(a) : a[k] = a[l] => k = l
  BY <1>1, <1>2, <1>3, <1>4
<1> QED
  BY <1>4, <1>5 DEF Answers, a

LEMMA StampType == \A t \in Time : Stamp(t) \in Time /\ Stamp(t) <= t
<1> SUFFICES ASSUME NEW t \in Time PROVE Stamp(t) \in Time /\ Stamp(t) <= t
  OBVIOUS
<1>1. t \in Nat /\ t <= MaxClock /\ Granularity \in Nat /\ Granularity > 0 /\ MaxClock \in Nat
  BY CswAssumption DEF Time
<1>2. /\ t \div Granularity \in Nat
      /\ t = Granularity * (t \div Granularity) + (t % Granularity)
      /\ t % Granularity \in Nat
  BY <1>1
<1>3. (t \div Granularity) * Granularity \in Nat
  BY <1>1, <1>2
<1>4. (t \div Granularity) * Granularity <= t
  BY <1>1, <1>2, <1>3
<1> QED
  BY <1>1, <1>3, <1>4 DEF Stamp, Time

-----------------------------------------------------------------------------

LEMMA TypeInit ==
  ASSUME Uuids # {}, CswInit
  PROVE  TypeInv
<1>1. Cardinality(Uuids) \in Nat /\ Cardinality(Uuids) > 0
  BY CswAssumption, FS_CardinalityType, FS_EmptySet
<1>2. \A n \in Nodes : offer[n] \in Answers
  <2> TAKE n \in Nodes
  <2> DEFINE Short == UNION {[1..k -> Uuids] : k \in 0..Cardinality(Uuids)}
  <2>0. offer[n] \in Short
    <3> HIDE DEF Short
    <3>1. offer \in [Nodes -> {s \in Short : \A i, j \in DOMAIN s : s[i] = s[j] => i = j}]
      BY DEF CswInit, Short
    <3> QED
      BY <3>1
  <2>1. PICK k \in 0..Cardinality(Uuids) : offer[n] \in [1..k -> Uuids]
    BY <2>0, Zenon
  <2>2. k \in Nat /\ offer[n] \in Seq(Uuids) /\ DOMAIN offer[n] = 1..k /\ Len(offer[n]) = k
    BY <1>1, <2>1
  <2>3. \A i, j \in DOMAIN offer[n] : offer[n][i] = offer[n][j] => i = j
    BY DEF CswInit
  <2> QED
    BY <2>2, <2>3 DEF Answers
<1>3. DOMAIN offer = Nodes /\ offer = [n \in Nodes |-> offer[n]]
  BY DEF CswInit
<1>4. RemoteTypes
  BY <1>2, <1>3, CswAssumption DEF CswInit, RemoteTypes, Time
<1>5. HarvestTypes
  BY CswAssumption DEF CswInit, HarvestTypes, PCs, NothingFound, NoCopy, NoRecord, NoDate, Copies, Time
<1>6. StartTypes
  BY <1>1 DEF CswInit, StartTypes
<1>7. catalogue \in [Uuids -> Records]
  BY DEF CswInit, Records, NoDate
<1>8. disturbed \in 0..MaxDisturbed /\ RetrievesFound
  BY CswAssumption DEF CswInit, RetrievesFound
<1> QED
  BY <1>4, <1>5, <1>6, <1>7, <1>8 DEF TypeInv

\* What the remote catalogues do.
LEMMA RemoteTypeStep ==
  ASSUME TypeInv, NEW n \in Nodes, NEW u \in Uuids, Remote(n, u)
  PROVE  TypeInv'
<1>1. \E op, answers : RemoteStep(n, op, u, answers) /\ answers \in Answers
  <2>1. offer[n] \in Answers
    BY DEF TypeInv, RemoteTypes
  <2>2. CASE u \in Offered(n)
    <3>1. \A i \in 1..Len(offer[n]) : Without(offer[n], i) \in Answers
      BY <2>1, AnswersOneLess
    <3>2. CASE RemoteStep(n, "change", u, offer[n])
      BY <2>1, <3>2
    <3>3. CASE \E i \in 1..Len(offer[n]) : RemoteStep(n, "delete", u, Without(offer[n], i))
      BY <3>1, <3>3
    <3> QED
      BY <2>2, <3>2, <3>3 DEF Remote
  <2>3. CASE u \notin Offered(n)
    <3>1. \A i \in 1..Len(offer[n]) : offer[n][i] # u
      BY <2>3 DEF Offered
    <3>2. Append(offer[n], u) \in Answers /\ <<u>> \o offer[n] \in Answers
      BY <2>1, <3>1, AnswersOneMore
    <3> QED
      BY <2>3, <3>2 DEF Remote
  <2> QED
    BY <2>2, <2>3
<1>2. PICK op, answers : RemoteStep(n, op, u, answers) /\ answers \in Answers
  BY <1>1
<1>3. RemoteTypes'
  BY <1>2, CswAssumption DEF RemoteStep, TypeInv, RemoteTypes, Time
<1>4. gone' \in [Nodes -> SUBSET Uuids] /\ overlooked' \in [Nodes -> SUBSET Uuids]
  <2>1. \A i \in 1..Len(offer[n]) : offer[n][i] \in Uuids
    BY ElementOfSeq DEF TypeInv, RemoteTypes, Answers
  <2>2. Len(offer[n]) \in Nat /\ start[n] \in Nat /\ start[n] >= 1
    BY DEF TypeInv, RemoteTypes, StartTypes, Answers
  <2>3. Shifted(n, u) \subseteq Uuids
    BY <2>1, <2>2 DEF Shifted
  <2> QED
    BY <1>2, <2>3 DEF RemoteStep, TypeInv, HarvestTypes
<1> QED
  BY <1>2, <1>3, <1>4 DEF RemoteStep, searchVars, alignVars, TypeInv, HarvestTypes, StartTypes,
                          RetrievesFound, Found

\* The end of a harvest.
LEMMA EndTypeStep ==
  ASSUME TypeInv, Uuids # {}, NEW n \in Nodes, End(n), UNCHANGED <<remoteVars, gone, overlooked>>,
         catalogue' \in [Uuids -> Records], disturbed' \in 0..MaxDisturbed
  PROVE  TypeInv'
<1>1. Cardinality(Uuids) \in Nat /\ Cardinality(Uuids) > 0
  BY CswAssumption, FS_CardinalityType, FS_EmptySet
<1>2. RemoteTypes'
  BY DEF TypeInv, RemoteTypes, remoteVars
<1>3. HarvestTypes'
  BY CswAssumption DEF End, Goto, TypeInv, HarvestTypes, PCs, NothingFound, NoCopy, NoRecord, NoDate, Copies, Time
<1>4. StartTypes'
  BY <1>1 DEF End, TypeInv, StartTypes
<1>5. RetrievesFound'
  BY DEF End, Goto, TypeInv, HarvestTypes, RetrievesFound, Found
<1> QED
  BY <1>2, <1>3, <1>4, <1>5 DEF TypeInv

\* The end of a search, and its pages.
LEMMA SearchTypeStep ==
  ASSUME TypeInv, NEW n \in Nodes, SearchPage(n) \/ SearchFails(n)
  PROVE  TypeInv'
<1>1. found' \in [Nodes -> [Uuids -> Time \cup {NoDate}]]
  <2>1. CASE SearchFails(n)
    BY <2>1 DEF SearchFails, TypeInv, HarvestTypes, NothingFound
  <2>2. CASE SearchPage(n)
    <3>1. PICK page : Read(n, page)
      BY <2>2 DEF SearchPage
    <3>2. \A u \in Uuids : RemoteDate(n, u) \in Time
      BY StampType DEF RemoteDate, TypeInv, RemoteTypes
    <3>3. found[n] \in [Uuids -> Time \cup {NoDate}]
      BY DEF TypeInv, HarvestTypes
    <3>4. [u \in Uuids |-> IF u \in page /\ found[n][u] = NoDate THEN RemoteDate(n, u) ELSE found[n][u]]
            \in [Uuids -> Time \cup {NoDate}]
      BY <3>2, <3>3
    <3> QED
      BY <3>1, <3>4 DEF Read, TypeInv, HarvestTypes
  <2> QED
    BY <2>1, <2>2
<1>2. StartTypes'
  <2>1. CASE UNCHANGED start
    BY <2>1 DEF TypeInv, StartTypes
  <2>2. CASE start[n] + PageSize <= Len(offer[n]) /\ start' = [start EXCEPT ![n] = @ + PageSize]
    <3>1. offer[n] \in Answers /\ Len(offer[n]) \in Nat
      BY DEF TypeInv, RemoteTypes, Answers
    <3>2. Len(offer[n]) <= Cardinality(Uuids) /\ Cardinality(Uuids) \in Nat
      BY <3>1, AnswerFits
    <3>3. start[n] \in 1..Cardinality(Uuids) /\ PageSize \in Nat
      BY CswAssumption DEF TypeInv, StartTypes
    <3>4. start[n] + PageSize \in 1..Cardinality(Uuids)
      BY <2>2, <3>1, <3>2, <3>3
    <3> QED
      BY <2>2, <3>4 DEF TypeInv, StartTypes
  <2>3. Len(offer[n]) \in Nat /\ start[n] \in Int /\ PageSize \in Nat
    BY CswAssumption DEF TypeInv, RemoteTypes, Answers, StartTypes
  <2> QED
    BY <2>1, <2>2, <2>3 DEF SearchPage, SearchFails, NextPage
<1>3. /\ UNCHANGED <<remoteVars, catalogue, alignVars, cancel, gone>>
      /\ disturbed' = disturbed \/ (disturbed < MaxDisturbed /\ disturbed' = disturbed + 1)
      /\ pc[n] = "search"
      /\ pc' = pc \/ pc' = [pc EXCEPT ![n] = "align"]
  BY DEF SearchPage, SearchFails, NextPage, Goto, Disturb
<1>4. disturbed' \in 0..MaxDisturbed
  BY <1>3, CswAssumption DEF TypeInv
<1>5. pc' \in [Nodes -> PCs]
  BY <1>3 DEF TypeInv, HarvestTypes, PCs
<1>6. \A m \in Nodes : m # n => found'[m] = found[m]
  BY DEF SearchPage, SearchFails, Read, TypeInv, HarvestTypes
<1>7. overlooked' \in [Nodes -> SUBSET Uuids]
  <2>1. Page(n) \subseteq Uuids
    BY ElementOfSeq DEF Page, TypeInv, RemoteTypes, Answers
  <2>2. ASSUME NEW missing \in SUBSET Uuids, overlooked' = [overlooked EXCEPT ![n] = @ \cup missing]
        PROVE  overlooked' \in [Nodes -> SUBSET Uuids]
    BY <2>2 DEF TypeInv, HarvestTypes
  <2>3. CASE SearchFails(n)
    <3>1. overlooked' = [overlooked EXCEPT ![n] = Uuids]
      BY <2>3 DEF SearchFails
    <3> QED
      BY <3>1 DEF TypeInv, HarvestTypes
  <2>4. CASE UNCHANGED overlooked
    BY <2>4 DEF TypeInv, HarvestTypes
  <2>5. CASE SearchPage(n)
    <3>1. \A u \in Page(n) : {u} \subseteq Uuids
      BY <2>1
    <3> QED
      BY <2>2, <2>4, <2>5, <3>1 DEF SearchPage
  <2> QED
    BY <2>3, <2>5
<1>8. RetrievesFound'
  <2> SUFFICES ASSUME NEW m \in Nodes
               PROVE  /\ pc'[m] \in {"records", "add", "update"} => left'[m] \subseteq Found(m)'
                      /\ pc'[m] \in {"add", "update"} => current'[m].uuid \in Found(m)'
    BY DEF RetrievesFound
  <2>1. CASE m = n
    BY <1>3, <2>1 DEF TypeInv, HarvestTypes
  <2>2. CASE m # n
    <3>1. pc'[m] = pc[m] /\ left'[m] = left[m] /\ current'[m] = current[m]
      BY <1>3, <2>2 DEF TypeInv, HarvestTypes, alignVars
    <3>2. Found(m)' = Found(m)
      BY <1>6, <2>2 DEF Found
    <3> QED
      BY <3>1, <3>2 DEF TypeInv, RetrievesFound
  <2> QED
    BY <2>1, <2>2
<1> QED
  BY <1>1, <1>2, <1>3, <1>4, <1>5, <1>7, <1>8 DEF TypeInv, RemoteTypes, HarvestTypes, remoteVars, alignVars

\* The loops of align, apart from what they write to the catalogue.
LEMMA LoopTypeStep ==
  ASSUME TypeInv, NEW n \in Nodes,
         Begin(n) \/ Align(n) \/ KeepOld(n) \/ OldRemoved(n) \/ LookUp(n)
  PROVE  TypeInv'
<1>1. UNCHANGED <<remoteVars, catalogue, searchVars, cancel, disturbed>>
  BY DEF Begin, Align, KeepOld, OldRemoved, LookUp, alignVars, searchVars
<1>2. pc' \in [Nodes -> PCs] /\ left' \in [Nodes -> SUBSET Uuids]
      /\ gone' \in [Nodes -> SUBSET Uuids] /\ overlooked' \in [Nodes -> SUBSET Uuids]
  <2>1. pc' \in [Nodes -> PCs]
    BY DEF Begin, Align, KeepOld, OldRemoved, LookUp, Goto, PCs, TypeInv, HarvestTypes
  <2>2. left' \in [Nodes -> SUBSET Uuids]
    BY DEF Begin, Align, KeepOld, OldRemoved, LookUp, Processed, Found, alignVars, TypeInv, HarvestTypes
  <2>3. gone' \in [Nodes -> SUBSET Uuids] /\ overlooked' \in [Nodes -> SUBSET Uuids]
    <3>1. CASE Begin(n)
      <4>1. gone' = [gone EXCEPT ![n] = Uuids \ Offered(n)] /\ overlooked' = [overlooked EXCEPT ![n] = {}]
        BY <3>1 DEF Begin
      <4> QED
        BY <4>1 DEF TypeInv, HarvestTypes
    <3>2. CASE UNCHANGED <<gone, overlooked>>
      BY <3>2 DEF TypeInv, HarvestTypes
    <3> QED
      BY <3>1, <3>2 DEF Align, KeepOld, OldRemoved, LookUp
  <2> QED
    BY <2>1, <2>2, <2>3
<1>3. local' \in [Nodes -> [Uuids -> Copies]]
  <2>1. CASE Align(n)
    <3>1. \A u \in Uuids : Copy(u) \in Copies
      BY DEF Copy, Copies, Records, TypeInv
    <3>2. NoCopy \in Copies
      BY DEF NoCopy, Copies
    <3> QED
      BY <2>1, <3>1, <3>2 DEF Align, TypeInv, HarvestTypes
  <2>2. CASE UNCHANGED local
    BY <2>2 DEF TypeInv, HarvestTypes
  <2> QED
    BY <2>1, <2>2 DEF Begin, KeepOld, OldRemoved, LookUp, alignVars
<1>4. current' \in [Nodes -> [uuid : Uuids \cup {NoNode}, id : Nat]]
  <2>1. CASE UNCHANGED current
    BY <2>1 DEF TypeInv, HarvestTypes
  <2>2. CASE \E u \in Uuids, i \in Nat : current' = [current EXCEPT ![n] = [uuid |-> u, id |-> i]]
    BY <2>2 DEF TypeInv, HarvestTypes
  <2>3. ASSUME LookUp(n)
        PROVE  UNCHANGED current \/
               \E u \in Uuids, i \in Nat : current' = [current EXCEPT ![n] = [uuid |-> u, id |-> i]]
    <3>1. left[n] \subseteq Uuids /\ 0 \in Nat /\ \A u \in Uuids : catalogue[u].id \in Nat
      BY DEF TypeInv, HarvestTypes, Records
    <3>2. UNCHANGED current \/
          \E u \in left[n] : \/ current' = [current EXCEPT ![n] = [uuid |-> u, id |-> 0]]
                            \/ current' = [current EXCEPT ![n] = [uuid |-> u, id |-> catalogue[u].id]]
      BY <2>3 DEF LookUp
    <3> QED
      BY <3>1, <3>2
  <2> QED
    BY <2>1, <2>2, <2>3 DEF Begin, Align, KeepOld, OldRemoved, alignVars
<1>5. RetrievesFound'
  <2>1. CASE LookUp(n)
    <3>1. /\ pc[n] = "records" /\ left[n] \subseteq Found(n) /\ found' = found
          /\ pc' \in [Nodes -> PCs] /\ \A m \in Nodes : m # n => pc'[m] = pc[m] /\ current'[m] = current[m]
      BY <2>1, <1>2 DEF LookUp, Goto, searchVars, TypeInv, HarvestTypes, RetrievesFound
    <3>2. \A m \in Nodes : left'[m] \subseteq left[m]
      BY <2>1 DEF LookUp, Processed, TypeInv, HarvestTypes
    <3>3. pc'[n] \in {"add", "update"} => current'[n].uuid \in left[n]
      BY <2>1 DEF LookUp, Goto, TypeInv, HarvestTypes
    <3> QED
      BY <3>1, <3>2, <3>3 DEF RetrievesFound, TypeInv, Found
  <2>2. CASE Begin(n) \/ Align(n) \/ KeepOld(n) \/ OldRemoved(n)
    BY <2>2 DEF Begin, Align, KeepOld, OldRemoved, Goto, Processed, alignVars, searchVars, Found, RetrievesFound,
                TypeInv, HarvestTypes
  <2> QED
    BY <2>1, <2>2
<1> QED
  BY <1>1, <1>2, <1>3, <1>4, <1>5 DEF TypeInv, RemoteTypes, HarvestTypes, StartTypes, remoteVars, searchVars

\* A record has been processed.
LEMMA NextRecordTypes ==
  ASSUME TypeInv, NEW n \in Nodes, pc[n] \in {"add", "update"}, NextRecord(n),
         catalogue' \in [Uuids -> Records], disturbed' \in 0..MaxDisturbed
  PROVE  TypeInv'
<1>1. /\ UNCHANGED <<remoteVars, searchVars, local, cancel, gone, overlooked>>
      /\ left' = [left EXCEPT ![n] = @ \ {current[n].uuid}]
      /\ current' = [current EXCEPT ![n] = NoRecord]
      /\ pc' = [pc EXCEPT ![n] = "records"]
  BY DEF NextRecord, Processed, Goto
<1>2. NoRecord \in [uuid : Uuids \cup {NoNode}, id : Nat]
  BY DEF NoRecord
<1>3. RetrievesFound'
  BY <1>1 DEF TypeInv, HarvestTypes, RetrievesFound, Found, searchVars
<1>4. HarvestTypes'
  BY <1>1, <1>2 DEF TypeInv, HarvestTypes, PCs, searchVars
<1> QED
  BY <1>1, <1>3, <1>4 DEF TypeInv, RemoteTypes, StartTypes, remoteVars, searchVars

LEMMA DisturbType == ASSUME NEW kind, TypeInv, Disturb(kind) PROVE disturbed' \in 0..MaxDisturbed
BY CswAssumption DEF TypeInv, Disturb

LEMMA WriteTypeStep ==
  ASSUME TypeInv, NEW n \in Nodes, Add(n) \/ Update(n) \/ Skip(n)
  PROVE  TypeInv'
<1>1. pc[n] \in {"add", "update"} /\ NextRecord(n)
  BY DEF Add, Update, Skip
<1>2. disturbed' \in 0..MaxDisturbed
  <2>1. CASE Add(n) \/ Update(n) \/ UNCHANGED disturbed
    BY <2>1 DEF Add, Update, TypeInv
  <2>2. CASE Skip(n) /\ Disturb("retrieve")
    BY <2>2, DisturbType
  <2> QED
    BY <2>1, <2>2 DEF Skip
<1>3. catalogue' \in [Uuids -> Records]
  <2> DEFINE u == current[n].uuid
  <2>1. u \in Uuids /\ catalogue[u] \in Records
    BY <1>1 DEF TypeInv, RetrievesFound, Found
  <2>2. Content(n, u) \in (Nodes \cup {NoNode}) \X Nat /\ found[n][u] \in Time \cup {NoDate}
    BY <2>1 DEF Content, Time, TypeInv, RemoteTypes, HarvestTypes
  <2>3. CASE Add(n)
    BY <2>1, <2>2, <2>3 DEF Add, Records, TypeInv
  <2>4. CASE Update(n)
    BY <2>1, <2>2, <2>4 DEF Update, Records, TypeInv
  <2>5. CASE Skip(n)
    BY <2>5 DEF Skip, TypeInv
  <2> QED
    BY <2>3, <2>4, <2>5
<1> QED
  BY <1>1, <1>2, <1>3, NextRecordTypes

LEMMA TypeStep ==
  ASSUME Uuids # {}, TypeInv, [CswNext]_cswVars
  PROVE  TypeInv'
<1>1. ASSUME NEW n \in Nodes, HarvestNode(n) PROVE TypeInv'
  <2>1. CASE SearchPage(n) \/ SearchFails(n)
    BY <2>1, SearchTypeStep
  <2>2. CASE Begin(n) \/ Align(n) \/ KeepOld(n) \/ OldRemoved(n) \/ LookUp(n)
    BY <2>2, LoopTypeStep
  <2>3. CASE Add(n) \/ Update(n) \/ Skip(n)
    BY <2>3, WriteTypeStep
  <2>4. CASE NoCapabilities(n)
    BY <2>4, EndTypeStep, DisturbType DEF NoCapabilities, TypeInv
  <2>5. CASE CancelledBeforeSearch(n) \/ Cancelled(n) \/ Aligned(n)
    BY <2>5, EndTypeStep DEF CancelledBeforeSearch, Cancelled, Aligned, TypeInv
  <2>6. CASE RemoveOld(n)
    <3>1. CASE End(n) /\ UNCHANGED catalogue
      BY <2>6, <3>1, EndTypeStep DEF RemoveOld, TypeInv
    <3>2. CASE \E u \in left[n] : /\ catalogue' = [catalogue EXCEPT ![u].owner = NoNode]
                                  /\ Processed(n, u)
                                  /\ UNCHANGED <<pc, searchVars, local, current, cancel>>
      <4>1. catalogue' \in [Uuids -> Records]
        <5>1. PICK u \in left[n] : catalogue' = [catalogue EXCEPT ![u].owner = NoNode]
          BY <3>2
        <5>2. u \in Uuids /\ catalogue[u] \in Records
          BY DEF TypeInv, HarvestTypes
        <5>3. [catalogue[u] EXCEPT !.owner = NoNode] \in Records
          BY <5>2 DEF Records
        <5> QED
          BY <5>1, <5>2, <5>3 DEF TypeInv
      <4>2. left' \in [Nodes -> SUBSET Uuids] /\ \A m \in Nodes : left'[m] \subseteq left[m]
        BY <3>2 DEF Processed, TypeInv, HarvestTypes
      <4>3. UNCHANGED <<remoteVars, pc, searchVars, local, current, cancel, disturbed, gone, overlooked>>
        BY <2>6, <3>2 DEF RemoveOld
      <4>4. RetrievesFound'
        BY <4>2, <4>3 DEF TypeInv, RetrievesFound, Found, searchVars
      <4> QED
        BY <4>1, <4>2, <4>3, <4>4 DEF TypeInv, RemoteTypes, HarvestTypes, StartTypes, remoteVars, searchVars
    <3> QED
      BY <2>6, <3>1, <3>2 DEF RemoveOld
  <2> QED
    BY <1>1, <2>1, <2>2, <2>3, <2>4, <2>5, <2>6 DEF HarvestNode, HarvestGoesOn
<1>2. ASSUME NEW n \in Nodes, Cancel(n) PROVE TypeInv'
  <2>1. disturbed' \in 0..MaxDisturbed
    BY <1>2, DisturbType DEF Cancel
  <2> QED
    BY <1>2, <2>1 DEF Cancel, TypeInv, RemoteTypes, HarvestTypes, StartTypes, RetrievesFound, Found,
                      remoteVars, searchVars, alignVars
<1>3. ASSUME NEW u \in Uuids, UserDeletes(u) PROVE TypeInv'
  <2>1. disturbed' \in 0..MaxDisturbed
    BY <1>3, DisturbType DEF UserDeletes
  <2>2. catalogue' \in [Uuids -> Records]
    BY <1>3 DEF UserDeletes, TypeInv, Records
  <2> QED
    BY <1>3, <2>1, <2>2 DEF UserDeletes, TypeInv, RemoteTypes, HarvestTypes, StartTypes, RetrievesFound, Found,
                            remoteVars, searchVars, alignVars
<1>4. CASE UNCHANGED cswVars
  BY <1>4 DEF cswVars, TypeInv, RemoteTypes, HarvestTypes, StartTypes, RetrievesFound, Found,
              remoteVars, searchVars, alignVars
<1> QED
  BY <1>1, <1>2, <1>3, <1>4, RemoteTypeStep DEF CswNext

\* What is a record stays one, and the bounds of the search are kept, for any
\* nodes, failures and changes (all of CswHarvest.tla).
THEOREM CswTypeCorrect ==
  ASSUME Uuids # {}
  PROVE  CswSpec => []CswTypeOK
<1>1. TypeInv => CswTypeOK
  <2> SUFFICES ASSUME TypeInv PROVE CswTypeOK
    OBVIOUS
  <2>1. \A n \in Nodes : Offered(n) \subseteq Uuids /\ Len(offer[n]) <= Cardinality(Uuids)
    <3> TAKE n \in Nodes
    <3>1. offer[n] \in Answers /\ offer[n] \in Seq(Uuids)
      BY DEF TypeInv, RemoteTypes, Answers
    <3> QED
      BY <3>1, AnswerFits, ElementOfSeq DEF Offered
  <2>2. \A u \in Uuids : /\ catalogue[u].id \in Nat
                         /\ catalogue[u].owner \in Nodes \cup {NoNode}
                         /\ catalogue[u].date \in Time \cup {NoDate}
    BY DEF TypeInv, Records
  <2>3. \A n \in Nodes : current[n].uuid \in Uuids \cup {NoNode} /\ current[n].id \in Nat
    BY DEF TypeInv, HarvestTypes
  <2> QED
    BY <2>1, <2>2, <2>3 DEF CswTypeOK, TypeInv, RemoteTypes, HarvestTypes, StartTypes
<1>2. CswInit => TypeInv
  BY TypeInit
<1>3. TypeInv /\ [CswNext]_cswVars => TypeInv'
  BY TypeStep
<1> QED
  BY <1>1, <1>2, <1>3, PTL DEF CswSpec

-----------------------------------------------------------------------------
(* Who may write a record.                                                  *)

Alone == \A m, n \in Nodes : m = n

\* The ids of a uuid grow, and one that a mapper knows stays the node's own.
IdInv ==
  /\ \A u \in Uuids : Stored(u) => catalogue[u].id > 0
  /\ \A n \in Nodes, u \in Uuids :
       /\ local[n][u].id <= catalogue[u].id
       /\ Stored(u) /\ catalogue[u].id = local[n][u].id => catalogue[u].owner = n

\* What a step of anybody does to a record.
LEMMA CatalogueStep ==
  ASSUME TypeInv, [CswNext]_cswVars, NEW u \in Uuids
  PROVE  \/ catalogue'[u] = catalogue[u]
         \/ UserDeletes(u) /\ catalogue'[u] = [catalogue[u] EXCEPT !.owner = NoNode]
         \/ \E n \in Nodes :
              /\ RemoveOld(n) /\ u \in left[n] \ Found(n)
              /\ Stored(u) /\ catalogue[u].id = local[n][u].id
              /\ catalogue'[u] = [catalogue[u] EXCEPT !.owner = NoNode]
         \/ \E n \in Nodes :
              /\ Update(n) /\ u = current[n].uuid
              /\ Stored(u) /\ catalogue[u].id = current[n].id
              /\ catalogue'[u] = [catalogue[u] EXCEPT !.date = found[n][u], !.content = Content(n, u)]
         \/ \E n \in Nodes :
              /\ Add(n) /\ u = current[n].uuid /\ ~Stored(u)
              /\ catalogue'[u] = [id |-> catalogue[u].id + 1, owner |-> n, date |-> found[n][u],
                                  content |-> Content(n, u)]
<1> DEFINE Goal == \/ catalogue'[u] = catalogue[u]
                   \/ UserDeletes(u) /\ catalogue'[u] = [catalogue[u] EXCEPT !.owner = NoNode]
                   \/ \E n \in Nodes :
                        /\ RemoveOld(n) /\ u \in left[n] \ Found(n)
                        /\ Stored(u) /\ catalogue[u].id = local[n][u].id
                        /\ catalogue'[u] = [catalogue[u] EXCEPT !.owner = NoNode]
                   \/ \E n \in Nodes :
                        /\ Update(n) /\ u = current[n].uuid
                        /\ Stored(u) /\ catalogue[u].id = current[n].id
                        /\ catalogue'[u] = [catalogue[u] EXCEPT !.date = found[n][u], !.content = Content(n, u)]
                   \/ \E n \in Nodes :
                        /\ Add(n) /\ u = current[n].uuid /\ ~Stored(u)
                        /\ catalogue'[u] = [id |-> catalogue[u].id + 1, owner |-> n, date |-> found[n][u],
                                            content |-> Content(n, u)]
<1>0. catalogue \in [Uuids -> Records]
  BY DEF TypeInv
<1>1. ASSUME NEW n \in Nodes, RemoveOld(n) PROVE Goal
  <2>1. CASE UNCHANGED catalogue
    BY <2>1
  <2>2. CASE \E v \in left[n] \ Found(n) : /\ Stored(v) /\ catalogue[v].id = local[n][v].id
                                           /\ catalogue' = [catalogue EXCEPT ![v].owner = NoNode]
    <3>1. PICK v \in left[n] \ Found(n) : /\ Stored(v) /\ catalogue[v].id = local[n][v].id
                                          /\ catalogue' = [catalogue EXCEPT ![v].owner = NoNode]
      BY <2>2
    <3>2. CASE u = v
      BY <1>0, <1>1, <3>1, <3>2
    <3>3. CASE u # v
      BY <1>0, <3>1, <3>3
    <3> QED
      BY <3>2, <3>3
  <2> QED
    BY <1>1, <2>1, <2>2 DEF RemoveOld
<1>2. ASSUME NEW n \in Nodes, Update(n) PROVE Goal
  BY <1>0, <1>2 DEF Update
<1>3. ASSUME NEW n \in Nodes, Add(n) PROVE Goal
  BY <1>0, <1>3 DEF Add
<1>4. ASSUME NEW v \in Uuids, UserDeletes(v) PROVE Goal
  <2>1. catalogue' = [catalogue EXCEPT ![v].owner = NoNode]
    BY <1>4 DEF UserDeletes
  <2>2. CASE u = v
    BY <1>0, <1>4, <2>1, <2>2
  <2>3. CASE u # v
    BY <1>0, <2>1, <2>3
  <2> QED
    BY <2>2, <2>3
<1>5. ASSUME NEW n \in Nodes, HarvestNode(n), ~RemoveOld(n), ~Update(n), ~Add(n)
      PROVE  UNCHANGED catalogue
  BY <1>5 DEF HarvestNode, HarvestGoesOn, Begin, NoCapabilities, CancelledBeforeSearch, SearchPage, SearchFails,
              Align, Cancelled, KeepOld, OldRemoved, LookUp, Skip, Aligned
<1>6. ASSUME NEW n \in Nodes, NEW v \in Uuids, Cancel(n) \/ Remote(n, v) PROVE UNCHANGED catalogue
  BY <1>6 DEF Cancel, Remote, RemoteStep
<1>7. CASE UNCHANGED cswVars
  BY <1>7 DEF cswVars
<1>8. ASSUME NEW n \in Nodes, HarvestNode(n) PROVE Goal
  BY <1>1, <1>2, <1>3, <1>5, <1>8
<1>9. ASSUME NEW n \in Nodes, NEW v \in Uuids, Cancel(n) \/ Remote(n, v) PROVE Goal
  BY <1>6, <1>9
<1> HIDE DEF Goal
<1>10. Goal
  <2>1. CASE CswNext
    <3>1. CASE \E n \in Nodes : HarvestNode(n)
      BY <1>8, <3>1
    <3>2. CASE \E n \in Nodes : Cancel(n)
      BY <1>9, <3>2
    <3>3. CASE \E n \in Nodes, v \in Uuids : Remote(n, v)
      BY <1>9, <3>3
    <3>4. CASE \E v \in Uuids : UserDeletes(v)
      BY <1>4, <3>4
    <3> QED
      BY <2>1, <3>1, <3>2, <3>3, <3>4 DEF CswNext
  <2> QED
    BY <1>7, <2>1 DEF Goal
<1> QED
  BY <1>10 DEF Goal

\* What a step does to a node that does not take it.
LEMMA OtherKeeps ==
  ASSUME TypeInv, NEW n \in Nodes, NEW m \in Nodes, m # n, HarvestNode(m)
  PROVE  /\ pc'[n] = pc[n] /\ start'[n] = start[n] /\ found'[n] = found[n] /\ local'[n] = local[n]
         /\ left'[n] = left[n] /\ current'[n] = current[n]
<1> USE DEF Goto, alignVars, searchVars, TypeInv, HarvestTypes, StartTypes
<1>1. CASE End(m)
  BY <1>1 DEF End
<1>2. CASE SearchPage(m) \/ SearchFails(m)
  BY <1>2 DEF SearchPage, SearchFails, Read, NextPage
<1>3. CASE Begin(m) \/ Align(m) \/ KeepOld(m) \/ OldRemoved(m) \/ LookUp(m)
  BY <1>3 DEF Begin, Align, KeepOld, OldRemoved, LookUp, Processed
<1>4. CASE Add(m) \/ Update(m) \/ Skip(m)
  BY <1>4 DEF Add, Update, Skip, NextRecord, Processed
<1>5. CASE RemoveOld(m) /\ ~End(m)
  BY <1>5 DEF RemoveOld, Processed
<1> QED
  BY <1>1, <1>2, <1>3, <1>4, <1>5 DEF HarvestNode, HarvestGoesOn, NoCapabilities, CancelledBeforeSearch, Cancelled, Aligned

LEMMA OthersKeep ==
  ASSUME TypeInv, [CswNext]_cswVars, NEW n \in Nodes, ~HarvestNode(n)
  PROVE  /\ pc'[n] = pc[n] /\ start'[n] = start[n] /\ found'[n] = found[n] /\ local'[n] = local[n]
         /\ left'[n] = left[n] /\ current'[n] = current[n]
<1>1. ASSUME NEW m \in Nodes, HarvestNode(m)
      PROVE  /\ pc'[n] = pc[n] /\ start'[n] = start[n] /\ found'[n] = found[n] /\ local'[n] = local[n]
             /\ left'[n] = left[n] /\ current'[n] = current[n]
  BY <1>1, OtherKeeps
<1>2. ASSUME NEW m \in Nodes, NEW u \in Uuids, Cancel(m) \/ Remote(m, u) \/ UserDeletes(u)
      PROVE  UNCHANGED <<pc, searchVars, alignVars>>
  BY <1>2 DEF Cancel, Remote, RemoteStep, UserDeletes
<1>3. CASE UNCHANGED cswVars
  BY <1>3 DEF cswVars, searchVars, alignVars
<1>4. CASE \E m \in Nodes : Cancel(m)
  BY <1>4 DEF Cancel, searchVars, alignVars
<1> QED
  BY <1>1, <1>2, <1>3, <1>4 DEF CswNext, searchVars, alignVars

\* A mapper is filled by align, and emptied at the end.
LEMMA LocalStep ==
  ASSUME TypeInv, [CswNext]_cswVars, NEW n \in Nodes
  PROVE  \/ local'[n] = local[n]
         \/ pc'[n] = "idle" /\ local'[n] = [u \in Uuids |-> NoCopy]
         \/ /\ Align(n) /\ UNCHANGED <<catalogue, found>> /\ pc'[n] = "remove"
            /\ local'[n] = [u \in Uuids |-> IF catalogue[u].owner = n THEN Copy(u) ELSE NoCopy]
<1> USE DEF TypeInv, HarvestTypes
<1>1. CASE ~HarvestNode(n)
  BY <1>1, OthersKeep
<1>2. CASE End(n)
  BY <1>2 DEF End, Goto
<1>3. CASE Align(n)
  BY <1>3 DEF Align, Goto, searchVars
<1>4. CASE HarvestNode(n) /\ ~End(n) /\ ~Align(n)
  BY <1>4 DEF HarvestNode, HarvestGoesOn, Begin, NoCapabilities, CancelledBeforeSearch, SearchPage, SearchFails,
              Cancelled, RemoveOld, KeepOld, OldRemoved, LookUp, Add, Update, Skip, NextRecord, Aligned, alignVars
<1> QED
  BY <1>1, <1>2, <1>3, <1>4

LEMMA IdStep ==
  ASSUME TypeInv, IdInv, [CswNext]_cswVars
  PROVE  IdInv'
<1>0. NoNode \notin Nodes /\ catalogue \in [Uuids -> Records]
  BY CswAssumption DEF TypeInv
<1>1. \A u \in Uuids :
        /\ catalogue'[u].id >= catalogue[u].id /\ catalogue'[u].id \in Nat /\ catalogue[u].id \in Nat
        /\ \/ Stored(u) /\ catalogue'[u].id = catalogue[u].id /\ catalogue'[u].owner = catalogue[u].owner
           \/ catalogue'[u].owner = NoNode
           \/ ~Stored(u) /\ catalogue'[u].id = catalogue[u].id + 1
  <2> TAKE u \in Uuids
  <2>1. catalogue[u].id \in Nat /\ catalogue[u] \in Records
    BY <1>0 DEF Records
  <2>2. CASE catalogue'[u] = catalogue[u]
    BY <2>1, <2>2 DEF Stored
  <2>3. CASE catalogue'[u] = [catalogue[u] EXCEPT !.owner = NoNode]
    BY <2>1, <2>3 DEF Records
  <2>4. CASE \E n \in Nodes :
               /\ Stored(u)
               /\ catalogue'[u] = [catalogue[u] EXCEPT !.date = found[n][u], !.content = Content(n, u)]
    BY <2>1, <2>4 DEF Records
  <2>5. CASE \E n \in Nodes :
               /\ ~Stored(u)
               /\ catalogue'[u] = [id |-> catalogue[u].id + 1, owner |-> n, date |-> found[n][u],
                                   content |-> Content(n, u)]
    BY <2>1, <2>5
  <2> QED
    BY <2>2, <2>3, <2>4, <2>5, CatalogueStep
<1>2. ASSUME NEW u \in Uuids, Stored(u)' PROVE catalogue'[u].id > 0
  BY <1>1, <1>2 DEF IdInv, Stored
<1>3. ASSUME NEW n \in Nodes, NEW u \in Uuids
      PROVE  /\ local'[n][u].id <= catalogue'[u].id
             /\ Stored(u)' /\ catalogue'[u].id = local'[n][u].id => catalogue'[u].owner = n
  <2>1. CASE local'[n] = local[n]
    <3>1. local[n][u].id \in Nat /\ local[n][u].id <= catalogue[u].id
      BY DEF TypeInv, HarvestTypes, Copies, IdInv
    <3> QED
      BY <1>1, <2>1, <3>1 DEF IdInv, Stored
  <2>2. CASE local'[n] = [v \in Uuids |-> NoCopy]
    BY <1>1, <1>2, <2>2 DEF NoCopy
  <2>3. CASE UNCHANGED catalogue /\ local'[n] = [v \in Uuids |-> IF catalogue[v].owner = n THEN Copy(v) ELSE NoCopy]
    BY <1>1, <1>2, <2>3 DEF NoCopy, Copy, Stored
  <2> QED
    BY <2>1, <2>2, <2>3, LocalStep
<1> QED
  BY <1>2, <1>3 DEF IdInv

\* The mapper is empty before align.  A record that it knows and that the search
\* has found stays the node's own, or there is only one node.
SnapshotInv ==
  \A n \in Nodes :
    /\ pc[n] \in {"idle", "search", "align"} => \A u \in Uuids : local[n][u] = NoCopy
    /\ pc[n] = "update" => local[n][current[n].uuid].date # NoDate
    /\ \A u \in Found(n) : local[n][u].date # NoDate => catalogue[u].owner = n \/ Alone

LEMMA SnapshotStep ==
  ASSUME TypeInv, IdInv, SnapshotInv, [CswNext]_cswVars,
         "edit" \notin Disturbances \/ Alone
  PROVE  SnapshotInv'
<1> SUFFICES ASSUME NEW n \in Nodes
             PROVE  /\ pc'[n] \in {"idle", "search", "align"} => \A u \in Uuids : local'[n][u] = NoCopy
                    /\ pc'[n] = "update" => local'[n][current'[n].uuid].date # NoDate
                    /\ \A u \in Found(n)' : local'[n][u].date # NoDate => catalogue'[u].owner = n \/ Alone
  BY DEF SnapshotInv, Alone
<1>1. CASE pc'[n] = "idle" /\ local'[n] = [u \in Uuids |-> NoCopy]
  BY <1>1 DEF NoCopy, Found
<1>2. CASE /\ UNCHANGED <<catalogue, found>> /\ pc'[n] = "remove"
           /\ local'[n] = [u \in Uuids |-> IF catalogue[u].owner = n THEN Copy(u) ELSE NoCopy]
  BY <1>2 DEF NoCopy, Found
<1>3. CASE local'[n] = local[n]
  <2>1. /\ pc'[n] \in {"idle", "search", "align"} => pc[n] \in {"idle", "search", "align"}
                                                      \/ \A u \in Uuids : local'[n][u] = NoCopy
        /\ pc'[n] = "update" => \/ pc[n] = "update" /\ current'[n] = current[n]
                                \/ local[n][current'[n].uuid].date # NoDate
        /\ found'[n] = found[n] \/ pc[n] = "search" \/ \A u \in Uuids : local'[n][u] = NoCopy
    <3> USE DEF TypeInv, HarvestTypes
    <3>1. CASE ~HarvestNode(n)
      BY <3>1, OthersKeep
    <3>2. CASE End(n)
      BY <3>2 DEF End, Goto
    <3>3. CASE LookUp(n)
      BY <3>3 DEF LookUp, Goto, MustUpdate, searchVars
    <3>4. CASE SearchPage(n) \/ SearchFails(n)
      BY <3>4 DEF SearchPage, SearchFails, NextPage, Goto
    <3>5. CASE RemoveOld(n) /\ ~End(n)
      BY <3>5 DEF RemoveOld, searchVars
    <3>6. CASE Begin(n) \/ Align(n) \/ KeepOld(n) \/ OldRemoved(n)
      BY <3>6 DEF Begin, Align, KeepOld, OldRemoved, Goto, searchVars
    <3>7. CASE Add(n) \/ Update(n) \/ Skip(n)
      BY <3>7 DEF Add, Update, Skip, NextRecord, Goto, searchVars
    <3> QED
      BY <3>1, <3>2, <3>3, <3>4, <3>5, <3>6, <3>7
         DEF HarvestNode, HarvestGoesOn, NoCapabilities, CancelledBeforeSearch, Cancelled, Aligned
  <2>2. ASSUME NEW u \in Found(n), local[n][u].date # NoDate, ~Alone
        PROVE  catalogue'[u].owner = n
    <3>1. catalogue[u].owner = n /\ Stored(u) /\ u \in Uuids /\ catalogue[u] \in Records
      BY <2>2, CswAssumption DEF SnapshotInv, Stored, Found, TypeInv
    <3>2. ~UserDeletes(u)
      BY <2>2 DEF UserDeletes, Disturb
    <3>3. ASSUME NEW m \in Nodes, u \notin Found(m), catalogue[u].id = local[m][u].id PROVE FALSE
      BY <2>2, <3>1, <3>3 DEF IdInv
    <3> QED
      BY <3>1, <3>2, <3>3, CatalogueStep DEF Records
  <2>3. ASSUME NEW u \in Found(n)', local[n][u].date # NoDate
        PROVE  u \in Found(n)
    BY <1>3, <2>1, <2>3 DEF SnapshotInv, Found, NoCopy
  <2> QED
    BY <1>3, <2>1, <2>2, <2>3 DEF SnapshotInv
<1> QED
  BY <1>1, <1>2, <1>3, LocalStep

\* What a harvest writes or removes is its own.
LEMMA OwnStep ==
  ASSUME TypeInv, IdInv, SnapshotInv, [CswNext]_cswVars, NEW n \in Nodes, NEW u \in Uuids,
         left'[n] # left[n], Stored(u), catalogue[u].owner # n
  PROVE  catalogue'[u] = catalogue[u]
<1>1. \A m \in Nodes : HarvestNode(m) => m = n
  BY OtherKeeps
<1>2. ~UserDeletes(u)
  BY DEF UserDeletes, alignVars
<1>3. ASSUME NEW m \in Nodes, RemoveOld(m), catalogue[u].id = local[m][u].id PROVE FALSE
  <2>1. m = n
    BY <1>1, <1>3 DEF HarvestNode, HarvestGoesOn
  <2> QED
    BY <1>3, <2>1 DEF IdInv
<1>4. ASSUME NEW m \in Nodes, Update(m), u = current[m].uuid PROVE FALSE
  <2>1. m = n
    BY <1>1, <1>4 DEF HarvestNode, HarvestGoesOn
  <2>2. local[n][u].date # NoDate /\ u \in Found(n)
    BY <1>4, <2>1 DEF Update, SnapshotInv, TypeInv, RetrievesFound
  <2>3. catalogue[u].owner \in Nodes
    BY DEF Stored, TypeInv, Records
  <2> QED
    BY <2>2, <2>3 DEF SnapshotInv, Alone
<1> QED
  BY <1>2, <1>3, <1>4, CatalogueStep

LEMMA OwnInit == CswInit => IdInv /\ SnapshotInv
BY CswAssumption DEF CswInit, IdInv, SnapshotInv, Stored, NoCopy, Found, NothingFound, NoDate

\* The layers together.
LEMMA OwnAlways ==
  ASSUME Uuids # {}, "edit" \notin Disturbances \/ Alone
  PROVE  CswSpec => [](TypeInv /\ IdInv /\ SnapshotInv)
<1> DEFINE Inv == TypeInv /\ IdInv /\ SnapshotInv
<1>1. CswInit => Inv
  BY TypeInit, OwnInit
<1>2. Inv /\ [CswNext]_cswVars => Inv'
  BY TypeStep, IdStep, SnapshotStep
<1> QED
  BY <1>1, <1>2, PTL DEF CswSpec

\* A harvest changes and removes only records of its own node (Aligner.java:298),
\* for any nodes with the same uuids and any failures, unless users delete records
\* of a node while others harvest.
THEOREM OwnRecordsAreKept ==
  ASSUME Uuids # {}, "edit" \notin Disturbances \/ Alone
  PROVE  CswSpec => OwnRecordsOnly
<1> DEFINE Inv == TypeInv /\ IdInv /\ SnapshotInv
           Kept == \A n \in Nodes, u \in Uuids :
                     left'[n] # left[n] /\ Stored(u) /\ catalogue[u].owner # n
                       => catalogue'[u] = catalogue[u]
<1>1. Inv /\ [CswNext]_cswVars => [Kept]_cswVars
  BY OwnStep
<1>2. CswSpec => []Inv
  BY OwnAlways
<1> QED
  BY <1>1, <1>2, PTL DEF CswSpec, OwnRecordsOnly

-----------------------------------------------------------------------------
(* What a search finds.                                                     *)

\* The pages that have still to be asked for.
Ahead(n) == {offer[n][i] : i \in start[n]..Len(offer[n])}

\* What a search may lack: what the remote catalogue has been without, and what
\* the search has overlooked.
Missed(n) == gone[n] \cup overlooked[n]

\* What the remote catalogue has offered all the time, and the search has not
\* overlooked, is found or ahead, and in the end found.
SearchInv ==
  \A n \in Nodes :
    /\ pc[n] = "idle" => start[n] = 1
    /\ pc[n] = "search" => Uuids \ Missed(n) \subseteq Found(n) \cup Ahead(n)
    /\ pc[n] \notin {"idle", "search"} => Uuids \ Missed(n) \subseteq Found(n)

\* A remote catalogue that grows, at one of its ends.
LEMMA AheadGrows ==
  ASSUME TypeInv, NEW n \in Nodes, NEW u \in Uuids \ Offered(n),
         NEW a \in {Append(offer[n], u), <<u>> \o offer[n]}, offer'[n] = a, start' = start
  PROVE  Ahead(n) \subseteq Ahead(n)'
<1>1. offer[n] \in Answers /\ Len(offer[n]) \in Nat /\ start[n] \in Nat
  BY DEF TypeInv, RemoteTypes, StartTypes, Answers
<1>2. \A i \in 1..Len(offer[n]) : offer[n][i] # u
  BY DEF Offered
<1>3. /\ Len(Append(offer[n], u)) = Len(offer[n]) + 1 /\ Len(<<u>> \o offer[n]) = Len(offer[n]) + 1
      /\ \A i \in 1..Len(offer[n]) : Append(offer[n], u)[i] = offer[n][i] /\ (<<u>> \o offer[n])[i + 1] = offer[n][i]
  BY <1>1, <1>2, AnswersOneMore
<1>4. ASSUME NEW i \in start[n]..Len(offer[n])
      PROVE  offer[n][i] \in Ahead(n)'
  <2>1. i \in 1..Len(offer[n])
    BY <1>1 DEF TypeInv, StartTypes
  <2>2. CASE a = Append(offer[n], u)
    <3>1. i \in start[n]..Len(a) /\ a[i] = offer[n][i]
      BY <1>1, <1>3, <2>1, <2>2
    <3> QED
      BY <3>1 DEF Ahead
  <2>3. CASE a = <<u>> \o offer[n]
    <3>1. i + 1 \in start[n]..Len(a) /\ a[i + 1] = offer[n][i]
      BY <1>1, <1>3, <2>1, <2>3
    <3> QED
      BY <3>1 DEF Ahead
  <2> QED
    BY <2>2, <2>3
<1> QED
  BY <1>4 DEF Ahead

\* A remote catalogue that loses a record: those after it move up, and the first
\* of the next page out of the pages that are ahead if the record was before it.
LEMMA AheadShrinks ==
  ASSUME TypeInv, NEW n \in Nodes, pc[n] = "search", NEW i \in 1..Len(offer[n]),
         offer'[n] = Without(offer[n], i), start' = start
  PROVE  Ahead(n) \subseteq Ahead(n)' \cup {offer[n][i]} \cup Shifted(n, offer[n][i])
<1>1. Len(offer[n]) \in Nat /\ start[n] \in Nat /\ start[n] >= 1 /\ i \in Nat /\ i >= 1
  BY DEF TypeInv, RemoteTypes, StartTypes, Answers
<1>2. /\ Len(offer'[n]) = Len(offer[n]) - 1
      /\ \A k \in 1..(Len(offer[n]) - 1) : offer'[n][k] = offer[n][IF k < i THEN k ELSE k + 1]
  BY <1>1 DEF Without
<1>3. ASSUME NEW j \in start[n]..Len(offer[n]), j # i, ~(j = start[n] /\ i < j)
      PROVE  offer[n][j] \in Ahead(n)'
  <2>1. CASE j < i
    <3>1. j \in 1..(Len(offer[n]) - 1) /\ j \in start[n]..Len(offer'[n])
      BY <1>1, <1>2, <2>1
    <3> QED
      BY <1>2, <2>1, <3>1 DEF Ahead
  <2>2. CASE j > i
    <3>1. /\ j - 1 \in 1..(Len(offer[n]) - 1) /\ j - 1 \in start[n]..Len(offer'[n])
          /\ ~(j - 1 < i) /\ (j - 1) + 1 = j
      BY <1>1, <1>2, <1>3, <2>2
    <3>2. offer'[n][j - 1] = offer[n][j]
      BY <1>2, <3>1
    <3> QED
      BY <3>1, <3>2 DEF Ahead
  <2> QED
    BY <1>1, <1>3, <2>1, <2>2
<1>4. ASSUME NEW j \in start[n]..Len(offer[n]), j = start[n], i < j
      PROVE  offer[n][j] \in Shifted(n, offer[n][i])
  BY <1>1, <1>4 DEF Shifted
<1> QED
  BY <1>3, <1>4 DEF Ahead

\* What a change of the remote catalogue takes from the pages ahead is missed.
LEMMA RemoteMoves ==
  ASSUME TypeInv, NEW m \in Nodes, NEW u \in Uuids, Remote(m, u), NEW n \in Nodes
  PROVE  /\ Missed(n) \subseteq Missed(n)'
         /\ pc[n] = "search" => Ahead(n) \subseteq Ahead(n)' \cup Missed(n)'
<1>1. ASSUME NEW op, NEW a, RemoteStep(m, op, u, a)
      PROVE  /\ start' = start /\ offer' = [offer EXCEPT ![m] = a]
             /\ Missed(n) \subseteq Missed(n)'
             /\ n = m => offer'[n] = a
             /\ n = m /\ op = "delete" => {u} \cup Shifted(n, u) \subseteq Missed(n)'
  BY <1>1 DEF RemoteStep, searchVars, Missed, TypeInv, HarvestTypes, RemoteTypes
<1>2. PICK op, a :
        /\ RemoteStep(m, op, u, a)
        /\ \/ a = offer[m]
           \/ u \notin Offered(m) /\ a \in {Append(offer[m], u), <<u>> \o offer[m]}
           \/ op = "delete" /\ \E i \in 1..Len(offer[m]) : offer[m][i] = u /\ a = Without(offer[m], i)
  BY DEF Remote
<1>3. CASE m # n \/ a = offer[m]
  BY <1>1, <1>2, <1>3 DEF Ahead, TypeInv, RemoteTypes
<1>4. CASE m = n /\ u \notin Offered(m) /\ a \in {Append(offer[m], u), <<u>> \o offer[m]}
  BY <1>1, <1>2, <1>4, AheadGrows
<1>5. ASSUME m = n, op = "delete", NEW i \in 1..Len(offer[m]), offer[m][i] = u, a = Without(offer[m], i)
      PROVE  /\ Missed(n) \subseteq Missed(n)'
             /\ pc[n] = "search" => Ahead(n) \subseteq Ahead(n)' \cup Missed(n)'
  <2>1. pc[n] = "search" => Ahead(n) \subseteq Ahead(n)' \cup {u} \cup Shifted(n, u)
    BY <1>1, <1>2, <1>5, AheadShrinks
  <2> QED
    BY <1>1, <1>2, <1>5, <2>1
<1> QED
  BY <1>2, <1>3, <1>4, <1>5

\* A page that was read is found, but for a summary that could not be read, and
\* the others are ahead.
LEMMA PageStep ==
  ASSUME TypeInv, NEW n \in Nodes, SearchPage(n)
  PROVE  /\ Missed(n) \subseteq Missed(n)'
         /\ Found(n) \subseteq Found(n)'
         /\ \/ pc'[n] = "align" /\ Ahead(n) \subseteq Found(n)' \cup Missed(n)'
            \/ pc'[n] = "search" /\ Ahead(n) \subseteq Found(n)' \cup Missed(n)' \cup Ahead(n)'
<1>1. /\ offer[n] \in Seq(Uuids) /\ Len(offer[n]) \in Nat
      /\ start[n] \in Nat /\ start[n] >= 1 /\ PageSize \in Nat
  BY CswAssumption DEF TypeInv, RemoteTypes, StartTypes, Answers
<1>2. UNCHANGED <<gone, offer>> /\ NextPage(n) /\ pc[n] = "search"
  BY DEF SearchPage, remoteVars
<1>3. PICK page : Read(n, page) /\ overlooked[n] \subseteq overlooked'[n] /\ Page(n) \subseteq page \cup overlooked'[n]
  <2>1. CASE Read(n, Page(n)) /\ UNCHANGED overlooked
    BY <2>1
  <2>2. ASSUME NEW v \in Page(n), Read(n, Page(n) \ {v}), overlooked' = [overlooked EXCEPT ![n] = @ \cup {v}]
        PROVE  \E page : Read(n, page) /\ overlooked[n] \subseteq overlooked'[n] /\ Page(n) \subseteq page \cup overlooked'[n]
    <3>1. overlooked'[n] = overlooked[n] \cup {v}
      BY <2>2 DEF TypeInv, HarvestTypes
    <3>2. overlooked[n] \subseteq overlooked'[n] /\ Page(n) \subseteq (Page(n) \ {v}) \cup overlooked'[n]
      BY <3>1
    <3> QED
      BY <2>2, <3>2
  <2> QED
    BY <2>1, <2>2 DEF SearchPage
<1>4. \A u \in Uuids : RemoteDate(n, u) # NoDate
  BY StampType DEF RemoteDate, TypeInv, RemoteTypes, Time, NoDate
<1>5. found'[n] = [u \in Uuids |-> IF u \in page /\ found[n][u] = NoDate THEN RemoteDate(n, u) ELSE found[n][u]]
  BY <1>3 DEF Read, TypeInv, HarvestTypes
<1>6. Found(n) \subseteq Found(n)' /\ page \cap Uuids \subseteq Found(n)'
  BY <1>4, <1>5 DEF Found
<1>7. Missed(n) \subseteq Missed(n)' /\ Page(n) \cap Uuids \subseteq Found(n)' \cup Missed(n)'
  BY <1>2, <1>3, <1>6 DEF Missed
<1>8. ASSUME NEW i \in start[n]..Len(offer[n])
      PROVE  /\ offer[n][i] \in Uuids
             /\ i < start[n] + PageSize => offer[n][i] \in Page(n)
  <2>1. i \in 1..Len(offer[n])
    BY <1>1
  <2>2. offer[n][i] \in Uuids
    BY <1>1, <2>1, ElementOfSeq
  <2>3. ASSUME i < start[n] + PageSize PROVE i \in start[n]..start[n] + PageSize - 1
    BY <1>1, <2>1, <2>3
  <2> QED
    BY <2>1, <2>2, <2>3 DEF Page
<1>9. CASE start[n] + PageSize > Len(offer[n])
  <2>1. \A i \in start[n]..Len(offer[n]) : i < start[n] + PageSize
    BY <1>1, <1>9
  <2>2. Ahead(n) \subseteq Found(n)' \cup Missed(n)'
    BY <1>7, <1>8, <2>1 DEF Ahead
  <2>3. pc'[n] = "align"
    BY <1>2, <1>9 DEF NextPage, Goto, TypeInv, HarvestTypes
  <2> QED
    BY <1>6, <1>7, <2>2, <2>3
<1>10. CASE ~(start[n] + PageSize > Len(offer[n]))
  <2>1. start'[n] = start[n] + PageSize /\ pc' = pc
    BY <1>2, <1>10 DEF NextPage, TypeInv, StartTypes
  <2>2. \A i \in start[n]..Len(offer[n]) : i < start[n] + PageSize \/ i \in start'[n]..Len(offer[n])
    BY <1>1, <2>1
  <2>3. \A i \in start[n]..Len(offer[n]) :
           offer[n][i] \in Found(n)' \cup Missed(n)' \/ i \in start'[n]..Len(offer[n])
    BY <1>7, <1>8, <2>2
  <2>4. Ahead(n) \subseteq Found(n)' \cup Missed(n)' \cup Ahead(n)'
    BY <1>2, <2>3 DEF Ahead
  <2> QED
    BY <1>2, <1>6, <1>7, <2>1, <2>4
<1> QED
  BY <1>9, <1>10

LEMMA SearchInit == CswInit => SearchInv
BY DEF CswInit, SearchInv

LEMMA SearchStep ==
  ASSUME TypeInv, SearchInv, [CswNext]_cswVars
  PROVE  SearchInv'
<1> SUFFICES ASSUME NEW n \in Nodes
             PROVE  /\ pc'[n] = "idle" => start'[n] = 1
                    /\ pc'[n] = "search" => Uuids \ Missed(n)' \subseteq Found(n)' \cup Ahead(n)'
                    /\ pc'[n] \notin {"idle", "search"} => Uuids \ Missed(n)' \subseteq Found(n)'
  BY DEF SearchInv
<1> USE DEF Goto, TypeInv, HarvestTypes
<1>1. CASE ~HarvestNode(n)
  <2>1. pc'[n] = pc[n] /\ start'[n] = start[n] /\ Found(n)' = Found(n)
    BY <1>1, OthersKeep DEF Found
  <2>2. /\ Missed(n) \subseteq Missed(n)'
        /\ pc[n] = "search" => Ahead(n) \subseteq Ahead(n)' \cup Missed(n)'
    <3>1. CASE \E m \in Nodes, u \in Uuids : Remote(m, u)
      BY <3>1, RemoteMoves
    <3>2. CASE UNCHANGED offer /\ gone'[n] = gone[n] /\ overlooked'[n] = overlooked[n]
      BY <2>1, <3>2 DEF Ahead, Missed
    <3>3. ASSUME NEW m \in Nodes, HarvestNode(m)
          PROVE  UNCHANGED offer /\ gone'[n] = gone[n] /\ overlooked'[n] = overlooked[n]
      <4>1. m # n
        BY <1>1, <3>3
      <4>2. CASE Begin(m) \/ SearchPage(m) \/ SearchFails(m)
        BY <4>1, <4>2 DEF Begin, SearchPage, SearchFails, remoteVars
      <4>3. CASE HarvestGoesOn(m) /\ ~SearchPage(m) /\ ~SearchFails(m)
        BY <4>3 DEF HarvestGoesOn, NoCapabilities, CancelledBeforeSearch, Align,
                    Cancelled, RemoveOld, KeepOld, OldRemoved, LookUp, Add, Update, Skip, NextRecord, Aligned, remoteVars
      <4> QED
        BY <3>3, <4>2, <4>3 DEF HarvestNode
    <3>4. ASSUME NEW m \in Nodes, Cancel(m)
          PROVE  UNCHANGED offer /\ gone'[n] = gone[n] /\ overlooked'[n] = overlooked[n]
      BY <3>4 DEF Cancel, remoteVars
    <3>5. ASSUME NEW u \in Uuids, UserDeletes(u)
          PROVE  UNCHANGED offer /\ gone'[n] = gone[n] /\ overlooked'[n] = overlooked[n]
      BY <3>5 DEF UserDeletes, remoteVars
    <3>6. CASE UNCHANGED cswVars
      BY <3>2, <3>6 DEF cswVars, remoteVars
    <3> QED
      BY <3>1, <3>2, <3>3, <3>4, <3>5, <3>6 DEF CswNext
  <2> QED
    BY <2>1, <2>2 DEF SearchInv
<1>2. CASE End(n)
  BY <1>2 DEF End, StartTypes
<1>3. CASE Begin(n)
  <2>1. start[n] = 1 /\ start' = start /\ offer' = offer /\ pc'[n] = "search" /\ gone'[n] = Uuids \ Offered(n)
    BY <1>3 DEF Begin, SearchInv, searchVars, remoteVars
  <2>2. Ahead(n)' = Offered(n) /\ Uuids \ Missed(n)' \subseteq Offered(n)
    BY <2>1 DEF Ahead, Offered, Missed
  <2> QED
    BY <2>1, <2>2
<1>4. CASE SearchPage(n)
  <2>1. pc[n] = "search"
    BY <1>4 DEF SearchPage
  <2> QED
    BY <1>4, <2>1, PageStep DEF SearchInv
<1>5. CASE SearchFails(n)
  <2>1. overlooked'[n] = Uuids /\ pc'[n] = "align"
    BY <1>5 DEF SearchFails
  <2> QED
    BY <2>1 DEF Missed
<1>6. CASE /\ pc[n] \notin {"idle", "search"} /\ pc'[n] \notin {"idle", "search"}
           /\ found' = found /\ gone' = gone /\ overlooked' = overlooked
  BY <1>6 DEF SearchInv, Found, Missed
<1>7. CASE Align(n) \/ KeepOld(n) \/ OldRemoved(n) \/ LookUp(n) \/ Add(n) \/ Update(n) \/ Skip(n)
  BY <1>6, <1>7 DEF Align, KeepOld, OldRemoved, LookUp, Add, Update, Skip, NextRecord, searchVars
<1>8. CASE RemoveOld(n) /\ ~End(n)
  BY <1>6, <1>8 DEF RemoveOld, searchVars
<1> QED
  BY <1>1, <1>2, <1>3, <1>4, <1>5, <1>7, <1>8
     DEF HarvestNode, HarvestGoesOn, NoCapabilities, CancelledBeforeSearch, Cancelled, Aligned

\* "remove it locally if it has been removed remotely" (harvesting/index.rst:36),
\* and what else the code removes: for any nodes and pages, changes of the remote
\* catalogues during the search, failures, cancelled harvests and deletions by
\* users, a harvest removes nothing that the remote catalogue has offered all the
\* time, unless the search failed, its summary could not be read, or a record of a
\* page read before was deleted in the middle of the search.
THEOREM OfferedIsKept ==
  ASSUME Uuids # {}
  PROVE  CswSpec => KeepsWhatIsOffered
<1> DEFINE Inv == TypeInv /\ SearchInv
           Kept == \A n \in Nodes, u \in Uuids :
                     left'[n] # left[n] /\ Stored(u) /\ catalogue'[u].owner = NoNode
                       => u \in gone[n] \cup overlooked[n]
<1>1. ASSUME TypeInv, SearchInv, [CswNext]_cswVars, NEW n \in Nodes, NEW u \in Uuids,
             left'[n] # left[n], Stored(u), catalogue'[u].owner = NoNode
      PROVE  u \in gone[n] \cup overlooked[n]
  <2>1. \A m \in Nodes : HarvestNode(m) => m = n
    BY <1>1, OtherKeeps
  <2>2. ~UserDeletes(u) /\ catalogue'[u] # catalogue[u]
    BY <1>1 DEF UserDeletes, alignVars, Stored
  <2>3. catalogue[u] \in Records /\ NoNode \notin Nodes /\ catalogue[u].owner \in Nodes
    BY <1>1, CswAssumption DEF TypeInv, Stored, Records
  <2>4. RemoveOld(n) /\ u \notin Found(n)
    BY <1>1, <2>1, <2>2, <2>3, CatalogueStep DEF HarvestNode, HarvestGoesOn, Records
  <2>5. pc[n] = "remove"
    BY <2>4 DEF RemoveOld
  <2> QED
    BY <1>1, <2>4, <2>5 DEF SearchInv, Missed
<1>2. Inv /\ [CswNext]_cswVars => [Kept]_cswVars
  BY <1>1
<1>3. CswInit => Inv
  BY TypeInit, SearchInit
<1>4. Inv /\ [CswNext]_cswVars => Inv'
  BY TypeStep, SearchStep
<1> QED
  BY <1>2, <1>3, <1>4, PTL DEF CswSpec, KeepsWhatIsOffered

-----------------------------------------------------------------------------
(* Dates and contents.                                                      *)

\* A date that was found is not after the last change, and a node's copy has a
\* content of that node's catalogue that is not older than its date.
DateInv ==
  \A n \in Nodes, u \in Uuids :
    /\ changed[n][u] <= clock
    /\ found[n][u] <= changed[n][u]
    /\ catalogue[u].owner = n =>
         /\ catalogue[u].content[1] = n
         /\ catalogue[u].content[2] <= changed[n][u]
         /\ catalogue[u].date <= catalogue[u].content[2]

LEMMA DateInit == CswInit => DateInv
BY CswAssumption DEF CswInit, DateInv, NothingFound, NoDate

\* Time goes on, and the search writes dates of now.
LEMMA FoundStep ==
  ASSUME Uuids # {}, TypeInv, DateInv, [CswNext]_cswVars, NEW n \in Nodes, NEW u \in Uuids
  PROVE  /\ changed'[n][u] <= clock' /\ changed[n][u] <= changed'[n][u]
         /\ found'[n][u] <= changed'[n][u]
<1>1. /\ changed[n][u] \in Nat /\ clock \in Nat /\ found[n][u] \in Int /\ changed[n][u] <= clock
      /\ found[n][u] <= changed[n][u]
  BY DEF TypeInv, RemoteTypes, HarvestTypes, Time, NoDate, DateInv
<1>2. /\ changed'[n][u] <= clock' /\ changed[n][u] <= changed'[n][u]
      /\ changed'[n][u] = changed[n][u] \/ found' = found
  <2>1. CASE UNCHANGED remoteVars
    BY <1>1, <2>1 DEF remoteVars
  <2>2. ASSUME NEW m \in Nodes, NEW v \in Uuids, Remote(m, v)
        PROVE  /\ changed'[n][u] <= clock' /\ changed[n][u] <= changed'[n][u] /\ found' = found
    <3>1. PICK op, answers : RemoteStep(m, op, v, answers)
      BY <2>2 DEF Remote
    <3>2. clock' = clock + 1 /\ changed' = [changed EXCEPT ![m][v] = clock + 1] /\ found' = found
      BY <3>1 DEF RemoteStep, searchVars
    <3>3. changed'[n][u] = IF m = n /\ v = u THEN clock + 1 ELSE changed[n][u]
      BY <3>2 DEF TypeInv, RemoteTypes
    <3> QED
      BY <1>1, <3>2, <3>3
  <2>3. ASSUME NEW m \in Nodes, HarvestNode(m) PROVE UNCHANGED remoteVars
    BY <2>3 DEF HarvestNode, HarvestGoesOn, Begin, NoCapabilities, CancelledBeforeSearch, SearchPage, SearchFails, Align,
                Cancelled, RemoveOld, KeepOld, OldRemoved, LookUp, Add, Update, Skip, NextRecord, Aligned
  <2>4. ASSUME NEW m \in Nodes, Cancel(m) PROVE UNCHANGED remoteVars
    BY <2>4 DEF Cancel
  <2>5. ASSUME NEW v \in Uuids, UserDeletes(v) PROVE UNCHANGED remoteVars
    BY <2>5 DEF UserDeletes
  <2>6. CASE UNCHANGED cswVars
    BY <2>1, <2>6 DEF cswVars
  <2> QED
    BY <2>1, <2>2, <2>3, <2>4, <2>5, <2>6 DEF CswNext
<1>3. \/ found'[n][u] = found[n][u]
      \/ found'[n][u] = NoDate
      \/ found'[n][u] = RemoteDate(n, u) /\ changed'[n][u] = changed[n][u]
  <2>1. CASE ~HarvestNode(n)
    BY <2>1, OthersKeep
  <2>2. CASE End(n)
    BY <2>2 DEF End, NothingFound, TypeInv, HarvestTypes
  <2>3. CASE SearchPage(n)
    BY <2>3 DEF SearchPage, Read, remoteVars, TypeInv, HarvestTypes
  <2>4. CASE SearchFails(n)
    BY <2>4 DEF SearchFails, NothingFound, TypeInv, HarvestTypes
  <2>5. CASE RemoveOld(n) /\ ~End(n)
    BY <2>5 DEF RemoveOld, searchVars
  <2>6. CASE HarvestNode(n) /\ ~RemoveOld(n) /\ ~End(n) /\ ~SearchPage(n) /\ ~SearchFails(n)
    BY <2>6 DEF HarvestNode, HarvestGoesOn, Begin, NoCapabilities, CancelledBeforeSearch, Align, Cancelled, KeepOld, OldRemoved,
                LookUp, Add, Update, Skip, NextRecord, Aligned, searchVars
  <2> QED
    BY <2>1, <2>2, <2>3, <2>4, <2>5, <2>6
<1>4. RemoteDate(n, u) <= changed[n][u]
  BY StampType DEF RemoteDate, TypeInv, RemoteTypes
<1>5. changed'[n][u] \in Nat
  BY TypeStep DEF TypeInv, RemoteTypes, Time
<1> QED
  BY <1>1, <1>2, <1>3, <1>4, <1>5 DEF NoDate

LEMMA DateStep ==
  ASSUME Uuids # {}, TypeInv, IdInv, SnapshotInv, DateInv, [CswNext]_cswVars
  PROVE  DateInv'
<1> SUFFICES ASSUME NEW n \in Nodes, NEW u \in Uuids, catalogue'[u].owner = n
             PROVE  /\ catalogue'[u].content[1] = n
                    /\ catalogue'[u].content[2] <= changed'[n][u]
                    /\ catalogue'[u].date <= catalogue'[u].content[2]
  BY FoundStep DEF DateInv
<1>1. /\ catalogue[u] \in Records /\ n # NoNode /\ changed[n][u] <= changed'[n][u]
      /\ changed[n][u] \in Nat /\ changed'[n][u] \in Nat /\ found[n][u] <= changed[n][u]
      /\ catalogue[u].content[2] \in Nat
  BY CswAssumption, FoundStep, TypeStep DEF TypeInv, RemoteTypes, Time, DateInv, Records
<1>2. CASE catalogue'[u] = catalogue[u]
  BY <1>1, <1>2 DEF DateInv
<1>3. CASE catalogue'[u] = [catalogue[u] EXCEPT !.owner = NoNode]
  BY <1>1, <1>3 DEF Records
<1>4. ASSUME NEW m \in Nodes, Update(m), u = current[m].uuid, Stored(u),
             catalogue'[u] = [catalogue[u] EXCEPT !.date = found[m][u], !.content = Content(m, u)]
      PROVE  m = n
  <2>1. local[m][u].date # NoDate /\ u \in Found(m)
    BY <1>4 DEF Update, SnapshotInv, TypeInv, RetrievesFound
  <2>2. catalogue[u].owner = m \/ Alone
    BY <2>1 DEF SnapshotInv
  <2>3. catalogue[u].owner = n
    BY <1>1, <1>4 DEF Records
  <2> QED
    BY <2>2, <2>3 DEF Alone
<1>5. ASSUME catalogue'[u].content = <<n, changed[n][u]>>, catalogue'[u].date = found[n][u]
      PROVE  /\ catalogue'[u].content[1] = n
             /\ catalogue'[u].content[2] <= changed'[n][u]
             /\ catalogue'[u].date <= catalogue'[u].content[2]
  BY <1>1, <1>5
<1>6. ASSUME NEW m \in Nodes, Update(m), u = current[m].uuid, Stored(u),
             catalogue'[u] = [catalogue[u] EXCEPT !.date = found[m][u], !.content = Content(m, u)]
      PROVE  catalogue'[u].content = <<n, changed[n][u]>> /\ catalogue'[u].date = found[n][u]
  <2>1. m = n
    BY <1>4, <1>6
  <2> QED
    BY <1>1, <1>6, <2>1 DEF Content, Records
<1>7. ASSUME NEW m \in Nodes,
             catalogue'[u] = [id |-> catalogue[u].id + 1, owner |-> m, date |-> found[m][u], content |-> Content(m, u)]
      PROVE  catalogue'[u].content = <<n, changed[n][u]>> /\ catalogue'[u].date = found[n][u]
  BY <1>7 DEF Content
<1> QED
  BY <1>2, <1>3, <1>5, <1>6, <1>7, CatalogueStep

\* The date of an outdated copy tells that it is, for any nodes, changes and
\* failures, if remote dates tell any two changes apart and users do not delete
\* records of a node while others harvest.
THEOREM DatesTellChanges ==
  ASSUME Uuids # {}, Granularity = 1, "edit" \notin Disturbances \/ Alone
  PROVE  CswSpec => []DateTellsChange
<1> DEFINE Own == TypeInv /\ IdInv /\ SnapshotInv
<1>1. TypeInv /\ DateInv => DateTellsChange
  <2> SUFFICES ASSUME TypeInv, DateInv, NEW n \in Nodes, NEW u \in Uuids, catalogue[u].owner = n,
                      catalogue[u].content # Content(n, u)
               PROVE  MoreRecent(RemoteDate(n, u), catalogue[u].date)
    BY DEF DateTellsChange
  <2>1. /\ changed[n][u] \in Nat /\ catalogue[u].date \in Int /\ Day \in Nat /\ Day > 0
        /\ catalogue[u].content \in (Nodes \cup {NoNode}) \X Nat
    BY CswAssumption DEF TypeInv, RemoteTypes, Records, Time, NoDate
  <2>2. catalogue[u].content = <<n, catalogue[u].content[2]>> /\ catalogue[u].content[2] \in Nat
    BY <2>1 DEF DateInv
  <2>3. catalogue[u].content[2] < changed[n][u]
    BY <2>1, <2>2 DEF DateInv, Content
  <2>4. catalogue[u].date < changed[n][u]
    BY <2>1, <2>2, <2>3 DEF DateInv
  <2>5. RemoteDate(n, u) = changed[n][u]
    BY <2>1 DEF RemoteDate, Stamp
  <2> QED
    BY <2>1, <2>4, <2>5 DEF MoreRecent
<1>2. CswSpec => []Own
  BY OwnAlways
<1>3. CswInit => DateInv
  BY DateInit
<1>4. Own /\ DateInv /\ [CswNext]_cswVars => DateInv'
  BY DateStep
<1> QED
  BY <1>1, <1>2, <1>3, <1>4, PTL DEF CswSpec

=============================================================================
