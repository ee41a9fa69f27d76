---------------------------- MODULE RestartProofs ---------------------------
(***************************************************************************)
(* Proofs about Restart, for any number of tabs, names, texts, runs and    *)
(* crashes.                                                                *)
(*                                                                         *)
(* TypeInv gives each value its type, bounds the ids and says what each    *)
(* step of the running handler names; every action keeps it.  TextInv says *)
(* where each text that is owed is while a handler is part way through:    *)
(* Plan is what each step left to do finds when its turn comes, so a crash *)
(* or a failed write between any two of them is one more step that keeps   *)
(* the rest.                                                               *)
(***************************************************************************)
EXTENDS Restart, FiniteSetTheorems, SequenceTheorems, TLAPS

-----------------------------------------------------------------------------
(* Types.                                                                  *)

LEMMA Numbers ==
  /\ MaxTabs \in Nat /\ MaxTabs # 0 /\ MaxTexts \in Nat /\ MaxRuns \in Nat
  /\ MaxCrashes \in Nat /\ MaxStrip \in Nat
  /\ 0 \in Ids /\ 0 \in Texts /\ 0 \in Results /\ NoFile \notin Texts
  /\ Ids \subseteq Nat /\ Texts \subseteq Nat /\ Results \subseteq Nat
  /\ Unsaved \notin Names
<1>1. /\ MaxTabs \in Nat /\ MaxTabs # 0 /\ MaxTexts \in Nat /\ MaxRuns \in Nat
      /\ MaxCrashes \in Nat /\ MaxStrip \in Nat
  BY BoundsAssumption
<1>2. Unsaved \notin Names
  BY NamesAssumption DEF Unsaved
<1>3. 0 \in Ids /\ 0 \in Texts /\ 0 \in Results /\ NoFile \notin Texts
  BY <1>1 DEF Ids, Texts, Results, NoFile
<1>4. Ids \subseteq Nat /\ Texts \subseteq Nat /\ Results \subseteq Nat
  BY <1>1 DEF Ids, Texts, Results
<1> QED
  BY <1>1, <1>2, <1>3, <1>4

\* Counting the members below each one numbers a finite set from zero.
LEMMA PlaceIsThere ==
  ASSUME NEW at \in SUBSET Nat, IsFiniteSet(at), NEW k \in 1..Cardinality(at)
  PROVE  Place(at, k) \in at
<1> DEFINE n == Cardinality(at)
           below(i) == {j \in at : j < i}
           rank == [i \in at |-> Cardinality(below(i))]
<1>1. n \in Nat /\ n >= 1 /\ k - 1 \in 0..(n - 1)
  BY FS_CardinalityType
<1>2. ASSUME NEW i \in at
      PROVE  /\ IsFiniteSet(below(i)) /\ rank[i] \in 0..(n - 1)
  <2>1. below(i) \in SUBSET at /\ below(i) # at
    OBVIOUS
  <2>2. IsFiniteSet(below(i)) /\ Cardinality(below(i)) <= n /\ Cardinality(below(i)) # n
    BY <2>1, FS_Subset
  <2>3. Cardinality(below(i)) \in Nat
    BY <2>2, FS_CardinalityType
  <2> QED
    BY <2>2, <2>3, <1>1
<1>3. ASSUME NEW i \in at, NEW j \in at, i < j
      PROVE  rank[i] # rank[j]
  <2>1. i \in below(j) /\ i \notin below(i) /\ below(i) \in SUBSET below(j)
    <3>1. \A x \in at : x < i => x < j
      BY <1>3
    <3>2. below(i) \in SUBSET below(j)
      BY <3>1
    <3> QED
      BY <3>2, <1>3
  <2> QED
    BY <2>1, <1>2, FS_Subset
<1>4. rank \in Injection(at, 0..(n - 1))
  <2>1. rank \in [at -> 0..(n - 1)]
    BY <1>2
  <2>2. \A i, j \in at : rank[i] = rank[j] => i = j
    BY <1>3
  <2> QED
    BY <2>1, <2>2 DEF Injection, IsInjective
<1>5. IsFiniteSet(0..(n - 1)) /\ Cardinality(0..(n - 1)) = n
  <2>1. 0 \in Int /\ n - 1 \in Int /\ ~(0 > n - 1) /\ (n - 1) - 0 + 1 = n
    BY <1>1
  <2> QED
    BY ONLY <2>1, FS_Interval
<1>6. rank \in Surjection(at, 0..(n - 1))
  BY <1>4, <1>5, FS_Injection
<1> HIDE DEF n
<1>7. \E i \in at : rank[i] = k - 1
  BY <1>6, <1>1 DEF Surjection
<1>8. \E i \in at : Cardinality({j \in at : j < i}) = k - 1
  BY <1>7
<1> QED
  BY <1>8 DEF Place

LEMMA StripLength ==
  ASSUME NEW s \in Strips
  PROVE  /\ s \in Seq(Results) /\ Len(s) \in 0..MaxStrip
         /\ \A i \in 1..Len(s) : s[i] \in Results
<1>1. PICK n \in 0..MaxStrip : s \in [1..n -> Results]
  BY DEF Strips
<1>2. n \in Nat
  BY Numbers
<1>3. s \in Seq(Results) /\ Len(s) = n
  BY <1>1, <1>2
<1> QED
  BY <1>1, <1>3

LEMMA NoneIsStrip == <<>> \in Strips
<1>1. 0 \in 0..MaxStrip /\ 1..0 = {}
  BY Numbers
<1>2. <<>> \in [1..0 -> Results]
  BY <1>1
<1> QED
  BY <1>1, <1>2 DEF Strips

LEMMA GatheredType ==
  ASSUME NEW strip \in [1..MaxStrip -> Results], NEW count \in 0..MaxStrip
  PROVE  Gathered(strip, count) \in Strips
<1> DEFINE at == {k \in 1..count : strip[k] # 0}
<1>1. count \in Nat /\ count <= MaxStrip /\ MaxStrip \in Nat
  BY Numbers
<1>2. IsFiniteSet(1..count) /\ Cardinality(1..count) = count
  BY <1>1, FS_Interval
<1>3. IsFiniteSet(at) /\ Cardinality(at) <= count /\ at \in SUBSET Nat
  BY <1>2, FS_Subset
<1>4. Cardinality(at) \in 0..MaxStrip
  BY <1>1, <1>3, FS_CardinalityType
<1>5. \A k \in 1..Cardinality(at) : Place(at, k) \in at
  BY <1>3, PlaceIsThere
<1>6. \A k \in 1..Cardinality(at) : strip[Place(at, k)] \in Results
  BY <1>5, <1>1
<1>7. Gathered(strip, count) = [k \in 1..Cardinality(at) |-> strip[Place(at, k)]]
  BY DEF Gathered
<1> DEFINE n == Cardinality(at)
<1>8. [k \in 1..n |-> strip[Place(at, k)]] \in [1..n -> Results]
  BY <1>6
<1> HIDE DEF at
<1>9. [k \in 1..n |-> strip[Place(at, k)]] \in Strips
  BY <1>4, <1>8 DEF Strips
<1> QED
  BY <1>7, <1>9

LEMMA NothingType ==
  /\ NoTab \in TabRecord /\ NoEntry \in EntryRecord /\ NoSnapshots \in Snapshots
  /\ Entry(NoTab) = NoEntry
  /\ ~NoTab.open /\ NoTab.name = Unsaved /\ NoTab.base = 0
<1>1. NoTab \in TabRecord
  BY Numbers, NoneIsStrip DEF NoTab, TabRecord
<1>2. NoSnapshots \in Snapshots
  BY Numbers DEF NoSnapshots, Snapshots
<1>3. NoEntry \in EntryRecord
  BY Numbers DEF NoEntry, EntryRecord
<1> QED
  BY <1>1, <1>2, <1>3 DEF NoTab, NoEntry, Entry

\* What comes off the disk is the tab's results and nothing else of it.
LEMMA HydrateType ==
  ASSUME NEW tb \in TabRecord, NEW from \in Snapshots
  PROVE  /\ Hydrate(tb, from) \in TabRecord
         /\ Hydrate(tb, from).open = tb.open /\ Hydrate(tb, from).name = tb.name
         /\ Hydrate(tb, from).text = tb.text /\ Hydrate(tb, from).base = tb.base
<1>1. Gathered(from.strip, tb.count) \in Strips
  BY GatheredType DEF TabRecord, Snapshots
<1>2. from.slot \in Results
  BY DEF Snapshots
<1>3. 0 \in 0..MaxStrip
  BY Numbers
<1> QED
  BY <1>1, <1>2, <1>3 DEF Hydrate, TabRecord

LEMMA EntryType ==
  ASSUME NEW tb \in TabRecord
  PROVE  /\ Entry(tb) \in EntryRecord
         /\ Entry(tb).open = tb.open /\ Entry(tb).name = tb.name
<1>1. Len(tb.strip) \in 0..MaxStrip
  BY StripLength DEF TabRecord
<1> QED
  BY <1>1 DEF Entry, EntryRecord, TabRecord

LEMMA ProfileType ==
  ASSUME NEW of \in [Ids -> TabRecord], NEW id \in 0..MaxTabs
  PROVE  /\ Profile(of, id) \in [tabs : [Ids -> EntryRecord], next : 0..MaxTabs]
         /\ Profile(of, id).next = id
         /\ \A t \in Ids : /\ Profile(of, id).tabs[t].open = of[t].open
                           /\ Profile(of, id).tabs[t].name = of[t].name
BY EntryType DEF Profile

LEMMA SnapshotType ==
  ASSUME NEW tb \in TabRecord, NEW old \in Snapshots
  PROVE  Snapshot(tb, old) \in Snapshots
<1>1. Len(tb.strip) \in Nat /\ \A k \in 1..Len(tb.strip) : tb.strip[k] \in Results
  BY StripLength DEF TabRecord
<1>2. tb.slot \in Results /\ old.slot \in Results /\ old.strip \in [1..MaxStrip -> Results]
  BY DEF TabRecord, Snapshots
<1> QED
  BY <1>1, <1>2 DEF Snapshot, Snapshots

-----------------------------------------------------------------------------
(* The steps of a handler.                                                 *)

StepRecord ==
  [op : {"grids", "text", "pass", "install", "move", "delete", "name", "open",
         "remove", "forget", "drop", "remember", "show", "exit"},
   tab : 0..MaxTabs, name : Names \cup {Unsaved}, to : Names \cup {Unsaved}]

\* A step names what is there to be named, and only the last opens a tab.
StepOK(s, last, n) ==
  /\ s \in StepRecord
  /\ s.op \in {"install", "remove", "forget", "drop"} => s.tab \in Ids /\ s.tab < n
  /\ s.op \in {"install", "move", "name"} => s.to \in Names
  /\ s.op \in {"move", "delete"} => s.name \in Names
  /\ s.op = "open" => last /\ n < MaxTabs

ListOK(l, n) == l \in Seq(StepRecord) /\ \A i \in 1..Len(l) : StepOK(l[i], i = Len(l), n)

LEMMA WentRest ==
  ASSUME todo \in Seq(StepRecord), todo # <<>>, Went
  PROVE  /\ todo' \in Seq(StepRecord) /\ Len(todo') = Len(todo) - 1 /\ Len(todo) >= 1
         /\ Head(todo) = todo[1] /\ Head(todo) \in StepRecord
         /\ \A i \in 1..Len(todo') : todo'[i] = todo[i + 1] /\ i + 1 \in 1..Len(todo)
BY DEF Went

LEMMA WentOK ==
  ASSUME NEW n, ListOK(todo, n), todo # <<>>, Went
  PROVE  ListOK(todo', n)
<1>1. todo \in Seq(StepRecord)
  BY DEF ListOK
<1>2. \A i \in 1..Len(todo') : StepOK(todo'[i], i = Len(todo'), n)
  <2> SUFFICES ASSUME NEW i \in 1..Len(todo') PROVE StepOK(todo'[i], i = Len(todo'), n)
    OBVIOUS
  <2>1. todo'[i] = todo[i + 1] /\ i + 1 \in 1..Len(todo) /\ (i + 1 = Len(todo) => i = Len(todo'))
    BY <1>1, WentRest
  <2>2. StepOK(todo[i + 1], i + 1 = Len(todo), n)
    BY <2>1 DEF ListOK
  <2> QED
    BY <2>1, <2>2 DEF StepOK
<1> QED
  BY <1>1, <1>2, WentRest DEF ListOK

LEMMA PassRecord ==
  /\ Do("pass") \in StepRecord /\ Do("pass").op = "pass"
  /\ Do("grids") \in StepRecord /\ Do("grids").op = "grids"
  /\ Do("remember") \in StepRecord /\ Do("remember").op = "remember"
  /\ Do("remember").tab \notin Ids
  /\ Do("exit") \in StepRecord /\ Do("exit").op = "exit"
  /\ Do("open") \in StepRecord /\ Do("open").op = "open" /\ Do("open").name = Unsaved
<1>1. MaxTabs \in 0..MaxTabs /\ MaxTabs \notin Ids
  BY Numbers DEF Ids
<1> QED
  BY <1>1 DEF Do, Op, StepRecord

LEMMA OnRecord ==
  ASSUME NEW op \in {"text", "remove", "forget", "drop", "remember", "show"}, NEW t \in Ids
  PROVE  On(op, t) \in StepRecord /\ On(op, t).op = op /\ On(op, t).tab = t
<1>1. t \in 0..MaxTabs
  BY Numbers DEF Ids
<1> QED
  BY <1>1 DEF On, Op, StepRecord

LEMMA OpRecord ==
  ASSUME NEW op \in {"install", "move", "delete", "name", "open"}, NEW t \in 0..MaxTabs,
         NEW n \in Names, NEW m \in Names
  PROVE  /\ Op(op, t, n, m) \in StepRecord
         /\ Op(op, t, n, m).op = op /\ Op(op, t, n, m).tab = t
         /\ Op(op, t, n, m).name = n /\ Op(op, t, n, m).to = m
BY DEF Op, StepRecord

LEMMA AbortRest ==
  ASSUME todo \in Seq(StepRecord), todo # <<>>, Abort
  PROVE  /\ todo' \in Seq(StepRecord) /\ Len(todo') = Len(todo) - 1
         /\ \A i \in 1..Len(todo') : todo'[i].op \in {"text", "exit", "pass"}
<1> DEFINE n == Len(todo) - 1
<1>1. n \in Nat /\ \A i \in 1..n : todo[i + 1] \in StepRecord
  BY Len(todo) \in Nat
<1> DEFINE f == [i \in 1..n |-> IF GoesOn(todo[i + 1]) THEN todo[i + 1] ELSE Do("pass")]
<1>2. \A i \in 1..n : f[i] \in StepRecord /\ f[i].op \in {"text", "exit", "pass"}
  BY <1>1, PassRecord DEF GoesOn
<1>3. todo' = f
  BY DEF Abort
<1> HIDE DEF n
<1>4. f \in Seq(StepRecord) /\ Len(f) = n
  BY <1>1, <1>2
<1> QED
  BY <1>2, <1>3, <1>4 DEF n

LEMMA AbortOK ==
  ASSUME NEW n, ListOK(todo, n), todo # <<>>, Abort
  PROVE  ListOK(todo', n)
<1>1. todo \in Seq(StepRecord)
  BY DEF ListOK
<1> QED
  BY <1>1, AbortRest DEF ListOK, StepOK

\* Lists one behind another, the first of which opens nothing.
LEMMA JoinedOK ==
  ASSUME NEW n, NEW a, NEW b, ListOK(a, n), ListOK(b, n),
         \A i \in 1..Len(a) : a[i].op # "open"
  PROVE  /\ ListOK(a \o b, n) /\ Len(a \o b) = Len(a) + Len(b)
         /\ \A i \in 1..Len(a) : (a \o b)[i] = a[i]
         /\ \A i \in 1..Len(b) : (a \o b)[Len(a) + i] = b[i]
<1>1. a \in Seq(StepRecord) /\ b \in Seq(StepRecord)
  BY DEF ListOK
<1>2. a \o b \in Seq(StepRecord) /\ Len(a \o b) = Len(a) + Len(b)
  BY <1>1
<1>3. /\ \A i \in 1..Len(a) : (a \o b)[i] = a[i]
      /\ \A i \in 1..Len(b) : (a \o b)[Len(a) + i] = b[i]
  BY <1>1
<1>4. Len(a) \in Nat /\ Len(b) \in Nat
  BY <1>1
<1>5. ASSUME NEW i \in 1..(Len(a) + Len(b))
      PROVE  StepOK((a \o b)[i], i = Len(a) + Len(b), n)
  <2>1. CASE i <= Len(a)
    <3>1. i \in 1..Len(a) /\ (a \o b)[i] = a[i]
      BY <1>3, <1>4, <2>1
    <3>2. StepOK(a[i], i = Len(a), n) /\ a[i].op # "open"
      BY <3>1 DEF ListOK
    <3> QED
      BY <3>1, <3>2 DEF StepOK
  <2>2. CASE i > Len(a)
    <3> DEFINE j == i - Len(a)
    <3>1. j \in 1..Len(b) /\ i = Len(a) + j /\ (a \o b)[i] = b[j] /\ (j = Len(b) => i = Len(a) + Len(b))
      BY <1>3, <1>4, <2>2
    <3>2. StepOK(b[j], j = Len(b), n)
      BY <3>1 DEF ListOK
    <3> QED
      BY <3>1, <3>2 DEF StepOK
  <2> QED
    BY <2>1, <2>2, <1>4
<1> QED
  BY <1>2, <1>3, <1>5 DEF ListOK

LEMMA OneOK ==
  ASSUME NEW n, NEW s, StepOK(s, TRUE, n)
  PROVE  ListOK(<<s>>, n) /\ Len(<<s>>) = 1 /\ <<s>>[1] = s
<1>1. <<s>> \in Seq(StepRecord) /\ Len(<<s>>) = 1 /\ <<s>>[1] = s
  BY DEF StepOK
<1>2. \A i \in 1..1 : i = 1
  OBVIOUS
<1>3. \A i \in 1..1 : StepOK(<<s>>[i], i = 1, n)
  BY <1>1, <1>2 DEF StepOK
<1> QED
  BY <1>1, <1>3 DEF ListOK

LEMMA NoStepsOK == ASSUME NEW n PROVE ListOK(<<>>, n) /\ Len(<<>>) = 0
BY DEF ListOK

LEMMA PersistRest ==
  ASSUME NEW n
  PROVE  /\ ListOK(PersistAll, n) /\ Len(PersistAll) = MaxTabs + 1
         /\ \A i \in 1..Len(PersistAll) : PersistAll[i].op \in {"grids", "text"}
<1> DEFINE f == [i \in 1..MaxTabs |-> On("text", i - 1)]
<1>1. \A i \in 1..MaxTabs : i - 1 \in Ids
  BY Numbers DEF Ids
<1>2. \A i \in 1..MaxTabs : f[i] \in StepRecord /\ f[i].op = "text"
  BY <1>1, OnRecord
<1>3. f \in Seq(StepRecord) /\ Len(f) = MaxTabs
  BY <1>2, Numbers
<1>4. <<Do("grids")>> \in Seq(StepRecord) /\ Len(<<Do("grids")>>) = 1 /\ <<Do("grids")>>[1].op = "grids"
  BY PassRecord
<1>5. ListOK(f, n) /\ ListOK(<<Do("grids")>>, n)
  <2>1. \A i \in 1..MaxTabs, last \in BOOLEAN : StepOK(f[i], last, n)
    BY <1>2 DEF StepOK
  <2>2. StepOK(Do("grids"), TRUE, n)
    BY PassRecord DEF StepOK
  <2> HIDE DEF f
  <2>3. ListOK(f, n)
    BY <1>3, <2>1 DEF ListOK
  <2> QED
    BY <2>2, <2>3, OneOK
<1>6. PersistAll = <<Do("grids")>> \o f
  BY DEF PersistAll
<1> HIDE DEF f
<1>7. \A i \in 1..Len(<<Do("grids")>>) : <<Do("grids")>>[i].op # "open"
  BY <1>4
<1>8. /\ ListOK(PersistAll, n) /\ Len(PersistAll) = 1 + Len(f)
      /\ \A i \in 1..1 : PersistAll[i] = <<Do("grids")>>[i]
      /\ \A i \in 1..Len(f) : PersistAll[1 + i] = f[i]
  BY <1>4, <1>5, <1>6, <1>7, JoinedOK
<1>9. ASSUME NEW i \in 1..(1 + MaxTabs)
      PROVE  PersistAll[i].op \in {"grids", "text"}
  <2>1. CASE i = 1
    BY <2>1, <1>4, <1>8
  <2>2. CASE i # 1
    <3>1. i - 1 \in 1..MaxTabs /\ 1 + (i - 1) = i
      BY <2>2, Numbers
    <3> QED
      BY <3>1, <1>2, <1>3, <1>8
  <2> QED
    BY <2>1, <2>2
<1> QED
  BY <1>3, <1>8, <1>9, Numbers

-----------------------------------------------------------------------------
(* Types, and the ids not handed out.                                      *)

\* The next id is as stored, and no tab has it or one behind it.
Bounded ==
  /\ IF up THEN next = stored.next ELSE next = 0 /\ todo = <<>>
  /\ \A t \in Ids : /\ IF tabs[t].open THEN up /\ t < next ELSE tabs[t] = NoTab
                    /\ stored.tabs[t].open => t < stored.next

TypeInv == Shapes /\ Bounded /\ ListOK(todo, next) /\ IdsUnused

LEMMA TabParts ==
  ASSUME TypeInv
  PROVE  /\ next \in Nat
         /\ up => next = stored.next
         /\ \A t \in Ids : /\ tabs[t] \in TabRecord /\ grids[t] \in Snapshots
                           /\ stored.tabs[t] \in EntryRecord
                           /\ tabs[t].text \in Texts /\ tabs[t].base \in Texts
                           /\ tabs[t].open \in BOOLEAN
                           /\ tabs[t].name \in Names \cup {Unsaved}
                           /\ tabs[t].open => up /\ t < next
                           /\ ~tabs[t].open => tabs[t] = NoTab /\ tabs[t].name = Unsaved
BY NothingType, Numbers DEF TypeInv, Shapes, Bounded, TabRecord

LEMMA StepParts ==
  ASSUME TypeInv, NEW op, Doing(op)
  PROVE  /\ up /\ todo # <<>> /\ Step = todo[1] /\ Len(todo) >= 1 /\ Len(todo) \in Nat
         /\ Step \in StepRecord /\ Step.op = op
         /\ StepOK(Step, 1 = Len(todo), next)
<1>1. todo \in Seq(StepRecord) /\ todo # <<>>
  BY DEF TypeInv, ListOK, Doing
<1>2. Len(todo) >= 1 /\ Len(todo) \in Nat /\ Head(todo) = todo[1] /\ 1 \in 1..Len(todo)
  BY <1>1
<1> QED
  BY <1>1, <1>2 DEF TypeInv, ListOK, Doing, Step, StepOK

LEMMA OnlyTodoTyped ==
  ASSUME TypeInv, up, UNCHANGED <<memory, disk, counts, owed>>, ListOK(todo', next)
  PROVE  TypeInv'
BY DEF TypeInv, Shapes, Bounded, IdsUnused, memory, disk, counts

LEMMA TodoTyped ==
  ASSUME TypeInv, PassOver \/ WriteFails
  PROVE  TypeInv'
<1>1. PICK op : Doing(op)
  BY DEF PassOver, WriteFails
<1>2. ListOK(todo', next)
  BY <1>1, StepParts, WentOK, AbortOK DEF PassOver, WriteFails, TypeInv
<1> QED
  BY <1>1, <1>2, StepParts, OnlyTodoTyped DEF PassOver, WriteFails

LEMMA WriteGridsTyped == ASSUME TypeInv, WriteGrids PROVE TypeInv'
<1>1. up /\ todo # <<>> /\ UNCHANGED <<memory, saved, scratch, stored, counts, owed>>
  BY StepParts DEF WriteGrids
<1>2. ListOK(todo', next')
  BY <1>1, WentOK DEF WriteGrids, TypeInv, memory
<1>3. \A t \in Ids : /\ grids'[t] \in Snapshots
                     /\ ~tabs[t].open => grids'[t] = grids[t]
  BY TabParts, SnapshotType DEF WriteGrids, Open
<1>4. grids' \in [Ids -> Snapshots]
  BY <1>3 DEF WriteGrids
<1>5. IdsUnused'
  BY <1>1, <1>3, TabParts, Numbers DEF TypeInv, IdsUnused, Bounded, memory
<1> QED
  BY <1>1, <1>2, <1>4, <1>5 DEF TypeInv, Shapes, Bounded, memory, counts

LEMMA TextsType ==
  ASSUME TypeInv, NEW t \in Ids
  PROVE  /\ Wrote(t) => owed' \subseteq Texts
         /\ Based(t) \in [Ids -> TabRecord]
         /\ \A u \in Ids : /\ Based(t)[u].open = tabs[u].open /\ Based(t)[u].name = tabs[u].name
                           /\ Based(t)[u].text = tabs[u].text
                           /\ Based(t)[u].base = IF u = t THEN tabs[t].text ELSE tabs[u].base
                           /\ Based(t)[u].strip = tabs[u].strip
                           /\ Based(t)[u].count = tabs[u].count
                           /\ u # t => Based(t)[u] = tabs[u]
<1>1. tabs \in [Ids -> TabRecord] /\ owed \subseteq Texts
  BY DEF TypeInv, Shapes
<1>2. tabs[t].text \in Texts
  BY TabParts
<1>3. [tabs[t] EXCEPT !.base = tabs[t].text] \in TabRecord
  BY <1>1, <1>2 DEF TabRecord
<1>4. Based(t) = [tabs EXCEPT ![t] = [tabs[t] EXCEPT !.base = tabs[t].text]]
  BY DEF Based
<1>5. \A u \in Ids : Based(t)[u] = IF u = t THEN [tabs[t] EXCEPT !.base = tabs[t].text] ELSE tabs[u]
  BY <1>1, <1>4
<1>6. Based(t) \in [Ids -> TabRecord]
  BY <1>1, <1>3, <1>4
<1>7. \A u \in Ids : tabs[u] \in TabRecord
  BY <1>1
<1>8. ASSUME NEW u \in Ids
      PROVE  /\ Based(t)[u].open = tabs[u].open /\ Based(t)[u].name = tabs[u].name
             /\ Based(t)[u].text = tabs[u].text
             /\ Based(t)[u].base = IF u = t THEN tabs[t].text ELSE tabs[u].base
             /\ Based(t)[u].strip = tabs[u].strip
             /\ Based(t)[u].count = tabs[u].count
             /\ u # t => Based(t)[u] = tabs[u]
  <2>1. CASE u = t
    BY <2>1, <1>5, <1>7 DEF TabRecord
  <2>2. CASE u # t
    BY <2>2, <1>5
  <2> QED
    BY <2>1, <2>2
<1>9. Wrote(t) => owed' \subseteq Texts
  BY <1>1, <1>2 DEF Wrote
<1> QED
  BY <1>6, <1>8, <1>9

\* A tab whose text is on disk stays where it was among the others.
LEMMA BasedBounded ==
  ASSUME TypeInv, NEW t \in Ids, tabs[t].open, tabs' = Based(t), UNCHANGED <<up, next, stored>>, up
  PROVE  Bounded'
<1>1. \A u \in Ids : /\ tabs'[u].open = tabs[u].open
                     /\ u # t => tabs'[u] = tabs[u]
  BY TextsType
<1>2. \A u \in Ids : IF tabs'[u].open THEN up' /\ u < next' ELSE tabs'[u] = NoTab
  BY <1>1, TabParts
<1> QED
  BY <1>2 DEF TypeInv, Bounded

LEMMA WriteTextTyped == ASSUME TypeInv, WriteText PROVE TypeInv'
<1> DEFINE t == Step.tab
           n == tabs[t].name
<1>1. up /\ todo # <<>> /\ t \in Ids /\ tabs[t].open /\ UNCHANGED <<up, next, grids, stored, counts>>
  BY StepParts DEF WriteText, Open
<1>2. ListOK(todo', next')
  BY <1>1, WentOK DEF WriteText, TypeInv
<1>3. Wrote(t) /\ tabs' = Based(t)
  BY DEF WriteText
<1>4. tabs' \in [Ids -> TabRecord] /\ owed' \subseteq Texts
  BY <1>1, <1>3, TextsType
<1>5. tabs[t].text \in Texts /\ n \in Names \cup {Unsaved} /\ t < next
  BY <1>1, TabParts
<1>6. saved' \in [Names -> Texts \cup {NoFile}] /\ scratch' \in [Ids -> Texts]
  BY <1>1, <1>5 DEF WriteText, TypeInv, Shapes
<1>7. \A u \in Ids : u # t => scratch'[u] = scratch[u]
  BY <1>1 DEF WriteText, TypeInv, Shapes
<1> HIDE DEF t
<1>8. IdsUnused'
  <2>1. next = stored.next /\ next \in Nat /\ t \in Nat
    BY <1>1, TabParts, Numbers
  <2>2. \A u \in Ids : u >= stored.next => u # t
    BY <1>5, <2>1, Numbers
  <2> QED
    BY <1>1, <1>7, <2>2 DEF TypeInv, IdsUnused
<1>9. Bounded'
  BY <1>1, <1>3, BasedBounded
<1> QED
  BY <1>1, <1>2, <1>4, <1>6, <1>8, <1>9 DEF TypeInv, Shapes, counts

LEMMA InstallTyped == ASSUME TypeInv, Install PROVE TypeInv'
<1> DEFINE t == Step.tab
           n == Step.to
<1>1. up /\ todo # <<>> /\ t \in Ids /\ t < next /\ n \in Names
  BY StepParts DEF Install, StepOK
<1>2. UNCHANGED <<up, next, scratch, grids, stored, counts>> /\ Wrote(t) /\ tabs' = Based(t)
  BY DEF Install
<1>3. ListOK(todo', next')
  BY <1>1, <1>2, WentOK DEF Install, TypeInv
<1>4. tabs' \in [Ids -> TabRecord] /\ owed' \subseteq Texts /\ tabs[t].text \in Texts
  BY <1>1, <1>2, TextsType, TabParts
<1>5. saved' \in [Names -> Texts \cup {NoFile}]
  BY <1>1, <1>4 DEF Install, TypeInv, Shapes
<1>6. Bounded'
  <2>1. CASE tabs[t].open
    BY <1>1, <1>2, <2>1, BasedBounded
  <2>2. CASE ~tabs[t].open
    <3>1. tabs[t] = NoTab
      BY <1>1, <2>2, TabParts
    <3>2. Based(t) = tabs
      <4>1. [NoTab EXCEPT !.base = NoTab.text] = NoTab
        <5>1. NoTab.text = NoTab.base
          BY DEF NoTab
        <5>2. [NoTab EXCEPT !.base = NoTab.base] = NoTab
          BY NothingType DEF TabRecord
        <5> QED
          BY <5>1, <5>2
      <4>2. tabs \in [Ids -> TabRecord]
        BY DEF TypeInv, Shapes
      <4>3. Based(t) = [tabs EXCEPT ![t] = [tabs[t] EXCEPT !.base = tabs[t].text]]
        BY DEF Based
      <4>4. Based(t) = [tabs EXCEPT ![t] = tabs[t]]
        BY <3>1, <4>1, <4>3
      <4> QED
        BY <4>2, <4>4
    <3> QED
      BY <1>1, <1>2, <3>2 DEF TypeInv, Bounded
  <2> QED
    BY <1>1, <2>1, <2>2, TabParts
<1>7. IdsUnused'
  BY <1>2 DEF TypeInv, IdsUnused
<1> QED
  BY <1>1, <1>2, <1>3, <1>4, <1>5, <1>6, <1>7 DEF TypeInv, Shapes, counts

LEMMA SavedTyped == ASSUME TypeInv, Move \/ DeleteFile PROVE TypeInv'
<1>1. /\ up /\ todo # <<>> /\ Step.name \in Names
      /\ Move => Step.to \in Names
  BY StepParts DEF Move, DeleteFile, StepOK
<1>2. UNCHANGED <<memory, scratch, grids, stored, counts>> /\ Went
  BY DEF Move, DeleteFile
<1>3. ListOK(todo', next')
  BY <1>1, <1>2, WentOK DEF TypeInv, memory
<1>4. saved' \in [Names -> Texts \cup {NoFile}] /\ owed' \subseteq Texts
  BY <1>1 DEF Move, DeleteFile, TypeInv, Shapes
<1> QED
  BY <1>1, <1>2, <1>3, <1>4 DEF TypeInv, Shapes, Bounded, IdsUnused, memory, counts

\* The profile stored.
LEMMA ProfileTyped ==
  ASSUME TypeInv, tabs' \in [Ids -> TabRecord], next' \in 0..MaxTabs, next <= next', up, up',
         \A t \in Ids : IF tabs'[t].open THEN t < next' ELSE tabs'[t] = NoTab,
         stored' = Profile(tabs', next'), ListOK(todo', next'),
         UNCHANGED <<saved, scratch, grids, counts, owed>>
  PROVE  TypeInv'
<1>1. /\ stored' \in [tabs : [Ids -> EntryRecord], next : 0..MaxTabs] /\ stored'.next = next'
      /\ \A t \in Ids : stored'.tabs[t].open = tabs'[t].open
  BY ProfileType
<1>2. Bounded'
  <2>1. ASSUME NEW t \in Ids PROVE tabs'[t].open \in BOOLEAN
    BY DEF TabRecord
  <2> QED
    BY <1>1, <2>1, NothingType DEF Bounded
<1>3. IdsUnused'
  <2>1. next = stored.next /\ next \in Nat /\ next' \in Nat
    BY TabParts, Numbers
  <2>2. \A t \in Ids : t >= next' => t >= stored.next
    BY <2>1, Numbers
  <2> QED
    BY <1>1, <2>2 DEF TypeInv, IdsUnused
<1> QED
  BY <1>1, <1>2, <1>3 DEF TypeInv, Shapes, counts

LEMMA TakeNameType ==
  ASSUME TypeInv, TakeName
  PROVE  /\ tabs' \in [Ids -> TabRecord]
         /\ \A t \in Ids : tabs'[t] = IF t = Step.tab /\ t \in Open
                                      THEN [tabs[t] EXCEPT !.name = Step.to] ELSE tabs[t]
         /\ \A t \in Ids : /\ tabs'[t].open = tabs[t].open
                           /\ tabs'[t].name = (IF t = Step.tab /\ t \in Open THEN Step.to ELSE tabs[t].name)
                           /\ tabs'[t].base = tabs[t].base /\ tabs'[t].text = tabs[t].text
         /\ Step.to \in Names
<1>1. Step.to \in Names
  BY StepParts DEF TakeName, StepOK
<1>2. \A t \in Ids : tabs[t] \in TabRecord
  BY TabParts
<1>3. \A t \in Ids : tabs'[t] = IF t = Step.tab /\ t \in Open
                                 THEN [tabs[t] EXCEPT !.name = Step.to] ELSE tabs[t]
  BY DEF TakeName
<1>4. ASSUME NEW t \in Ids
      PROVE  /\ tabs'[t] \in TabRecord
             /\ tabs'[t].open = tabs[t].open
             /\ tabs'[t].name = (IF t = Step.tab /\ t \in Open THEN Step.to ELSE tabs[t].name)
             /\ tabs'[t].base = tabs[t].base /\ tabs'[t].text = tabs[t].text
  BY <1>1, <1>2, <1>3 DEF TabRecord
<1>5. tabs' \in [Ids -> TabRecord]
  BY <1>4 DEF TakeName
<1> QED
  BY <1>1, <1>3, <1>4, <1>5

LEMMA TakeNameTyped == ASSUME TypeInv, TakeName PROVE TypeInv'
<1>1. up /\ todo # <<>> /\ up' /\ next' = next /\ next \in 0..MaxTabs /\ next <= next'
  BY StepParts, Numbers DEF TakeName, TypeInv, Shapes
<1>2. ListOK(todo', next')
  BY <1>1, WentOK DEF TakeName, TypeInv
<1>3. \A t \in Ids : IF tabs'[t].open THEN t < next' ELSE tabs'[t] = NoTab
  BY <1>1, TakeNameType, TabParts DEF Open
<1> QED
  BY <1>1, <1>2, <1>3, TakeNameType, ProfileTyped DEF TakeName

\* The tab that is opened, with what the disk has of it.
Opened ==
  LET text == IF Step.name = Unsaved THEN scratch[next] ELSE saved[Step.name]
  IN  Hydrate([NoTab EXCEPT !.open = TRUE, !.name = Step.name, !.text = text, !.base = text],
              grids[next])

LEMMA OpenTabParts ==
  ASSUME TypeInv, OpenTab
  PROVE  /\ up /\ Len(todo) = 1 /\ todo' = <<>> /\ next \in Ids /\ next + 1 \in 0..MaxTabs
         /\ \/ /\ Step.name # Unsaved /\ saved[Step.name] = NoFile
               /\ UNCHANGED <<tabs, next, stored>>
            \/ /\ Step.name = Unsaved \/ saved[Step.name] # NoFile
               /\ Opened \in TabRecord /\ Opened.open /\ Opened.name = Step.name
               /\ Opened.base = IF Step.name = Unsaved THEN scratch[next] ELSE saved[Step.name]
               /\ tabs' = [tabs EXCEPT ![next] = Opened]
               /\ next' = next + 1 /\ stored' = Profile(tabs', next')
         /\ Step.name \in Names \cup {Unsaved}
<1>1. up /\ todo # <<>> /\ Len(todo) = 1 /\ next < MaxTabs /\ Step.name \in Names \cup {Unsaved}
  BY StepParts DEF OpenTab, StepOK, StepRecord
<1>2. todo' = <<>>
  <2>1. todo \in Seq(StepRecord)
    BY DEF TypeInv, ListOK
  <2> QED
    BY <1>1, <2>1 DEF OpenTab, Went
<1>3. next \in Ids /\ next + 1 \in 0..MaxTabs
  BY <1>1, TabParts, Numbers DEF Ids
<1> DEFINE text == IF Step.name = Unsaved THEN scratch[next] ELSE saved[Step.name]
           bare == [NoTab EXCEPT !.open = TRUE, !.name = Step.name, !.text = text, !.base = text]
<1>4. ASSUME Step.name = Unsaved \/ saved[Step.name] # NoFile
      PROVE  /\ Opened \in TabRecord /\ Opened.open /\ Opened.name = Step.name
             /\ Opened.base = IF Step.name = Unsaved THEN scratch[next] ELSE saved[Step.name]
  <2>1. text \in Texts
    BY <1>1, <1>3, <1>4 DEF TypeInv, Shapes
  <2>2. NoTab \in TabRecord
    BY NothingType
  <2>3. bare \in TabRecord /\ bare.open /\ bare.name = Step.name /\ bare.base = text
    BY <1>1, <2>1, <2>2 DEF TabRecord
  <2>4. grids[next] \in Snapshots
    BY <1>3, TabParts
  <2>5. Opened = Hydrate(bare, grids[next])
    BY DEF Opened
  <2> HIDE DEF bare
  <2> QED
    BY <2>3, <2>4, <2>5, HydrateType
<1>5. CASE Step.name # Unsaved /\ saved[Step.name] = NoFile
  BY <1>1, <1>2, <1>3, <1>5 DEF OpenTab
<1>6. CASE Step.name = Unsaved \/ saved[Step.name] # NoFile
  <2>1. tabs' = [tabs EXCEPT ![next] = Opened] /\ next' = next + 1 /\ stored' = Profile(tabs', next')
    BY <1>6 DEF OpenTab, Opened
  <2> QED
    BY <1>1, <1>2, <1>3, <1>4, <1>6, <2>1
<1> QED
  BY <1>5, <1>6

LEMMA OpenTabTyped == ASSUME TypeInv, OpenTab PROVE TypeInv'
<1>1. up /\ up' /\ UNCHANGED <<saved, scratch, grids, counts, owed>>
  BY OpenTabParts DEF OpenTab
<1>2. \A m : ListOK(todo', m)
  BY OpenTabParts, NoStepsOK
<1>3. CASE UNCHANGED <<tabs, next, stored>>
  BY <1>1, <1>2, <1>3, OnlyTodoTyped DEF memory, disk
<1>4. CASE /\ Opened \in TabRecord /\ Opened.open /\ Opened.name = Step.name
           /\ tabs' = [tabs EXCEPT ![next] = Opened]
           /\ next' = next + 1 /\ stored' = Profile(tabs', next')
  <2>1. next \in Ids /\ next' \in 0..MaxTabs /\ next \in Nat /\ next <= next'
    BY <1>4, OpenTabParts, TabParts
  <2>2. tabs \in [Ids -> TabRecord] /\ tabs' \in [Ids -> TabRecord]
    BY <1>4, <2>1 DEF TypeInv, Shapes
  <2>3. \A t \in Ids : tabs'[t] = IF t = next THEN Opened ELSE tabs[t]
    BY <1>4, <2>2
  <2>4. \A t \in Ids : IF tabs'[t].open THEN t < next' ELSE tabs'[t] = NoTab
    BY <1>4, <2>1, <2>3, TabParts, Numbers
  <2> QED
    BY <1>1, <1>2, <1>4, <2>1, <2>2, <2>4, ProfileTyped
<1> QED
  BY <1>3, <1>4, OpenTabParts

LEMMA RemoveTabTyped == ASSUME TypeInv, RemoveTab PROVE TypeInv'
<1> DEFINE t == Step.tab
<1>1. up /\ todo # <<>> /\ t \in Ids
  BY StepParts DEF RemoveTab, StepOK
<1>2. UNCHANGED <<up, next, disk, counts>> /\ tabs' = [tabs EXCEPT ![t] = NoTab]
  BY DEF RemoveTab
<1>3. ListOK(todo', next')
  BY <1>1, <1>2, WentOK DEF RemoveTab, TypeInv
<1>4. tabs' \in [Ids -> TabRecord]
  BY <1>2, NothingType DEF TypeInv, Shapes
<1>5. \A u \in Ids : tabs'[u] = IF u = t THEN NoTab ELSE tabs[u]
  BY <1>2 DEF TypeInv, Shapes
<1>6. Bounded'
  BY <1>1, <1>2, <1>5, NothingType DEF TypeInv, Bounded, disk
<1>7. owed' \subseteq Texts
  BY DEF RemoveTab, TypeInv, Shapes
<1> QED
  BY <1>2, <1>3, <1>4, <1>6, <1>7 DEF TypeInv, Shapes, IdsUnused, disk, counts

LEMMA LeftTyped == ASSUME TypeInv, DeleteScratch \/ RemoveGrid PROVE TypeInv'
<1> DEFINE t == Step.tab
<1>1. up /\ todo # <<>> /\ t \in Ids /\ t < next
  BY StepParts DEF DeleteScratch, RemoveGrid, StepOK
<1>2. UNCHANGED <<memory, saved, stored, counts, owed>> /\ Went
  BY DEF DeleteScratch, RemoveGrid
<1>3. ListOK(todo', next')
  BY <1>1, <1>2, WentOK DEF TypeInv, memory
<1>4. grids[t] \in Snapshots /\ [grids[t] EXCEPT !.slot = 0] \in Snapshots
  BY <1>1, TabParts, Numbers DEF Snapshots
<1>5. scratch' \in [Ids -> Texts] /\ grids' \in [Ids -> Snapshots]
  <2>1. CASE DeleteScratch
    BY <2>1, Numbers DEF DeleteScratch, TypeInv, Shapes
  <2>2. CASE RemoveGrid
    <3>1. grids' = [grids EXCEPT ![t] = [grids[t] EXCEPT !.slot = 0]]
      BY <2>2 DEF RemoveGrid
    <3> QED
      BY <2>2, <3>1, <1>4 DEF RemoveGrid, TypeInv, Shapes
  <2> QED
    BY <2>1, <2>2
<1>6. \A u \in Ids : u # t => scratch'[u] = scratch[u] /\ grids'[u] = grids[u]
  BY DEF DeleteScratch, RemoveGrid, TypeInv, Shapes
<1> HIDE DEF t
<1>7. IdsUnused'
  <2>1. next = stored.next /\ next \in Nat /\ t \in Nat
    BY <1>1, TabParts, Numbers
  <2>2. \A u \in Ids : u >= stored.next => u # t
    BY <1>1, <2>1, Numbers
  <2> QED
    BY <1>2, <1>6, <2>2 DEF TypeInv, IdsUnused
<1> QED
  BY <1>1, <1>2, <1>3, <1>5, <1>7 DEF TypeInv, Shapes, Bounded, memory, counts

LEMMA RememberTyped == ASSUME TypeInv, RememberProfiles PROVE TypeInv'
<1>1. up /\ todo # <<>> /\ up' /\ next' = next /\ next \in 0..MaxTabs /\ next <= next' /\ tabs' = tabs
  BY StepParts, Numbers DEF RememberProfiles, TypeInv, Shapes, memory
<1>2. ListOK(todo', next')
  BY <1>1, WentOK DEF RememberProfiles, TypeInv
<1>3. tabs' \in [Ids -> TabRecord] /\ \A t \in Ids : IF tabs'[t].open THEN t < next' ELSE tabs'[t] = NoTab
  BY <1>1, TabParts DEF TypeInv, Shapes
<1> QED
  BY <1>1, <1>2, <1>3, ProfileTyped DEF RememberProfiles

\* What comes to the front is as it was, but for the results it reads.
LEMMA ShowParts ==
  ASSUME TypeInv, NEW t, Show(t)
  PROVE  /\ tabs' \in [Ids -> TabRecord]
         /\ \A u \in Ids : /\ tabs'[u].open = tabs[u].open /\ tabs'[u].name = tabs[u].name
                           /\ tabs'[u].text = tabs[u].text /\ tabs'[u].base = tabs[u].base
                           /\ tabs[u] = NoTab => tabs'[u] = NoTab
<1>1. \A u \in Ids : tabs'[u] = IF u = t /\ u \in Open THEN Hydrate(tabs[u], grids[u]) ELSE tabs[u]
  BY DEF Show
<1>2. ASSUME NEW u \in Ids
      PROVE  /\ tabs'[u] \in TabRecord
             /\ tabs'[u].open = tabs[u].open /\ tabs'[u].name = tabs[u].name
             /\ tabs'[u].text = tabs[u].text /\ tabs'[u].base = tabs[u].base
             /\ tabs[u] = NoTab => tabs'[u] = NoTab
  <2>1. tabs[u] \in TabRecord /\ grids[u] \in Snapshots
    BY TabParts
  <2>2. PICK h : h = Hydrate(tabs[u], grids[u])
    OBVIOUS
  <2>3. /\ h \in TabRecord /\ h.open = tabs[u].open /\ h.name = tabs[u].name
        /\ h.text = tabs[u].text /\ h.base = tabs[u].base
    BY <2>1, <2>2, HydrateType
  <2>4. tabs'[u] = IF u = t /\ u \in Open THEN h ELSE tabs[u]
    BY <1>1, <2>2
  <2> QED
    BY <2>1, <2>3, <2>4, NothingType DEF Open
<1>3. tabs' \in [Ids -> TabRecord]
  BY <1>2 DEF Show
<1> QED
  BY <1>2, <1>3

LEMMA ShownTyped ==
  ASSUME TypeInv, up, NEW t, Show(t), ListOK(todo', next'),
         UNCHANGED <<up, next, saved, scratch, grids, counts, owed>>
  PROVE  TypeInv'
<1>1. up' /\ next' \in 0..MaxTabs /\ next <= next' /\ stored' = Profile(tabs', next')
  BY Numbers DEF Show, TypeInv, Shapes
<1>2. tabs' \in [Ids -> TabRecord]
  BY ShowParts
<1>3. \A u \in Ids : /\ tabs'[u].open = tabs[u].open
                     /\ tabs[u] = NoTab => tabs'[u] = NoTab
  BY ShowParts
<1>4. \A u \in Ids : IF tabs'[u].open THEN u < next' ELSE tabs'[u] = NoTab
  BY <1>3, TabParts
<1> QED
  BY <1>1, <1>2, <1>4, ProfileTyped

LEMMA ShowTyped == ASSUME TypeInv, ShowNext PROVE TypeInv'
<1>1. /\ up /\ todo # <<>> /\ Show(Step.tab) /\ Went
      /\ UNCHANGED <<up, next, saved, scratch, grids, counts, owed>>
  BY StepParts DEF ShowNext
<1>2. ListOK(todo', next')
  BY <1>1, WentOK DEF TypeInv
<1> QED
  BY <1>1, <1>2, ShownTyped

LEMMA DownTyped == ASSUME TypeInv, Down, crashes' \in 0..MaxCrashes PROVE TypeInv'
<1>1. tabs' \in [Ids -> TabRecord] /\ \A t \in Ids : tabs'[t] = NoTab
  BY NothingType DEF Down
<1>2. next' = 0 /\ next' \in 0..MaxTabs /\ ~up' /\ up' \in BOOLEAN /\ todo' = <<>>
  BY Numbers DEF Down
<1>3. UNCHANGED <<disk, typed, runs, owed>>
  BY DEF Down
<1>4. Bounded'
  BY <1>1, <1>2, <1>3, NothingType DEF TypeInv, Bounded, disk
<1>5. ListOK(todo', next')
  BY <1>2, NoStepsOK
<1> QED
  BY <1>1, <1>2, <1>3, <1>4, <1>5 DEF TypeInv, Shapes, IdsUnused, disk

LEMMA StepsTyped == ASSUME TypeInv, Steps PROVE TypeInv'
<1>1. Exit => TypeInv'
  BY DownTyped DEF Exit, TypeInv, Shapes
<1> QED
  BY <1>1, WriteGridsTyped, TodoTyped, WriteTextTyped, InstallTyped, SavedTyped, TakeNameTyped,
     OpenTabTyped, RemoveTabTyped, LeftTyped, RememberTyped, ShowTyped DEF Steps

-----------------------------------------------------------------------------
(* What the user starts.                                                   *)

LEMMA StartTyped == ASSUME TypeInv, NEW l, Start(l), ListOK(l, next) PROVE TypeInv'
BY OnlyTodoTyped DEF Start, Ready

\* Every buffer, and then one step more.
LEMMA PersistThen ==
  ASSUME NEW n, NEW s, StepOK(s, TRUE, n)
  PROVE  /\ ListOK(PersistAll \o <<s>>, n) /\ Len(PersistAll \o <<s>>) = MaxTabs + 2
         /\ (PersistAll \o <<s>>)[MaxTabs + 2] = s
         /\ \A i \in 1..Len(PersistAll \o <<s>>) :
              i = MaxTabs + 2 \/ (PersistAll \o <<s>>)[i].op \in {"grids", "text"}
<1> DEFINE l == <<s>>
<1>1. ListOK(l, n) /\ Len(l) = 1 /\ l[1] = s
  BY OneOK
<1>2. /\ ListOK(PersistAll, n) /\ Len(PersistAll) = MaxTabs + 1
      /\ \A i \in 1..(MaxTabs + 1) : PersistAll[i].op \in {"grids", "text"}
  BY PersistRest
<1> HIDE DEF l
<1>3. /\ ListOK(PersistAll \o l, n) /\ Len(PersistAll \o l) = Len(PersistAll) + Len(l)
      /\ \A i \in 1..Len(PersistAll) : (PersistAll \o l)[i] = PersistAll[i]
      /\ \A i \in 1..Len(l) : (PersistAll \o l)[Len(PersistAll) + i] = l[i]
  <2>1. \A i \in 1..Len(PersistAll) : PersistAll[i].op # "open"
    BY <1>2
  <2> QED
    <3>1. ListOK(PersistAll, n) /\ ListOK(l, n)
      BY <1>1, <1>2
    <3>2. ListOK(PersistAll \o l, n) /\ Len(PersistAll \o l) = Len(PersistAll) + Len(l)
      BY ONLY <2>1, <3>1, JoinedOK
    <3>3. /\ \A i \in 1..Len(PersistAll) : (PersistAll \o l)[i] = PersistAll[i]
          /\ \A i \in 1..Len(l) : (PersistAll \o l)[Len(PersistAll) + i] = l[i]
      BY ONLY <2>1, <3>1, JoinedOK
    <3> QED
      BY <3>2, <3>3
<1>4. Len(PersistAll \o l) = MaxTabs + 2 /\ (PersistAll \o l)[MaxTabs + 2] = s
  BY <1>1, <1>2, <1>3, Numbers
<1>5. \A i \in 1..(MaxTabs + 2) : i = MaxTabs + 2 \/ (PersistAll \o l)[i].op \in {"grids", "text"}
  BY <1>2, <1>3, Numbers
<1> QED
  BY <1>3, <1>4, <1>5 DEF l

\* What closes a tab.
After(t) == {Do("remember"), On("forget", t), On("drop", t)} \cup {On("show", u) : u \in Ids}
Trail(l, t) ==
  /\ ListOK(l, next) /\ Len(l) >= 1 /\ l[1] = On("remove", t)
  /\ \A i \in 1..Len(l) : i = 1 \/ l[i] \in After(t)

LEMMA AfterOK ==
  ASSUME NEW t \in Ids, t < next, NEW s \in After(t)
  PROVE  /\ s.op \in {"remember", "forget", "drop", "show"} /\ \A last : StepOK(s, last, next)
         /\ s.op \in {"forget", "drop"} => s.tab = t
<1>1. /\ s \in StepRecord /\ s.op \in {"remember", "forget", "drop", "show"}
      /\ s.op \in {"forget", "drop"} => s.tab = t
  BY PassRecord, OnRecord DEF After
<1> QED
  BY <1>1 DEF StepOK

LEMMA TrailJoined ==
  ASSUME NEW t \in Ids, t < next, NEW l, Trail(l, t),
         NEW m, m \in Seq(StepRecord), \A i \in 1..Len(m) : m[i] \in After(t)
  PROVE  Trail(l \o m, t)
<1>1. ListOK(m, next) /\ \A i \in 1..Len(m) : m[i].op # "open"
  BY AfterOK DEF ListOK
<1>2. ListOK(l, next) /\ \A i \in 1..Len(l) : l[i].op # "open"
  <2>1. On("remove", t).op = "remove"
    BY OnRecord
  <2> QED
    BY <2>1, AfterOK DEF Trail
<1>3. /\ ListOK(l \o m, next) /\ Len(l \o m) = Len(l) + Len(m)
      /\ \A i \in 1..Len(l) : (l \o m)[i] = l[i]
      /\ \A i \in 1..Len(m) : (l \o m)[Len(l) + i] = m[i]
  BY <1>1, <1>2, JoinedOK
<1>4. Len(l) \in Nat /\ Len(m) \in Nat /\ Len(l) >= 1 /\ l[1] = On("remove", t)
  BY <1>2 DEF ListOK, Trail
<1>5. ASSUME NEW i \in 1..(Len(l) + Len(m)), i # 1
      PROVE  (l \o m)[i] \in After(t)
  <2>1. CASE i <= Len(l)
    BY <1>3, <1>4, <1>5, <2>1 DEF Trail
  <2>2. CASE i > Len(l)
    <3>1. i - Len(l) \in 1..Len(m) /\ Len(l) + (i - Len(l)) = i
      BY <1>4, <2>2
    <3>2. (l \o m)[Len(l) + (i - Len(l))] = m[i - Len(l)]
      BY <1>3, <3>1
    <3> QED
      BY <3>1, <3>2
  <2> QED
    BY <1>4, <2>1, <2>2
<1> QED
  BY <1>3, <1>4, <1>5 DEF Trail

LEMMA RemovalTrail ==
  ASSUME NEW t \in Ids, t < next, NEW removal \in Removal(t)
  PROVE  Trail(removal, t)
<1>1. PICK front \in {<<>>, <<Do("remember")>>} \cup {<<On("show", u)>> : u \in Open \ {t}} :
        removal = <<On("remove", t)>> \o front
                    \o (IF tabs[t].name = Unsaved THEN <<On("forget", t)>> ELSE <<>>)
                    \o <<On("drop", t), Do("remember")>>
  BY DEF Removal
<1> DEFINE a == <<On("remove", t)>>
           c == IF tabs[t].name = Unsaved THEN <<On("forget", t)>> ELSE <<>>
           d == <<On("drop", t), Do("remember")>>
<1>2. /\ On("remove", t) \in StepRecord /\ On("remove", t).op = "remove" /\ On("remove", t).tab = t
      /\ On("forget", t) \in StepRecord /\ On("drop", t) \in StepRecord
      /\ Do("remember") \in StepRecord
  BY OnRecord, PassRecord
<1>3. Trail(a, t)
  <2>1. StepOK(On("remove", t), TRUE, next)
    BY <1>2 DEF StepOK
  <2>2. ListOK(a, next) /\ Len(a) = 1 /\ a[1] = On("remove", t)
    BY <2>1, OneOK
  <2> QED
    BY <2>2 DEF Trail
<1>4. front \in Seq(StepRecord) /\ \A i \in 1..Len(front) : front[i] \in After(t)
  <2>1. CASE front = <<>>
    BY <2>1
  <2>2. CASE front = <<Do("remember")>>
    BY <1>2, <2>2 DEF After
  <2>3. ASSUME NEW u \in Open, front = <<On("show", u)>>
        PROVE  front \in Seq(StepRecord) /\ \A i \in 1..Len(front) : front[i] \in After(t)
    <3>1. u \in Ids /\ On("show", u) \in StepRecord /\ On("show", u) \in After(t)
      BY OnRecord DEF Open, After
    <3> QED
      BY <2>3, <3>1
  <2> QED
    BY <2>1, <2>2, <2>3
<1>5. c \in Seq(StepRecord) /\ \A i \in 1..Len(c) : c[i] \in After(t)
  BY <1>2 DEF After
<1>6. d \in Seq(StepRecord) /\ \A i \in 1..Len(d) : d[i] \in After(t)
  BY <1>2 DEF After
<1>7. removal = a \o front \o c \o d
  BY <1>1
<1> HIDE DEF a, c, d
<1>8. Trail(a \o front, t)
  BY <1>3, <1>4, TrailJoined
<1>9. Trail(a \o front \o c, t)
  BY <1>5, <1>8, TrailJoined
<1> QED
  BY <1>6, <1>7, <1>9, TrailJoined

\* A closing behind a step that opens nothing.
LEMMA ThenTrail ==
  ASSUME NEW t \in Ids, t < next, NEW s, StepOK(s, TRUE, next), s.op # "open", NEW r, Trail(r, t)
  PROVE  /\ ListOK(<<s>> \o r, next) /\ Len(<<s>> \o r) = 1 + Len(r) /\ Len(r) >= 1
         /\ (<<s>> \o r)[1] = s /\ (<<s>> \o r)[2] = On("remove", t)
         /\ \A i \in 1..Len(<<s>> \o r) : i \in {1, 2} \/ (<<s>> \o r)[i] \in After(t)
<1> DEFINE l == <<s>>
<1>1. ListOK(l, next) /\ Len(l) = 1 /\ l[1] = s
  BY OneOK
<1>2. ListOK(r, next) /\ Len(r) \in Nat /\ Len(r) >= 1 /\ r[1] = On("remove", t)
  BY DEF Trail, ListOK
<1> HIDE DEF l
<1>3. /\ ListOK(l \o r, next) /\ Len(l \o r) = 1 + Len(r)
      /\ \A i \in 1..Len(l) : (l \o r)[i] = l[i]
      /\ \A i \in 1..Len(r) : (l \o r)[1 + i] = r[i]
  <2>1. \A i \in 1..Len(l) : l[i].op # "open"
    BY <1>1
  <2> QED
    <3>1. ListOK(l, next) /\ ListOK(r, next)
      BY <1>1, <1>2
    <3>2. ListOK(l \o r, next) /\ Len(l \o r) = Len(l) + Len(r)
      BY ONLY <2>1, <3>1, JoinedOK
    <3>3. /\ \A i \in 1..Len(l) : (l \o r)[i] = l[i]
          /\ \A i \in 1..Len(r) : (l \o r)[Len(l) + i] = r[i]
      BY ONLY <2>1, <3>1, JoinedOK
    <3> QED
      BY <1>1, <3>2, <3>3
<1>4. (l \o r)[1] = s /\ (l \o r)[2] = On("remove", t)
  BY <1>1, <1>2, <1>3
<1>5. ASSUME NEW i \in 1..(1 + Len(r)), i \notin {1, 2}
      PROVE  (l \o r)[i] \in After(t)
  <2>1. i - 1 \in 1..Len(r) /\ 1 + (i - 1) = i /\ i - 1 # 1
    BY <1>2, <1>5
  <2>2. (l \o r)[1 + (i - 1)] = r[i - 1] /\ r[i - 1] \in After(t)
    BY <1>3, <2>1 DEF Trail
  <2> QED
    BY <2>1, <2>2
<1> QED
  BY <1>2, <1>3, <1>4, <1>5 DEF l

LEMMA PairOK ==
  ASSUME NEW n, NEW a, NEW b, StepOK(a, FALSE, n), StepOK(b, TRUE, n)
  PROVE  ListOK(<<a, b>>, n)
<1>1. <<a, b>> \in Seq(StepRecord) /\ Len(<<a, b>>) = 2 /\ <<a, b>>[1] = a /\ <<a, b>>[2] = b
  BY DEF StepOK
<1>2. \A i \in 1..2 : i = 1 \/ i = 2
  OBVIOUS
<1>3. \A i \in 1..2 : StepOK(<<a, b>>[i], i = 2, n)
  BY <1>1, <1>2 DEF StepOK
<1> QED
  BY <1>1, <1>3 DEF ListOK

LEMMA TripleOK ==
  ASSUME NEW n, NEW a, NEW b, NEW c,
         StepOK(a, FALSE, n), StepOK(b, FALSE, n), StepOK(c, TRUE, n)
  PROVE  ListOK(<<a, b, c>>, n)
<1>1. /\ <<a, b, c>> \in Seq(StepRecord) /\ Len(<<a, b, c>>) = 3
      /\ <<a, b, c>>[1] = a /\ <<a, b, c>>[2] = b /\ <<a, b, c>>[3] = c
  BY DEF StepOK
<1>2. \A i \in 1..3 : i = 1 \/ i = 2 \/ i = 3
  OBVIOUS
<1>3. \A i \in 1..3 : StepOK(<<a, b, c>>[i], i = 3, n)
  BY <1>1, <1>2 DEF StepOK
<1> QED
  BY <1>1, <1>3 DEF ListOK

LEMMA FiveOK ==
  ASSUME NEW n, NEW a, NEW b, NEW c, NEW d, NEW e,
         StepOK(a, FALSE, n), StepOK(b, FALSE, n), StepOK(c, FALSE, n), StepOK(d, FALSE, n),
         StepOK(e, TRUE, n)
  PROVE  ListOK(<<a, b, c, d, e>>, n)
<1>1. /\ <<a, b, c, d, e>> \in Seq(StepRecord) /\ Len(<<a, b, c, d, e>>) = 5
      /\ <<a, b, c, d, e>>[1] = a /\ <<a, b, c, d, e>>[2] = b /\ <<a, b, c, d, e>>[3] = c
      /\ <<a, b, c, d, e>>[4] = d /\ <<a, b, c, d, e>>[5] = e
  BY DEF StepOK
<1>2. \A i \in 1..5 : i = 1 \/ i = 2 \/ i = 3 \/ i = 4 \/ i = 5
  OBVIOUS
<1>3. \A i \in 1..5 : StepOK(<<a, b, c, d, e>>[i], i = 5, n)
  BY <1>1, <1>2 DEF StepOK
<1> QED
  BY <1>1, <1>3 DEF ListOK

LEMMA SaveAsTyped == ASSUME TypeInv, NEW t \in Ids, NEW n \in Names, SaveAs(t, n) PROVE TypeInv'
<1>1. t < next /\ t \in 0..MaxTabs
  BY TabParts, Numbers DEF SaveAs, Open, Ids
<1>2. /\ StepOK(Op("install", t, n, n), FALSE, next) /\ StepOK(On("forget", t), FALSE, next)
      /\ StepOK(Op("name", t, n, n), TRUE, next)
  BY <1>1, OpRecord, OnRecord DEF StepOK
<1> QED
  BY <1>2, TripleOK, StartTyped DEF SaveAs

LEMMA RenameTyped == ASSUME TypeInv, NEW n \in Names, NEW m \in Names, Rename(n, m) PROVE TypeInv'
<1>1. ASSUME NEW t \in 0..MaxTabs
      PROVE  StepOK(Op("move", t, n, m), FALSE, next) /\ StepOK(Op("name", t, n, m), TRUE, next)
  BY OpRecord DEF StepOK
<1>2. ASSUME NEW t \in Holders(n),
             \/ Start(<<On("text", t), Op("move", t, n, m), On("forget", t), On("remember", t),
                        Op("name", t, n, m)>>)
             \/ Start(<<On("text", t), Op("move", t, n, m), Op("name", t, n, m)>>)
      PROVE  TypeInv'
  <2>1. t \in Ids /\ t < next /\ t \in 0..MaxTabs
    BY TabParts, Numbers DEF Holders, Open, Ids
  <2>2. StepOK(On("text", t), FALSE, next) /\ StepOK(On("forget", t), FALSE, next)
        /\ StepOK(On("remember", t), FALSE, next)
    BY <2>1, OnRecord DEF StepOK
  <2>3. CASE Start(<<On("text", t), Op("move", t, n, m), On("forget", t), On("remember", t),
                     Op("name", t, n, m)>>)
    BY <1>1, <2>1, <2>2, <2>3, FiveOK, StartTyped
  <2>4. CASE Start(<<On("text", t), Op("move", t, n, m), Op("name", t, n, m)>>)
    BY <1>1, <2>1, <2>2, <2>4, TripleOK, StartTyped
  <2> QED
    BY <1>2, <2>3, <2>4
<1>3. CASE Start(<<Op("move", MaxTabs, n, m), Op("name", MaxTabs, n, m)>>)
  <2>1. MaxTabs \in 0..MaxTabs
    BY Numbers
  <2>2. ListOK(<<Op("move", MaxTabs, n, m), Op("name", MaxTabs, n, m)>>, next)
    BY <1>1, <2>1, PairOK
  <2> QED
    BY <1>3, <2>2, StartTyped
<1> QED
  BY <1>2, <1>3 DEF Rename

LEMMA CloseTyped == ASSUME TypeInv, NEW t \in Ids, CloseBuffer(t) PROVE TypeInv'
<1>1. t < next
  BY TabParts DEF CloseBuffer, Open
<1>2. PICK removal \in Removal(t) :
        Start((IF tabs[t].name = Unsaved THEN <<>> ELSE <<On("text", t)>>) \o removal)
  BY DEF CloseBuffer
<1>3. Trail(removal, t)
  BY <1>1, RemovalTrail
<1>4. CASE tabs[t].name = Unsaved
  <2>1. removal \in Seq(StepRecord) /\ ListOK(removal, next)
    BY <1>3 DEF Trail, ListOK
  <2>2. <<>> \o removal = removal
    BY <2>1
  <2> QED
    BY <1>2, <1>4, <2>1, <2>2, StartTyped
<1>5. CASE tabs[t].name # Unsaved
  <2>1. StepOK(On("text", t), TRUE, next) /\ On("text", t).op # "open"
    BY OnRecord DEF StepOK
  <2>2. ListOK(<<On("text", t)>> \o removal, next)
    BY <1>1, <1>3, <2>1, ThenTrail
  <2> QED
    BY <1>2, <1>5, <2>2, StartTyped
<1> QED
  BY <1>4, <1>5

LEMMA DeleteTyped == ASSUME TypeInv, NEW n \in Names, DeleteSaved(n) PROVE TypeInv'
<1>1. ASSUME NEW t \in 0..MaxTabs
      PROVE  /\ StepOK(Op("delete", t, n, n), TRUE, next) /\ StepOK(Op("delete", t, n, n), FALSE, next)
             /\ Op("delete", t, n, n).op # "open"
  BY OpRecord DEF StepOK
<1>2. CASE Start(<<Op("delete", 0, n, n), Do("remember")>>)
  <2>1. StepOK(Do("remember"), TRUE, next)
    BY PassRecord DEF StepOK
  <2>2. 0 \in 0..MaxTabs
    BY Numbers
  <2> QED
    BY <1>1, <1>2, <2>1, <2>2, PairOK, StartTyped
<1>3. ASSUME NEW t \in Holders(n), NEW removal \in Removal(t),
             Start(<<Op("delete", t, n, n)>> \o removal)
      PROVE  TypeInv'
  <2>1. t \in Ids /\ t < next /\ t \in 0..MaxTabs
    BY TabParts, Numbers DEF Holders, Open, Ids
  <2>2. Trail(removal, t)
    BY <2>1, RemovalTrail
  <2>3. StepOK(Op("delete", t, n, n), TRUE, next) /\ Op("delete", t, n, n).op # "open"
    BY <1>1, <2>1
  <2>4. ListOK(<<Op("delete", t, n, n)>> \o removal, next)
    BY <2>1, <2>2, <2>3, ThenTrail
  <2> QED
    BY <1>3, <2>4, StartTyped
<1> QED
  BY <1>2, <1>3 DEF DeleteSaved

LEMMA PersistTyped ==
  ASSUME TypeInv, Persist \/ NewQuery \/ Quit \/ \E n \in Names : OpenSaved(n)
  PROVE  TypeInv'
<1>1. CASE Persist
  BY <1>1, PersistRest, StartTyped DEF Persist
<1>2. CASE NewQuery
  <2>1. StepOK(Do("open"), TRUE, next)
    BY <1>2, PassRecord DEF StepOK, NewQuery
  <2> QED
    BY <1>2, <2>1, PersistThen, StartTyped DEF NewQuery
<1>3. CASE Quit
  <2>1. StepOK(Do("exit"), TRUE, next)
    BY PassRecord DEF StepOK
  <2> QED
    BY <1>3, <2>1, PersistThen, StartTyped DEF Quit
<1>4. ASSUME NEW n \in Names, OpenSaved(n) PROVE TypeInv'
  <2>1. StepOK(Op("open", 0, n, n), TRUE, next)
    BY <1>4, OpRecord, Numbers DEF StepOK, OpenSaved
  <2> QED
    BY <1>4, <2>1, PersistThen, StartTyped DEF OpenSaved
<1> QED
  BY <1>1, <1>2, <1>3, <1>4

\* A tab that is open still, with whatever else it has now.
LEMMA OneTabTyped ==
  ASSUME TypeInv, NEW t \in Ids, tabs[t].open, NEW tb \in TabRecord, tb.open,
         tabs' = [tabs EXCEPT ![t] = tb], typed' \in Texts, runs' \in Results,
         UNCHANGED <<up, next, todo, disk, crashes, owed>>
  PROVE  TypeInv'
<1>1. \A u \in Ids : tabs'[u] = IF u = t THEN tb ELSE tabs[u]
  BY DEF TypeInv, Shapes
<1>2. tabs' \in [Ids -> TabRecord]
  BY DEF TypeInv, Shapes
<1>3. Bounded'
  <2>1. \A u \in Ids : IF tabs'[u].open THEN up' /\ u < next' ELSE tabs'[u] = NoTab
    BY <1>1, TabParts
  <2> QED
    BY <2>1 DEF TypeInv, Bounded, disk
<1> QED
  BY <1>2, <1>3 DEF TypeInv, Shapes, ListOK, IdsUnused, disk

LEMMA TypeTyped == ASSUME TypeInv, NEW t \in Ids, Type(t) PROVE TypeInv'
<1>1. typed + 1 \in Texts /\ tabs[t].open /\ tabs[t] \in TabRecord
  BY Numbers, TabParts DEF Type, Open, TypeInv, Shapes, Texts
<1> DEFINE tb == [tabs[t] EXCEPT !.text = typed + 1]
<1>2. tb \in TabRecord /\ tb.open
  BY <1>1 DEF TabRecord
<1>3. tabs' = [tabs EXCEPT ![t] = tb]
  BY DEF Type
<1> HIDE DEF tb
<1>4. typed' \in Texts /\ runs' \in Results /\ UNCHANGED <<up, next, todo, disk, crashes, owed>>
  BY <1>1 DEF Type, TypeInv, Shapes
<1> QED
  BY <1>1, <1>2, <1>3, <1>4, OneTabTyped

\* What a run leaves on its tab.
LEMMA RanType ==
  ASSUME TypeInv, NEW t \in Ids, Run(t)
  PROVE  \E tb \in TabRecord : /\ tb.open /\ tb.name = tabs[t].name
                               /\ tb.text = tabs[t].text /\ tb.base = tabs[t].base
                               /\ tabs' = [tabs EXCEPT ![t] = tb]
<1>1. PICK len \in 0..MaxStrip :
        \E left \in [1..(IF len = 0 THEN 1 ELSE len) -> {0, runs + 1}] :
          tabs' = [tabs EXCEPT ![t].slot = left[Len(left)], ![t].count = 0,
                               ![t].strip = IF len = 0 THEN <<>> ELSE left]
  BY DEF Run
<1> DEFINE n == IF len = 0 THEN 1 ELSE len
<1>2. PICK left \in [1..n -> {0, runs + 1}] :
        tabs' = [tabs EXCEPT ![t].slot = left[Len(left)], ![t].count = 0,
                             ![t].strip = IF len = 0 THEN <<>> ELSE left]
  BY <1>1
<1>3. {0, runs + 1} \subseteq Results
  BY Numbers DEF Run, TypeInv, Shapes, Results
<1>4. n \in Nat /\ n >= 1 /\ left \in Seq(Results) /\ Len(left) = n
  <2>1. n \in Nat /\ n >= 1
    BY Numbers
  <2> QED
    BY <1>2, <1>3, <2>1
<1>5. left[Len(left)] \in Results
  BY <1>3, <1>4, <1>2
<1>6. (IF len = 0 THEN <<>> ELSE left) \in Strips
  <2>1. CASE len = 0
    BY <2>1, NoneIsStrip
  <2>2. CASE len # 0
    <3>1. left \in [1..len -> Results]
      BY <2>2, <1>2, <1>3
    <3> QED
      BY <2>2, <3>1 DEF Strips
  <2> QED
    BY <2>1, <2>2
<1> DEFINE s == IF len = 0 THEN <<>> ELSE left
           r == left[Len(left)]
           tb == [tabs[t] EXCEPT !.slot = r, !.count = 0, !.strip = s]
<1>7. tabs \in [Ids -> TabRecord] /\ tabs[t] \in TabRecord /\ tabs[t].open /\ 0 \in 0..MaxStrip
  BY TabParts, Numbers DEF Run, Open, TypeInv, Shapes
<1>8. tabs' = [tabs EXCEPT ![t].slot = r, ![t].count = 0, ![t].strip = s]
  BY <1>2
<1>9. r \in Results /\ s \in Strips
  BY <1>5, <1>6
<1> HIDE DEF r, s
<1>10. /\ tb \in TabRecord /\ tb.open /\ tb.name = tabs[t].name
       /\ tb.text = tabs[t].text /\ tb.base = tabs[t].base
  BY <1>7, <1>9 DEF TabRecord
<1>11. tabs' = [tabs EXCEPT ![t] = tb]
  BY <1>7, <1>8
<1> QED
  BY <1>10, <1>11

LEMMA RunTyped == ASSUME TypeInv, NEW t \in Ids, Run(t) PROVE TypeInv'
<1>1. tabs[t].open /\ UNCHANGED <<up, next, todo, disk, crashes, owed>>
      /\ typed' \in Texts /\ runs' \in Results
  BY Numbers DEF Run, Open, TypeInv, Shapes, Results
<1>2. PICK tb \in TabRecord : tb.open /\ tabs' = [tabs EXCEPT ![t] = tb]
  BY RanType
<1> QED
  BY <1>1, <1>2, OneTabTyped

LEMMA ActivateTyped == ASSUME TypeInv, NEW t \in Ids, Activate(t) PROVE TypeInv'
<1>1. up /\ UNCHANGED <<up, next, todo, saved, scratch, grids, counts, owed>> /\ Show(t)
  BY DEF Activate, Ready
<1>2. ListOK(todo', next')
  BY <1>1 DEF TypeInv
<1> QED
  BY <1>1, <1>2, ShownTyped

LEMMA UserTyped == ASSUME TypeInv, User PROVE TypeInv'
<1>1. ASSUME NEW t \in Ids, Type(t) \/ Run(t) \/ Activate(t) \/ CloseBuffer(t) PROVE TypeInv'
  BY <1>1, TypeTyped, RunTyped, ActivateTyped, CloseTyped
<1>2. ASSUME NEW n \in Names, OpenSaved(n) \/ DeleteSaved(n) PROVE TypeInv'
  BY <1>2, PersistTyped, DeleteTyped
<1>3. ASSUME NEW n \in Names, NEW t \in Ids, SaveAs(t, n) PROVE TypeInv'
  BY <1>3, SaveAsTyped
<1>4. ASSUME NEW n \in Names, NEW m \in Names, Rename(n, m) PROVE TypeInv'
  BY <1>4, RenameTyped
<1>5. ASSUME Persist \/ NewQuery \/ Quit PROVE TypeInv'
  BY <1>5, PersistTyped
<1> QED
  BY <1>1, <1>2, <1>3, <1>4, <1>5 DEF User

LEMMA CrashTyped == ASSUME TypeInv, Crash PROVE TypeInv'
<1>1. crashes' \in 0..MaxCrashes
  BY Numbers DEF Crash, TypeInv, Shapes
<1> QED
  BY <1>1, DownTyped DEF Crash

LEMMA AppearsTyped == ASSUME TypeInv, NEW n \in Names, Appears(n) PROVE TypeInv'
<1>1. typed + 1 \in Texts
  BY Numbers DEF Appears, TypeInv, Shapes, Texts
<1>2. saved' \in [Names -> Texts \cup {NoFile}] /\ owed' \subseteq Texts /\ typed' \in Texts
  BY <1>1 DEF Appears, TypeInv, Shapes
<1> QED
  BY <1>2 DEF Appears, TypeInv, Shapes, Bounded, ListOK, IdsUnused, memory

\* What a launch makes of a stored tab.
Brought(t) ==
  LET entry == stored.tabs[t]
      name == IF entry.name # Unsaved /\ saved[entry.name] = NoFile THEN Unsaved ELSE entry.name
      text == IF name = Unsaved THEN scratch[t] ELSE saved[name]
  IN  IF ~entry.open THEN NoTab
      ELSE [NoTab EXCEPT !.open = TRUE, !.name = name, !.text = text,
                         !.base = text, !.count = entry.count]

LEMMA BroughtType ==
  ASSUME TypeInv, NEW t \in Ids
  PROVE  /\ Brought(t) \in TabRecord /\ Brought(t).open = stored.tabs[t].open
         /\ ~stored.tabs[t].open => Brought(t) = NoTab
         /\ stored.tabs[t].open =>
              /\ Brought(t).name = IF stored.tabs[t].name # Unsaved
                                      /\ saved[stored.tabs[t].name] = NoFile
                                   THEN Unsaved ELSE stored.tabs[t].name
              /\ Brought(t).base = IF Brought(t).name = Unsaved THEN scratch[t]
                                   ELSE saved[Brought(t).name]
<1> DEFINE entry == stored.tabs[t]
           name == IF entry.name # Unsaved /\ saved[entry.name] = NoFile THEN Unsaved ELSE entry.name
           text == IF name = Unsaved THEN scratch[t] ELSE saved[name]
<1>1. entry \in EntryRecord
  BY TabParts
<1>2. entry.open \in BOOLEAN /\ entry.name \in Names \cup {Unsaved} /\ entry.count \in 0..MaxStrip
  BY <1>1 DEF EntryRecord
<1>3. name \in Names \cup {Unsaved} /\ (name # Unsaved => name \in Names /\ saved[name] # NoFile)
  BY <1>2
<1>4. text \in Texts
  BY <1>3 DEF TypeInv, Shapes
<1>5. NoTab \in TabRecord /\ ~NoTab.open
  BY NothingType
<1>6. CASE ~entry.open
  <2>1. Brought(t) = NoTab
    BY <1>6 DEF Brought
  <2>2. NoTab.open = FALSE /\ stored.tabs[t].open = FALSE
    BY <1>2, <1>5, <1>6 DEF TabRecord
  <2>3. Brought(t).open = FALSE /\ Brought(t) \in TabRecord
    BY <1>5, <2>1, <2>2
  <2> QED
    BY <2>1, <2>2, <2>3
<1>7. CASE entry.open
  <2> DEFINE tb == [NoTab EXCEPT !.open = TRUE, !.name = name, !.text = text,
                                 !.base = text, !.count = entry.count]
  <2>1. Brought(t) = tb
    BY <1>7 DEF Brought
  <2> HIDE DEF name, text
  <2>2. tb \in TabRecord /\ tb.open = TRUE /\ tb.name = name /\ tb.base = text
    BY <1>2, <1>3, <1>4, <1>5 DEF TabRecord
  <2> HIDE DEF tb
  <2>3. Brought(t).name = name /\ Brought(t).base = text /\ Brought(t) \in TabRecord
    BY <2>1, <2>2
  <2>4. Brought(t).open = TRUE
    BY <2>1, <2>2
  <2> QED
    BY <1>7, <2>3, <2>4 DEF name, text
<1> QED
  BY <1>2, <1>6, <1>7

LEMMA LaunchParts ==
  ASSUME TypeInv, Launch
  PROVE  /\ up' /\ next' = stored.next /\ ~up /\ todo = <<>> /\ todo' = <<>>
         /\ UNCHANGED <<saved, scratch, stored, counts, owed>>
         /\ tabs' = [t \in Ids |-> Brought(t)]
BY DEF Launch, Brought, TypeInv, Bounded

LEMMA LaunchTyped == ASSUME TypeInv, Launch PROVE TypeInv'
<1>1. stored.next \in 0..MaxTabs /\ stored.next \in Nat
  BY Numbers DEF TypeInv, Shapes
<1>2. tabs' \in [Ids -> TabRecord] /\ \A t \in Ids : tabs'[t] = Brought(t)
  BY LaunchParts, BroughtType
<1>3. \A t \in Ids : grids'[t] = IF ~stored.tabs[t].open THEN NoSnapshots
                                 ELSE [grids[t] EXCEPT !.strip =
                                         [k \in 1..MaxStrip |->
                                            IF k <= stored.tabs[t].count THEN @[k] ELSE 0]]
  BY DEF Launch
<1>4. \A t \in Ids : grids'[t] \in Snapshots
  <2> SUFFICES ASSUME NEW t \in Ids PROVE grids'[t] \in Snapshots
    OBVIOUS
  <2> DEFINE strip == [k \in 1..MaxStrip |->
                         IF k <= stored.tabs[t].count THEN grids[t].strip[k] ELSE 0]
  <2>1. grids[t] \in Snapshots /\ NoSnapshots \in Snapshots
    BY TabParts, NothingType
  <2>2. strip \in [1..MaxStrip -> Results]
    BY <2>1, Numbers DEF Snapshots
  <2>3. grids'[t] = IF ~stored.tabs[t].open THEN NoSnapshots
                    ELSE [grids[t] EXCEPT !.strip = strip]
    BY <1>3
  <2> HIDE DEF strip
  <2>4. [grids[t] EXCEPT !.strip = strip] \in Snapshots
    BY <2>1, <2>2 DEF Snapshots
  <2> QED
    BY <2>1, <2>3, <2>4
<1>5. grids' \in [Ids -> Snapshots]
  BY <1>4 DEF Launch
<1>6. Bounded'
  <2>1. \A t \in Ids : IF tabs'[t].open THEN t < stored.next ELSE tabs'[t] = NoTab
    BY <1>2, BroughtType DEF TypeInv, Bounded
  <2> QED
    BY <2>1, LaunchParts DEF TypeInv, Bounded
<1>7. IdsUnused'
  <2>1. \A t \in Ids : t >= stored.next => ~stored.tabs[t].open
    BY <1>1, Numbers DEF TypeInv, Bounded
  <2>2. \A t \in Ids : t >= stored.next => grids'[t] = NoSnapshots
    BY <1>3, <2>1
  <2> QED
    BY <2>2, LaunchParts DEF TypeInv, IdsUnused
<1>8. ListOK(todo', next')
  BY LaunchParts, NoStepsOK
<1> QED
  BY <1>1, <1>2, <1>5, <1>6, <1>7, <1>8, LaunchParts DEF TypeInv, Shapes, counts

LEMMA InitTyped == ASSUME Init PROVE TypeInv
<1>1. /\ up = TRUE /\ next = 1 /\ todo = <<>> /\ stored.next = 1
      /\ saved = [n \in Names |-> NoFile] /\ scratch = [t \in Ids |-> 0]
      /\ grids = [t \in Ids |-> NoSnapshots] /\ typed = 0 /\ runs = 0 /\ crashes = 0 /\ owed = {}
  BY DEF Init
<1>2. 1 \in 0..MaxTabs /\ 0 \in 0..MaxCrashes /\ 0 \in Texts /\ 0 \in Results
  BY Numbers
<1>3. \A t \in Ids : /\ tabs[t] \in TabRecord
                     /\ IF tabs[t].open THEN t = 0 ELSE tabs[t] = NoTab
                     /\ tabs[t].open = (t = 0) /\ tabs[t].name = Unsaved
                     /\ tabs[t].text = 0 /\ tabs[t].base = 0
  BY NothingType, Numbers DEF Init, NoTab, TabRecord
<1>4. tabs \in [Ids -> TabRecord]
  BY <1>3 DEF Init
<1>5. \A t \in Ids : /\ stored.tabs[t] \in EntryRecord /\ stored.tabs[t].open = (t = 0)
                     /\ stored.tabs[t].name = Unsaved
  BY NothingType DEF Init, NoEntry, EntryRecord
<1>6. stored \in [tabs : [Ids -> EntryRecord], next : 0..MaxTabs]
  BY <1>2, <1>5 DEF Init
<1>7. Shapes
  BY <1>1, <1>2, <1>4, <1>6, NothingType, Numbers DEF Shapes
<1>8. Bounded
  <2>1. \A t \in Ids : t = 0 => t < 1
    OBVIOUS
  <2> QED
    BY <1>1, <1>3, <1>5, <2>1 DEF Bounded
<1>9. IdsUnused
  BY <1>1 DEF IdsUnused
<1> QED
  BY <1>1, <1>7, <1>8, <1>9, NoStepsOK DEF TypeInv

LEMMA TypedAlways == Spec => []TypeInv
<1>1. Init => TypeInv
  BY InitTyped
<1>2. TypeInv /\ [Next]_vars => TypeInv'
  <2> SUFFICES ASSUME TypeInv, [Next]_vars PROVE TypeInv'
    OBVIOUS
  <2>1. CASE UNCHANGED vars
    BY <2>1 DEF vars, memory, disk, counts, TypeInv, Shapes, Bounded, ListOK, IdsUnused
  <2>2. CASE Next
    BY <2>2, StepsTyped, UserTyped, CrashTyped, LaunchTyped, AppearsTyped DEF Next
  <2> QED
    BY <2>1, <2>2
<1> QED
  BY <1>1, <1>2, PTL DEF Spec

\* Every value stays within its type, and every id in use below the next one,
\* as it is stored too, before and after every write to disk.
THEOREM TypeCorrect == Spec => []TypeOK
<1>1. TypeInv => TypeOK
  BY DEF TypeInv, TypeOK, Bounded
<1> QED
  BY <1>1, TypedAlways, PTL

\* An id that is not handed out has nothing on disk, wherever a crash came:
\* the next one is stored with the tab that takes it, before the tab writes.
THEOREM IdsStayUnused == Spec => []IdsUnused
<1>1. TypeInv => IdsUnused
  BY DEF TypeInv
<1> QED
  BY <1>1, TypedAlways, PTL

-----------------------------------------------------------------------------
(* No text is lost.                                                        *)

Buffer(t) == tabs[t].open /\ tabs[t].name = Unsaved
Named(t) == tabs[t].open /\ tabs[t].name # Unsaved
Untaken(n) == \A t \in Ids : stored.tabs[t].name # n

InFile(x) == \E n \in Names : saved[n] = x

\* The next launch brings up what a scratch file holds, and so would a crash now.
Holds(t) ==
  /\ stored.tabs[t].open
  /\ stored.tabs[t].name = Unsaved \/ saved[stored.tabs[t].name] = NoFile
  /\ up => Buffer(t)

Kept ==
  /\ 0 \notin owed
  /\ \A x \in owed : InFile(x) \/ \E t \in Ids : scratch[t] = x /\ Holds(t)

\* A tab is stored, under its name or, its query's file gone, a former one.
Synced ==
  \A t \in Ids : tabs[t].open => /\ stored.tabs[t].open
                                 /\ tabs[t].name \in {stored.tabs[t].name, Unsaved}

\* What a tab is stored under is gone while its text is in a scratch file.
Gone ==
  \A t \in Ids : stored.tabs[t].name # Unsaved =>
    /\ Buffer(t) => saved[stored.tabs[t].name] = NoFile
    /\ scratch[t] # 0 => /\ saved[stored.tabs[t].name] = NoFile
                         /\ tabs[t].name # stored.tabs[t].name

Unique ==
  \A t, u \in Ids :
    /\ tabs[t].name # Unsaved /\ tabs[t].name = tabs[u].name => t = u
    /\ stored.tabs[t].name # Unsaved /\ stored.tabs[t].name = stored.tabs[u].name => t = u

\* A tab's file has what the tab read or wrote last, but for a handler that is
\* about to forget the one, or has made away with the other.
Parting == {"remove", "forget", "remember", "name"}
Nearing(t, ops) == todo # <<>> /\ todo[1].tab = t /\ todo[1].op \in ops
Settled ==
  \A t \in Ids :
    /\ Buffer(t) => scratch[t] = tabs[t].base \/ Nearing(t, {"forget", "name"})
    /\ Named(t) => \/ saved[tabs[t].name] = tabs[t].base
                   \/ Nearing(t, Parting)

\* What each step finds when its turn comes, and which follow it.
Is(i, op, t) == i \in 1..Len(todo) /\ todo[i].op = op /\ todo[i].tab = t

InstallAt(s, i) == s.op = "install" =>
  /\ i = 1 /\ Len(todo) = 3 /\ Is(2, "forget", s.tab) /\ Is(3, "name", s.tab)
  /\ todo[3].to = s.to /\ Buffer(s.tab) /\ Untaken(s.to)

MoveAt(s, i) == s.op = "move" =>
  /\ \/ Len(todo) = i + 1 /\ Is(i + 1, "name", s.tab)
     \/ /\ Len(todo) = i + 3 /\ Is(i + 1, "forget", s.tab)
        /\ Is(i + 2, "remember", s.tab) /\ Is(i + 3, "name", s.tab)
  /\ todo[Len(todo)].to = s.to /\ s.name # s.to /\ Untaken(s.to)
  /\ Holders(s.name) = {} \/ Holders(s.name) = {s.tab}
  /\ s.tab \in Open => s.tab \in Holders(s.name)

NameAt(s, i) == s.op = "name" =>
  /\ i = Len(todo) /\ Holders(s.to) = {}
  /\ s.tab \in Open =>
       \/ \E j \in 1..(i - 1) : todo[j].op \in {"install", "move"}
       \/ /\ saved[s.to] = tabs[s.tab].base
          /\ \A j \in 1..(i - 1) : todo[j].op \in {"forget", "remember"}
          /\ scratch[s.tab] = 0 \/ \E j \in 1..(i - 1) : Is(j, "forget", s.tab)

OpenAt(s, i) == s.op = "open" /\ s.name # Unsaved => Holders(s.name) = {}

DeleteAt(s, i) == s.op = "delete" =>
  \/ Holders(s.name) = {}
  \/ Holders(s.name) = {s.tab} /\ Is(i + 1, "remove", s.tab)

ForgetAt(s, i) == s.op = "forget" =>
  \/ s.tab \notin Open
  \/ \E j \in 1..(i - 1) : Is(j, "remove", s.tab)
  \/ Named(s.tab) /\ Is(i + 1, "remember", s.tab) /\ Is(i + 2, "name", s.tab)
  \/ /\ Is(i + 1, "name", s.tab)
     /\ \/ i = 2 /\ Is(1, "install", s.tab)
        \/ i = 1 /\ (scratch[s.tab] \in owed => InFile(scratch[s.tab]))

RememberAt(s, i) == s.op = "remember" /\ s.tab \in Open => Is(i + 1, "name", s.tab)

PlanAt(s, i) ==
  /\ InstallAt(s, i) /\ MoveAt(s, i) /\ NameAt(s, i) /\ OpenAt(s, i)
  /\ DeleteAt(s, i) /\ ForgetAt(s, i) /\ RememberAt(s, i)

Plan == \A i \in 1..Len(todo) : PlanAt(todo[i], i)

TextInv == Kept /\ Synced /\ Gone /\ Unique /\ Settled /\ Plan

LEMMA TextParts ==
  ASSUME TypeInv, TextInv
  PROVE  /\ owed \subseteq Texts /\ 0 \notin owed /\ NoFile \notin Texts /\ NoFile \notin owed
         /\ \A n \in Names : saved[n] \in Texts \cup {NoFile}
         /\ \A t \in Ids : /\ tabs[t].name # Unsaved => Named(t)
                           /\ Buffer(t) => stored.tabs[t].open
                           /\ Named(t) => /\ stored.tabs[t].name = tabs[t].name
                                          /\ stored.tabs[t].open
                                          /\ tabs[t].name \in Names
                                          /\ scratch[t] = 0
                           /\ stored.tabs[t].name \in Names \cup {Unsaved}
                           /\ tabs[t].base \in Texts /\ tabs[t].text \in Texts
                           /\ scratch[t] \in Texts
<1>1. /\ owed \subseteq Texts /\ 0 \notin owed /\ NoFile \notin Texts
      /\ \A n \in Names : saved[n] \in Texts \cup {NoFile}
  BY Numbers DEF TypeInv, Shapes, TextInv, Kept
<1>2. ASSUME NEW t \in Ids
      PROVE  /\ tabs[t].name # Unsaved => Named(t)
             /\ Buffer(t) => stored.tabs[t].open
             /\ Named(t) => /\ stored.tabs[t].name = tabs[t].name /\ stored.tabs[t].open
                            /\ tabs[t].name \in Names
                            /\ scratch[t] = 0
             /\ stored.tabs[t].name \in Names \cup {Unsaved}
             /\ tabs[t].base \in Texts /\ tabs[t].text \in Texts /\ scratch[t] \in Texts
  <2>1. /\ tabs[t].base \in Texts /\ tabs[t].text \in Texts /\ scratch[t] \in Texts
        /\ stored.tabs[t].name \in Names \cup {Unsaved} /\ tabs[t].name \in Names \cup {Unsaved}
        /\ ~tabs[t].open => tabs[t].name = Unsaved
    BY TabParts DEF EntryRecord, TypeInv, Shapes
  <2>2. tabs[t].open => stored.tabs[t].open /\ tabs[t].name \in {stored.tabs[t].name, Unsaved}
    BY DEF TextInv, Synced
  <2>3. Named(t) => stored.tabs[t].name = tabs[t].name
    BY <2>2 DEF Named
  <2>4. Named(t) => scratch[t] = 0
    BY <2>3 DEF TextInv, Gone, Named
  <2> QED
    BY <2>1, <2>2, <2>3, <2>4 DEF Named, Buffer
<1> QED
  BY <1>1, <1>2

LEMMA NoPlan == ASSUME todo' = <<>> PROVE Plan'
<1>1. Len(todo') = 0 /\ 1..0 = {}
  OBVIOUS
<1> QED
  BY <1>1 DEF Plan

LEMMA AbortPlan == ASSUME TypeInv, todo # <<>>, Abort PROVE Plan'
<1>1. todo \in Seq(StepRecord)
  BY DEF TypeInv, ListOK
<1>2. \A i \in 1..Len(todo') : todo'[i].op \in {"text", "exit", "pass"}
  BY <1>1, AbortRest
<1> QED
  BY <1>2 DEF Plan, PlanAt, RememberAt, InstallAt, MoveAt, NameAt, OpenAt, DeleteAt, ForgetAt

\* A step is done and what holds of those behind it does still.
LEMMA WentPlan ==
  ASSUME TypeInv, Plan, todo # <<>>, Went,
         todo[1].op \notin {"install", "move"},
         todo[1].op = "remove" => todo[1].tab \notin Open',
         todo[1].op \in {"forget", "remember"} => UNCHANGED <<saved, tabs>>,
         todo[1].op = "forget" => scratch' = [scratch EXCEPT ![todo[1].tab] = 0],
         todo[1].op = "remember" => scratch' = scratch,
         \A t \in Ids : \/ tabs'[t].open = tabs[t].open /\ tabs'[t].name = tabs[t].name
                        \/ tabs'[t].open = FALSE,
         \A n \in Names : Untaken(n) => Untaken(n)'
  PROVE  Plan'
<1>1. /\ todo \in Seq(StepRecord) /\ Len(todo) \in Nat
      /\ Len(todo') = Len(todo) - 1 /\ Len(todo) >= 1
      /\ \A i \in 1..Len(todo') : todo'[i] = todo[i + 1] /\ i + 1 \in 1..Len(todo)
  BY WentRest DEF TypeInv, ListOK
<1>2. /\ Open' \subseteq Open
      /\ \A n : Holders(n)' \subseteq Holders(n)
      /\ \A n : \A t \in Open' : t \in Holders(n) => t \in Holders(n)'
  BY DEF Open, Holders
<1>3. \A t \in Open' : Named(t) => Named(t)'
  BY DEF Named, Open
<1>4. \A i, op, t : Is(i, op, t)' <=> i \in 1..Len(todo') /\ Is(i + 1, op, t)
  BY <1>1 DEF Is
<1> SUFFICES ASSUME NEW i \in 1..Len(todo'), NEW s, s = todo'[i]
             PROVE  PlanAt(s, i)'
  BY DEF Plan
<1> DEFINE t == s.tab
<1>5. /\ s = todo[i + 1] /\ i + 1 \in 1..Len(todo) /\ i \in Nat /\ i >= 1
      /\ todo'[Len(todo')] = todo[Len(todo)]
  BY <1>1
<1>6. PlanAt(s, i + 1) /\ StepOK(s, i + 1 = Len(todo), next)
  BY <1>5 DEF Plan, TypeInv, ListOK
<1>7. InstallAt(s, i)'
  BY <1>5, <1>6 DEF PlanAt, InstallAt
<1>8. MoveAt(s, i)'
  <2> SUFFICES ASSUME s.op = "move" PROVE MoveAt(s, i)'
    BY DEF MoveAt
  <2>1. /\ \/ Len(todo) = i + 2 /\ Is(i + 2, "name", t)
           \/ /\ Len(todo) = i + 4 /\ Is(i + 2, "forget", t)
              /\ Is(i + 3, "remember", t) /\ Is(i + 4, "name", t)
        /\ todo[Len(todo)].to = s.to
        /\ s.name # s.to /\ Untaken(s.to)
        /\ Holders(s.name) = {} \/ Holders(s.name) = {t}
        /\ t \in Open => t \in Holders(s.name)
    <3>1. (i + 1) + 1 = i + 2 /\ (i + 1) + 2 = i + 3 /\ (i + 1) + 3 = i + 4
      BY <1>5
    <3>2. MoveAt(s, i + 1)
      BY <1>6 DEF PlanAt
    <3> HIDE DEF t
    <3> QED
      BY <3>1, <3>2 DEF MoveAt, t
  <2>2. \/ Len(todo') = i + 1 /\ Is(i + 1, "name", t)'
        \/ /\ Len(todo') = i + 3 /\ Is(i + 1, "forget", t)'
           /\ Is(i + 2, "remember", t)' /\ Is(i + 3, "name", t)'
    <3>1. /\ i + 1 \in Nat /\ i + 2 \in Nat /\ i + 3 \in Nat
          /\ (i + 1) + 1 = i + 2 /\ (i + 2) + 1 = i + 3 /\ (i + 3) + 1 = i + 4
      BY <1>5
    <3>2. Len(todo) = i + 2 => Len(todo') = i + 1 /\ i + 1 \in 1..Len(todo')
      BY <1>1, <1>5
    <3>3. Len(todo) = i + 4 => /\ Len(todo') = i + 3
                               /\ i + 1 \in 1..Len(todo') /\ i + 2 \in 1..Len(todo')
                               /\ i + 3 \in 1..Len(todo')
      BY <1>1, <1>5
    <3> QED
      BY <1>4, <2>1, <3>1, <3>2, <3>3
  <2>3. Untaken(s.to)'
    BY <2>1, <1>6 DEF StepOK
  <2>4. /\ Holders(s.name)' = {} \/ Holders(s.name)' = {t}
        /\ t \in Open' => t \in Holders(s.name)'
    BY <1>2, <2>1
  <2> QED
    BY <1>5, <2>1, <2>2, <2>3, <2>4 DEF MoveAt
<1>9. NameAt(s, i)'
  <2> SUFFICES ASSUME s.op = "name" PROVE NameAt(s, i)'
    BY DEF NameAt
  <2>1. i = Len(todo') /\ Holders(s.to)' = {}
    BY <1>2, <1>1, <1>5, <1>6 DEF PlanAt, NameAt
  <2>0. \A j \in 1..i : j # 1 => /\ j - 1 \in 1..(i - 1) /\ j - 1 \in 1..Len(todo')
                                 /\ (j - 1) + 1 = j /\ todo'[j - 1] = todo[j]
    BY <1>1, <1>5
  <2>2. ASSUME t \in Open
        PROVE  \/ \E j \in 1..(i - 1) : todo'[j].op \in {"install", "move"}
               \/ /\ saved'[s.to] = tabs'[t].base
                  /\ \A j \in 1..(i - 1) : todo'[j].op \in {"forget", "remember"}
                  /\ scratch'[t] = 0 \/ \E j \in 1..(i - 1) : Is(j, "forget", t)'
    <3>1. \/ \E j \in 1..i : todo[j].op \in {"install", "move"}
          \/ /\ saved[s.to] = tabs[t].base
             /\ \A j \in 1..i : todo[j].op \in {"forget", "remember"}
             /\ scratch[t] = 0 \/ \E j \in 1..i : Is(j, "forget", t)
      BY <1>5, <1>6, <2>2 DEF PlanAt, NameAt
    <3>2. CASE \E j \in 1..i : todo[j].op \in {"install", "move"}
      <4>1. PICK j \in 1..i : todo[j].op \in {"install", "move"}
        BY <3>2
      <4>2. j # 1
        BY <4>1
      <4> QED
        BY <4>1, <4>2, <2>0
    <3>3. CASE /\ saved[s.to] = tabs[t].base
               /\ \A j \in 1..i : todo[j].op \in {"forget", "remember"}
               /\ scratch[t] = 0 \/ \E j \in 1..i : Is(j, "forget", t)
      <4>1. 1 \in 1..i /\ todo[1].op \in {"forget", "remember"} /\ t \in Ids
        BY <1>5, <2>2, <3>3 DEF Open
      <4>2. saved' = saved /\ tabs' = tabs
        BY <4>1
      <4>3. \A j \in 1..(i - 1) : j + 1 \in 1..i /\ j \in 1..Len(todo') /\ todo'[j] = todo[j + 1]
        BY <1>1, <1>5
      <4>4. \A j \in 1..(i - 1) : todo'[j].op \in {"forget", "remember"}
        BY <3>3, <4>3
      <4>5. CASE Is(1, "forget", t)
        <5>1. scratch' = [scratch EXCEPT ![t] = 0]
          BY <4>5 DEF Is
        <5>2. scratch'[t] = 0
          BY <4>1, <5>1 DEF TypeInv, Shapes
        <5> QED
          BY <3>3, <4>2, <4>4, <5>2
      <4>6. CASE scratch[t] = 0
        <5>1. scratch'[t] = 0
          BY <4>1, <4>6 DEF TypeInv, Shapes
        <5> QED
          BY <3>3, <4>2, <4>4, <5>1
      <4>7. CASE \E j \in 1..i : j # 1 /\ Is(j, "forget", t)
        <5>1. PICK j \in 1..i : j # 1 /\ Is(j, "forget", t)
          BY <4>7
        <5>2. j - 1 \in 1..(i - 1) /\ Is(j - 1, "forget", t)'
          BY <1>4, <2>0, <5>1
        <5> QED
          BY <3>3, <4>2, <4>4, <5>2
      <4> QED
        BY <3>3, <4>5, <4>6, <4>7
    <3> QED
      BY <3>1, <3>2, <3>3
  <2> QED
    BY <1>2, <2>1, <2>2 DEF NameAt
<1>10. OpenAt(s, i)'
  BY <1>2, <1>6 DEF PlanAt, OpenAt
<1>11. DeleteAt(s, i)'
  <2> SUFFICES ASSUME s.op = "delete" PROVE DeleteAt(s, i)'
    BY DEF DeleteAt
  <2>1. \/ Holders(s.name) = {}
        \/ Holders(s.name) = {t} /\ Is(i + 2, "remove", t)
    BY <1>5, <1>6 DEF PlanAt, DeleteAt
  <2>2. Is(i + 2, "remove", t) => Is(i + 1, "remove", t)'
    <3>1. Is(i + 2, "remove", t) => i + 1 \in 1..Len(todo')
      BY <1>1, <1>5 DEF Is
    <3>2. (i + 1) + 1 = i + 2
      BY <1>5
    <3> QED
      BY <1>4, <3>1, <3>2
  <2>3. Holders(s.name)' = {} \/ Holders(s.name)' = {t} \/ Holders(s.name) # {t}
    BY <1>2
  <2>4. Holders(s.name) = {} => Holders(s.name)' = {}
    BY <1>2
  <2> QED
    BY <2>1, <2>2, <2>3, <2>4 DEF DeleteAt
<1>12. ForgetAt(s, i)'
  <2> SUFFICES ASSUME s.op = "forget" PROVE ForgetAt(s, i)'
    BY DEF ForgetAt
  <2>1. t \in Ids
    BY <1>6 DEF StepOK
  <2>2. \/ t \notin Open
        \/ \E j \in 1..i : Is(j, "remove", t)
        \/ Named(t) /\ Is(i + 2, "remember", t) /\ Is(i + 3, "name", t)
    <3>1. ForgetAt(s, i + 1) /\ (i + 1) + 1 = i + 2 /\ (i + 1) + 2 = i + 3
      BY <1>5, <1>6 DEF PlanAt
    <3> QED
      BY <1>5, <3>1 DEF ForgetAt, Is
  <2>3. CASE t \notin Open
    BY <1>2, <2>3 DEF ForgetAt
  <2>5. CASE Named(t) /\ Is(i + 2, "remember", t) /\ Is(i + 3, "name", t)
    <3>1. /\ i + 1 \in 1..Len(todo') /\ (i + 1) + 1 = i + 2
          /\ i + 2 \in 1..Len(todo') /\ (i + 2) + 1 = i + 3
      BY <1>1, <1>5, <2>5 DEF Is
    <3>2. /\ Is(i + 1, "remember", t)' /\ Is(i + 2, "name", t)'
          /\ t \in Open' => Named(t)'
      BY <1>3, <1>4, <2>1, <2>5, <3>1
    <3> QED
      BY <3>2 DEF ForgetAt
  <2>4. CASE \E j \in 1..i : Is(j, "remove", t)
    <3>1. PICK j \in 1..i : Is(j, "remove", t)
      BY <2>4
    <3>2. j = 1 => t \notin Open'
      BY <3>1 DEF Is
    <3>3. j # 1 => /\ j - 1 \in 1..(i - 1) /\ j - 1 \in 1..Len(todo')
                  /\ (j - 1) + 1 = j
      BY <3>1, <1>1, <1>5 DEF Is
    <3>4. j # 1 => Is(j - 1, "remove", t)'
      BY <1>4, <3>1, <3>3
    <3> QED
      BY <3>3, <3>4, <3>2 DEF ForgetAt
  <2> QED
    BY <2>2, <2>3, <2>4, <2>5
<1>13. RememberAt(s, i)'
  <2> SUFFICES ASSUME s.op = "remember", t \in Open' PROVE Is(i + 1, "name", t)'
    BY DEF RememberAt
  <2>1. Is(i + 2, "name", t) /\ (i + 1) + 1 = i + 2
    BY <1>2, <1>5, <1>6 DEF PlanAt, RememberAt
  <2>2. i + 1 \in 1..Len(todo')
    BY <1>1, <1>5, <2>1 DEF Is
  <2> QED
    BY <1>4, <2>1, <2>2
<1> QED
  BY <1>7, <1>8, <1>9, <1>10, <1>11, <1>12, <1>13 DEF PlanAt

\* A step on neither a text nor a name.
LEMMA UnmovedTexts ==
  ASSUME TypeInv, TextInv, UNCHANGED <<up, tabs, saved, scratch, stored, owed>>, Plan',
         \A t \in Ids : ~Nearing(t, Parting)
  PROVE  TextInv'
<1>1. Kept' /\ Synced' /\ Gone' /\ Unique'
  BY DEF TextInv, Kept, Synced, Gone, Unique, InFile, Holds, Buffer
<1>2. Settled'
  BY DEF TextInv, Settled, Nearing, Parting, Buffer, Named
<1> QED
  BY <1>1, <1>2 DEF TextInv

LEMMA HeadPlan ==
  ASSUME TypeInv, Plan, NEW op, Doing(op)
  PROVE  /\ PlanAt(Step, 1) /\ todo # <<>> /\ todo[1] = Step /\ Step.op = op
         /\ \A t, ops : Nearing(t, ops) <=> Step.tab = t /\ op \in ops
<1>1. todo # <<>> /\ Step = todo[1] /\ Len(todo) >= 1 /\ Len(todo) \in Nat /\ Step.op = op
  BY StepParts
<1>2. 1 \in 1..Len(todo)
  BY <1>1
<1> QED
  BY <1>1, <1>2 DEF Plan, Nearing

LEMMA QuietTexts == ASSUME TypeInv, TextInv, WriteGrids \/ PassOver \/ RemoveGrid PROVE TextInv'
<1>1. /\ UNCHANGED <<up, tabs, saved, scratch, stored, owed>> /\ Went
      /\ \E op \in {"grids", "pass", "text", "drop"} : Doing(op)
  BY DEF WriteGrids, PassOver, RemoveGrid, memory, disk
<1>2. PICK op \in {"grids", "pass", "text", "drop"} : Doing(op)
  BY <1>1
<1>3. \A t \in Ids : ~Nearing(t, Parting)
  BY <1>2, HeadPlan DEF TextInv, Parting
<1>4. Plan'
  BY <1>1, <1>2, HeadPlan, WentPlan DEF TextInv, Untaken
<1> QED
  BY <1>1, <1>3, <1>4, UnmovedTexts

LEMMA FailedTexts == ASSUME TypeInv, TextInv, WriteFails PROVE TextInv'
<1>1. /\ UNCHANGED <<up, tabs, saved, scratch, stored, owed>> /\ Abort
      /\ \E op \in {"text", "install", "move"} : Doing(op)
  BY DEF WriteFails, memory, disk
<1>2. PICK op \in {"text", "install", "move"} : Doing(op)
  BY <1>1
<1>3. \A t \in Ids : ~Nearing(t, Parting)
  BY <1>2, HeadPlan DEF TextInv, Parting
<1>4. Plan'
  BY <1>1, <1>2, StepParts, AbortPlan
<1> QED
  BY <1>1, <1>3, <1>4, UnmovedTexts

LEMMA WriteTextTexts == ASSUME TypeInv, TextInv, WriteText PROVE TextInv'
<1> DEFINE t == Step.tab
           n == tabs[t].name
<1>1. /\ up /\ todo # <<>> /\ t \in Ids /\ tabs[t].open /\ up' = up /\ stored' = stored
      /\ todo[1].op = "text" /\ Went /\ Wrote(t) /\ tabs' = Based(t)
  BY StepParts, HeadPlan DEF WriteText, Open, TextInv
<1>2. \A u \in Ids : /\ tabs'[u].open = tabs[u].open /\ tabs'[u].name = tabs[u].name
                     /\ tabs'[u].base = IF u = t THEN tabs[t].text ELSE tabs[u].base
  BY <1>1, TextsType
<1>3. \A u, ops : ~Nearing(u, ops) \/ "text" \in ops
  BY HeadPlan DEF WriteText, TextInv
<1>4. Plan'
  <2>1. \A m \in Names : Untaken(m) => Untaken(m)'
    BY <1>1 DEF Untaken
  <2> QED
    BY <1>1, <1>2, <2>1, WentPlan DEF TextInv
<1>5. \A u \in Ids : /\ Buffer(u)' = Buffer(u) /\ Named(u)' = Named(u)
                     /\ Buffer(u) => scratch[u] = tabs[u].base
                     /\ Named(u) => saved[tabs[u].name] = tabs[u].base
  BY <1>2, <1>3 DEF TextInv, Settled, Parting, Buffer, Named
<1>6. \A x \in owed' : x # 0 /\ (x = tabs[t].text \/ (x \in owed /\ x # tabs[t].base))
  BY <1>1, TextParts DEF Wrote
<1>7. Synced' /\ Unique'
  BY <1>1, <1>2 DEF TextInv, Synced, Unique
<1> HIDE DEF t
<1>8. CASE n = Unsaved
  <2>1. Buffer(t)
    BY <1>1, <1>8 DEF Buffer
  <2>2. scratch' = [scratch EXCEPT ![t] = tabs[t].text] /\ saved' = saved
    BY <1>8 DEF WriteText, t
  <2>3. scratch'[t] = tabs[t].text /\ \A u \in Ids : u # t => scratch'[u] = scratch[u]
    BY <1>1, <2>2 DEF TypeInv, Shapes
  <2>4. \A u \in Ids : Holds(u)' = Holds(u)
    BY <1>1, <1>5, <2>2 DEF Holds
  <2>5. Holds(t)
    BY <1>1, <2>1, TextParts DEF TextInv, Gone, Holds
  <2>6. Kept'
    <3>1. ASSUME NEW x \in owed' PROVE InFile(x)' \/ \E u \in Ids : scratch'[u] = x /\ Holds(u)'
      <4>1. CASE x = tabs[t].text
        BY <4>1, <1>1, <2>3, <2>4, <2>5
      <4>2. CASE x \in owed /\ x # tabs[t].base
        <5>1. InFile(x) \/ \E u \in Ids : scratch[u] = x /\ Holds(u)
          BY <4>2 DEF TextInv, Kept
        <5>2. InFile(x) => InFile(x)'
          BY <2>2 DEF InFile
        <5>3. \A u \in Ids : scratch[u] = x => u # t
          BY <4>2, <1>5, <2>1
        <5> QED
          BY <5>1, <5>2, <5>3, <2>3, <2>4
      <4> QED
        BY <4>1, <4>2, <1>6
    <3> QED
      BY <3>1, <1>6 DEF Kept
  <2>7. Gone'
    <3>1. \A u \in Ids : stored.tabs[u].name # Unsaved =>
            /\ Buffer(u) => saved[stored.tabs[u].name] = NoFile
            /\ scratch'[u] # 0 => /\ saved[stored.tabs[u].name] = NoFile
                                  /\ tabs[u].name # stored.tabs[u].name
      BY <1>8, <2>1, <2>3 DEF TextInv, Gone
    <3> QED
      BY <1>1, <1>2, <1>5, <2>2, <3>1 DEF Gone
  <2>8. Settled'
    BY <1>2, <1>5, <2>2, <2>3, <2>1, <1>1 DEF Settled, Buffer, Named
  <2> QED
    BY <1>4, <1>7, <2>6, <2>7, <2>8 DEF TextInv
<1>9. CASE n # Unsaved
  <2>1. Named(t) /\ n \in Names /\ stored.tabs[t].name = n
    BY <1>1, <1>9, TextParts DEF Named
  <2>2. saved' = [saved EXCEPT ![n] = tabs[t].text] /\ scratch' = scratch
    BY <1>9 DEF WriteText, t
  <2>3. saved'[n] = tabs[t].text /\ \A m \in Names : m # n => saved'[m] = saved[m]
    BY <2>1, <2>2 DEF TypeInv, Shapes
  <2>4. saved[n] = tabs[t].base /\ saved[n] # NoFile
    BY <1>1, <1>5, <2>1, TextParts
  <2>5. \A u \in Ids : u # t => stored.tabs[u].name # n /\ tabs[u].name # n
    BY <1>1, <1>9, <2>1 DEF TextInv, Unique
  <2>6. \A u \in Ids : Holds(u) => Holds(u)'
    <3> SUFFICES ASSUME NEW u \in Ids, Holds(u) PROVE Holds(u)'
      OBVIOUS
    <3>1. Buffer(u) /\ u # t
      BY <1>1, <2>1 DEF Holds, Buffer, Named
    <3>2. stored.tabs[u].name \in Names \cup {Unsaved} /\ stored.tabs[u].name # n
      BY <2>5, <3>1, TextParts
    <3> QED
      BY <1>1, <1>5, <2>3, <3>1, <3>2 DEF Holds
  <2>7. Kept'
    <3>1. ASSUME NEW x \in owed' PROVE InFile(x)' \/ \E u \in Ids : scratch'[u] = x /\ Holds(u)'
      <4>1. CASE x = tabs[t].text
        BY <4>1, <2>1, <2>3 DEF InFile
      <4>2. CASE x \in owed /\ x # tabs[t].base
        <5>1. InFile(x) \/ \E u \in Ids : scratch[u] = x /\ Holds(u)
          BY <4>2 DEF TextInv, Kept
        <5>2. InFile(x) => InFile(x)'
          BY <2>3, <2>4, <4>2 DEF InFile
        <5> QED
          BY <5>1, <5>2, <2>2, <2>6
      <4> QED
        BY <4>1, <4>2, <1>6
    <3> QED
      BY <3>1, <1>6 DEF Kept
  <2>8. Gone'
    <3> SUFFICES ASSUME NEW u \in Ids, stored.tabs[u].name # Unsaved
                 PROVE  /\ Buffer(u) => saved'[stored.tabs[u].name] = NoFile
                        /\ scratch[u] # 0 => /\ saved'[stored.tabs[u].name] = NoFile
                                             /\ tabs[u].name # stored.tabs[u].name
      BY <1>1, <1>2, <1>5, <2>2 DEF Gone
    <3>1. /\ Buffer(u) => saved[stored.tabs[u].name] = NoFile
          /\ scratch[u] # 0 => /\ saved[stored.tabs[u].name] = NoFile
                               /\ tabs[u].name # stored.tabs[u].name
          /\ stored.tabs[u].name \in Names
      BY TextParts DEF TextInv, Gone
    <3> QED
      BY <2>3, <2>4, <3>1
  <2>9. Settled'
    <3> SUFFICES ASSUME NEW u \in Ids
                 PROVE  /\ Buffer(u) => scratch[u] = tabs'[u].base
                        /\ Named(u) => saved'[tabs[u].name] = tabs'[u].base
      BY <1>2, <1>5, <2>2 DEF Settled
    <3>1. CASE u = t
      BY <1>1, <1>2, <2>1, <2>3, <3>1 DEF Buffer, Named
    <3>2. CASE u # t
      BY <1>2, <1>5, <2>3, <2>5, <3>2, TextParts
    <3> QED
      BY <3>1, <3>2
  <2> QED
    BY <1>4, <1>7, <2>7, <2>8, <2>9 DEF TextInv
<1> QED
  BY <1>8, <1>9

\* The steps that follow the first.
LEMMA InstallNext ==
  ASSUME TypeInv, TextInv, Install, NEW t, NEW n, t = Step.tab, n = Step.to
  PROVE  /\ todo' \in Seq(StepRecord) /\ Len(todo') = 2
         /\ todo'[1].op = "forget" /\ todo'[1].tab = t
         /\ todo'[2].op = "name" /\ todo'[2].tab = t /\ todo'[2].to = n
         /\ Buffer(t) /\ Untaken(n) /\ Holders(n) = {} /\ t \in Ids /\ n \in Names /\ up
<1>1. /\ Doing("install") /\ Went /\ up /\ todo # <<>> /\ t \in Ids /\ n \in Names
      /\ todo \in Seq(StepRecord) /\ PlanAt(Step, 1) /\ Step.op = "install"
  BY StepParts, HeadPlan DEF Install, TextInv, TypeInv, ListOK, StepOK
<1>2. /\ Len(todo) = 3 /\ Is(2, "forget", t) /\ Is(3, "name", t) /\ todo[3].to = n
      /\ Buffer(t) /\ Untaken(n)
  BY <1>1 DEF PlanAt, InstallAt
<1>3. Holders(n) = {}
  <2>1. PlanAt(todo[3], 3) /\ todo[3].op = "name"
    BY <1>2 DEF Is, TextInv, Plan
  <2> QED
    BY <1>2, <2>1 DEF PlanAt, NameAt
<1>4. Len(todo') = 2 /\ todo'[1] = todo[2] /\ todo'[2] = todo[3] /\ todo' \in Seq(StepRecord)
  <2>1. /\ todo' \in Seq(StepRecord) /\ Len(todo') = Len(todo) - 1
        /\ \A i \in 1..Len(todo') : todo'[i] = todo[i + 1]
    BY <1>1, WentRest
  <2>2. 1 \in 1..2 /\ 2 \in 1..2 /\ Len(todo') = 2 /\ 1 + 1 = 2 /\ 2 + 1 = 3
    BY <1>2, <2>1
  <2> QED
    BY <2>1, <2>2
<1> QED
  BY <1>1, <1>2, <1>3, <1>4 DEF Is

LEMMA InstallTexts == ASSUME TypeInv, TextInv, Install PROVE TextInv'
<1>0. PICK t, n : t = Step.tab /\ n = Step.to
  OBVIOUS
<1>1. /\ Len(todo') = 2 /\ todo'[1].op = "forget" /\ todo'[1].tab = t
      /\ todo'[2].op = "name" /\ todo'[2].tab = t /\ todo'[2].to = n
      /\ Buffer(t) /\ Untaken(n) /\ Holders(n) = {} /\ t \in Ids /\ n \in Names /\ up
      /\ todo' # <<>>
  <2>1. Len(todo') = 2 => todo' # <<>>
    OBVIOUS
  <2> QED
    BY <1>0, <2>1, InstallNext
<1>2. /\ saved[n] = NoFile /\ saved' = [saved EXCEPT ![n] = tabs[t].text] /\ Wrote(t)
      /\ tabs' = Based(t) /\ UNCHANGED <<up, next, scratch, stored>>
  BY <1>0 DEF Install
<1>3. \A u \in Ids : /\ tabs'[u].open = tabs[u].open /\ tabs'[u].name = tabs[u].name
                     /\ tabs'[u].base = IF u = t THEN tabs[t].text ELSE tabs[u].base
  BY <1>1, <1>2, TextsType
<1>4. \A u, ops : ~Nearing(u, ops) \/ "install" \in ops
  BY HeadPlan DEF Install, TextInv
<1>5. \A u \in Ids : /\ Buffer(u)' = Buffer(u) /\ Named(u)' = Named(u)
                     /\ Buffer(u) => scratch[u] = tabs[u].base
                     /\ Named(u) => saved[tabs[u].name] = tabs[u].base
  BY <1>3, <1>4 DEF TextInv, Settled, Parting, Buffer, Named
<1>6. \A x \in owed' : /\ x # 0 /\ x # NoFile
                       /\ x = tabs[t].text \/ (x \in owed /\ x # tabs[t].base)
  BY <1>1, <1>2, TextParts DEF Wrote
<1>7. Synced' /\ Unique'
  BY <1>2, <1>3 DEF TextInv, Synced, Unique
<1>8. Open' = Open /\ \A m : Holders(m)' = Holders(m)
  BY <1>3 DEF Open, Holders
<1>9. saved'[n] = tabs[t].text /\ \A m \in Names : m # n => saved'[m] = saved[m]
  BY <1>1, <1>2 DEF TypeInv, Shapes
<1>10. \A u \in Ids : /\ stored.tabs[u].name # n
                      /\ stored.tabs[u].name # Unsaved =>
                           saved'[stored.tabs[u].name] = saved[stored.tabs[u].name]
  BY <1>1, <1>9, TextParts DEF Untaken
<1>11. \A x : InFile(x) /\ x # NoFile => InFile(x)'
  BY <1>2, <1>9 DEF InFile
<1>12. Kept'
  <2>1. \A u \in Ids : Holds(u)' = Holds(u)
    BY <1>2, <1>5, <1>10 DEF Holds
  <2>2. ASSUME NEW x \in owed' PROVE InFile(x)' \/ \E u \in Ids : scratch'[u] = x /\ Holds(u)'
    <3>1. CASE x = tabs[t].text
      BY <3>1, <1>1, <1>9 DEF InFile
    <3>2. CASE x \in owed
      BY <3>2, <2>1, <1>2, <1>6, <1>11 DEF TextInv, Kept
    <3> QED
      BY <3>1, <3>2, <1>6
  <2> QED
    BY <2>2, <1>6 DEF Kept
<1>13. Gone'
  BY <1>2, <1>3, <1>5, <1>10 DEF TextInv, Gone
<1>14. Settled'
  <2>1. Nearing(t, {"forget", "name"})'
    BY <1>1 DEF Nearing
  <2>2. ASSUME NEW u \in Ids
        PROVE  /\ Buffer(u) => scratch'[u] = tabs'[u].base \/ Nearing(u, {"forget", "name"})'
               /\ Named(u) => saved'[tabs'[u].name] = tabs'[u].base
    <3>1. Named(u) => u # t /\ tabs[u].name \in Names /\ tabs[u].name # n
      BY <1>1, <1>10, TextParts DEF Named, Buffer
    <3> QED
      BY <2>1, <1>2, <1>3, <1>5, <1>9, <3>1
  <2> QED
    BY <2>2, <1>5 DEF Settled
<1>15. Plan'
  <2>1. PICK a, b : a = todo'[1] /\ b = todo'[2]
    OBVIOUS
  <2>2. /\ a.op = "forget" /\ a.tab = t /\ b.op = "name" /\ b.tab = t /\ b.to = n
        /\ Is(1, "forget", t)' /\ Is(2, "name", t)'
    BY <1>1, <2>1 DEF Is
  <2>3. PlanAt(a, 1)'
    <3>1. scratch'[t] \in owed' => scratch'[t] = tabs[t].text
      BY <1>1, <1>2, <1>5, <1>6
    <3>2. \A x : x = tabs[t].text => InFile(x)'
      BY <1>1, <1>9 DEF InFile
    <3>3. ForgetAt(a, 1)'
      BY <1>1, <2>2, <3>1, <3>2, 1 + 1 = 2 DEF ForgetAt
    <3> QED
      BY <2>2, <3>3 DEF PlanAt, RememberAt, InstallAt, MoveAt, NameAt, OpenAt, DeleteAt
  <2>4. PlanAt(b, 2)'
    <3>1. tabs'[t].base = tabs[t].text /\ Holders(n)' = {}
      BY <1>1, <1>3, <1>8
    <3>2. NameAt(b, 2)'
      BY <1>1, <1>9, <2>2, <3>1 DEF NameAt
    <3> QED
      BY <2>2, <3>2 DEF PlanAt, RememberAt, InstallAt, MoveAt, ForgetAt, OpenAt, DeleteAt
  <2>5. \A i \in 1..2 : i = 1 \/ i = 2
    OBVIOUS
  <2> QED
    BY <1>1, <2>1, <2>3, <2>4, <2>5 DEF Plan
<1> QED
  BY <1>7, <1>12, <1>13, <1>14, <1>15 DEF TextInv

\* What a step sees of the tabs' files unless it is itself about to part them.
LEMMA SettledNow ==
  ASSUME TypeInv, TextInv, NEW op, Doing(op), op \notin Parting
  PROVE  \A u \in Ids : /\ Buffer(u) => scratch[u] = tabs[u].base
                        /\ Named(u) => saved[tabs[u].name] = tabs[u].base
<1>1. \A u \in Ids : ~Nearing(u, Parting) /\ ~Nearing(u, {"forget", "name"})
  BY HeadPlan DEF TextInv, Parting
<1> QED
  BY <1>1 DEF TextInv, Settled

LEMMA MoveParts ==
  ASSUME TypeInv, TextInv, Move, NEW t, NEW n, NEW m,
         t = Step.tab, n = Step.name, m = Step.to
  PROVE  /\ up /\ n \in Names /\ m \in Names /\ n # m /\ Untaken(m)
         /\ Holders(n) = {} \/ Holders(n) = {t}
         /\ Holders(m) = {}
         /\ t \in Open => t \in Holders(n)
         /\ Len(todo') >= 1 /\ todo' # <<>>
         /\ todo'[1].tab = t /\ todo'[1].op \in {"forget", "name"}
         /\ \/ Len(todo') = 1 /\ todo'[1].op = "name" /\ todo'[1].to = m
            \/ /\ Len(todo') = 3 /\ todo'[1].op = "forget" /\ t \in Ids
               /\ todo'[2].op = "remember" /\ todo'[2].tab = t
               /\ todo'[3].op = "name" /\ todo'[3].tab = t /\ todo'[3].to = m
<1>1. /\ up /\ todo # <<>> /\ n \in Names /\ m \in Names /\ Went /\ PlanAt(Step, 1)
      /\ todo \in Seq(StepRecord) /\ Step.op = "move" /\ todo[1] = Step
  BY StepParts, HeadPlan DEF Move, TextInv, TypeInv, ListOK, StepOK
<1>2. /\ \/ Len(todo) = 2 /\ Is(2, "name", t)
         \/ Len(todo) = 4 /\ Is(2, "forget", t) /\ Is(3, "remember", t) /\ Is(4, "name", t)
      /\ todo[Len(todo)].to = m /\ n # m /\ Untaken(m)
      /\ Holders(n) = {} \/ Holders(n) = {t}
      /\ t \in Open => t \in Holders(n)
  <2>1. MoveAt(Step, 1) /\ 1 + 1 = 2 /\ 1 + 2 = 3 /\ 1 + 3 = 4
    BY <1>1 DEF PlanAt
  <2> QED
    BY <1>1, <2>1 DEF MoveAt
<1>3. /\ Len(todo') = Len(todo) - 1 /\ todo' \in Seq(StepRecord)
      /\ \A i \in 1..Len(todo') : todo'[i] = todo[i + 1]
  BY <1>1, WentRest
<1>4. \A i \in 1..Len(todo) : NameAt(todo[i], i) /\ StepOK(todo[i], i = Len(todo), next)
  BY DEF TextInv, Plan, PlanAt, TypeInv, ListOK
<1>5. CASE Len(todo) = 2 /\ Is(2, "name", t)
  <2>1. 2 \in 1..Len(todo) /\ 1 \in 1..1 /\ Len(todo') = 1 /\ 1 + 1 = 2
    BY <1>3, <1>5
  <2>2. todo'[1] = todo[2] /\ todo' # <<>>
    BY <1>3, <2>1
  <2>3. Holders(m) = {}
    BY <1>2, <1>4, <1>5, <2>1 DEF NameAt, Is
  <2> QED
    BY <1>1, <1>2, <1>5, <2>1, <2>2, <2>3 DEF Is
<1>6. CASE Len(todo) = 4 /\ Is(2, "forget", t) /\ Is(3, "remember", t) /\ Is(4, "name", t)
  <2>1. /\ 2 \in 1..Len(todo) /\ 3 \in 1..Len(todo) /\ 4 \in 1..Len(todo)
        /\ 1 \in 1..3 /\ 2 \in 1..3 /\ 3 \in 1..3
        /\ Len(todo') = 3 /\ 1 + 1 = 2 /\ 2 + 1 = 3 /\ 3 + 1 = 4
    BY <1>3, <1>6
  <2>2. todo'[1] = todo[2] /\ todo'[2] = todo[3] /\ todo'[3] = todo[4] /\ todo' # <<>>
    BY <1>3, <2>1
  <2>3. Holders(m) = {}
    BY <1>2, <1>4, <1>6, <2>1 DEF NameAt, Is
  <2>4. t \in Ids
    BY <1>4, <1>6, <2>1 DEF StepOK, Is
  <2> QED
    BY <1>1, <1>2, <1>6, <2>1, <2>2, <2>3, <2>4 DEF Is
<1> QED
  BY <1>2, <1>5, <1>6

LEMMA MoveTexts == ASSUME TypeInv, TextInv, Move PROVE TextInv'
<1>0. PICK t, n, m : t = Step.tab /\ n = Step.name /\ m = Step.to
  OBVIOUS
<1>1. /\ up /\ n \in Names /\ m \in Names /\ n # m /\ Untaken(m)
      /\ Holders(n) = {} \/ Holders(n) = {t}
      /\ Holders(m) = {}
      /\ t \in Open => t \in Holders(n)
      /\ Len(todo') >= 1 /\ todo' # <<>>
      /\ todo'[1].tab = t /\ todo'[1].op \in {"forget", "name"}
      /\ \/ Len(todo') = 1 /\ todo'[1].op = "name" /\ todo'[1].to = m
         \/ /\ Len(todo') = 3 /\ todo'[1].op = "forget" /\ t \in Ids
            /\ todo'[2].op = "remember" /\ todo'[2].tab = t
            /\ todo'[3].op = "name" /\ todo'[3].tab = t /\ todo'[3].to = m
  BY <1>0, MoveParts
<1>2. /\ saved[m] = NoFile /\ saved' = [saved EXCEPT ![m] = saved[n], ![n] = NoFile]
      /\ UNCHANGED <<up, tabs, scratch, stored, owed>>
  BY <1>0 DEF Move, memory
<1>3. /\ saved'[m] = saved[n] /\ saved'[n] = NoFile
      /\ \A o \in Names \ {m, n} : saved'[o] = saved[o]
  BY <1>1, <1>2 DEF TypeInv, Shapes
<1>4. \A u \in Ids : /\ Buffer(u) => scratch[u] = tabs[u].base
                     /\ Named(u) => saved[tabs[u].name] = tabs[u].base
  BY SettledNow DEF Move, Parting
<1>5. \A u \in Ids : /\ stored.tabs[u].name # m /\ stored.tabs[u].name \in Names \cup {Unsaved}
                     /\ Named(u) => tabs[u].name # m /\ tabs[u].name \in Names
  BY <1>1, TextParts DEF Untaken
<1>6. \A u \in Ids : stored.tabs[u].name # Unsaved /\ saved[stored.tabs[u].name] = NoFile
                       => saved'[stored.tabs[u].name] = NoFile
  BY <1>3, <1>5
<1>7. Kept'
  <2>1. \A x \in owed : InFile(x) => InFile(x)'
    <3>1. NoFile \notin owed
      BY TextParts
    <3>2. ASSUME NEW x \in owed, NEW o \in Names, saved[o] = x
          PROVE  \E p \in Names : saved'[p] = x
      <4>1. o # m
        BY <1>2, <3>1, <3>2
      <4>2. CASE o = n
        BY <1>1, <1>3, <3>2, <4>2
      <4>3. CASE o # n
        BY <1>3, <3>2, <4>1, <4>3
      <4> QED
        BY <4>2, <4>3
    <3> QED
      BY <3>2 DEF InFile
  <2>2. \A u \in Ids : Holds(u) => Holds(u)'
    BY <1>2, <1>6 DEF Holds, Buffer
  <2> QED
    BY <1>2, <2>1, <2>2 DEF TextInv, Kept
<1>8. Synced' /\ Unique'
  BY <1>2 DEF TextInv, Synced, Unique
<1>9. Gone'
  BY <1>2, <1>6 DEF TextInv, Gone, Buffer
<1>10. Settled'
  <2>1. ASSUME NEW u \in Ids, Named(u), u # t PROVE saved'[tabs[u].name] = tabs[u].base
    <3>1. tabs[u].name # n
      BY <1>1, <2>1 DEF Holders, Open, Named
    <3> QED
      BY <1>3, <1>4, <1>5, <2>1, <3>1
  <2>2. Nearing(t, {"forget", "name"})' /\ Nearing(t, Parting)'
    BY <1>1 DEF Nearing, Parting
  <2> QED
    BY <1>2, <1>4, <2>1, <2>2 DEF Settled, Buffer, Named
<1>11. Plan'
  <2>1. t \in Open => /\ saved'[m] = tabs'[t].base /\ scratch'[t] = 0 /\ t \in Ids /\ Named(t)
    <3>1. t \in Open => t \in Ids /\ Named(t) /\ tabs[t].name = n
      BY <1>1, Numbers DEF Open, Holders, Named
    <3> QED
      BY <1>2, <1>3, <1>4, <3>1, TextParts
  <2>2. Open' = Open /\ Holders(m)' = {}
    BY <1>1, <1>2 DEF Open, Holders
  <2>3. PICK a, b, c : a = todo'[1] /\ b = todo'[2] /\ c = todo'[3]
    OBVIOUS
  <2>4. CASE Len(todo') = 1 /\ a.op = "name" /\ a.to = m
    <3>1. NameAt(a, 1)'
      BY <1>1, <2>1, <2>2, <2>3, <2>4 DEF NameAt
    <3>2. PlanAt(a, 1)'
      BY <2>4, <3>1 DEF PlanAt, RememberAt, InstallAt, MoveAt, ForgetAt, OpenAt, DeleteAt
    <3>3. \A i \in 1..1 : i = 1
      OBVIOUS
    <3> QED
      BY <2>3, <2>4, <3>2, <3>3 DEF Plan
  <2>5. CASE /\ Len(todo') = 3 /\ a.op = "forget" /\ t \in Ids
             /\ b.op = "remember" /\ b.tab = t
             /\ c.op = "name" /\ c.tab = t /\ c.to = m
    <3>1. a.tab = t /\ Is(1, "forget", t)' /\ Is(2, "remember", t)' /\ Is(3, "name", t)'
      BY <1>1, <2>3, <2>5 DEF Is
    <3>2. ForgetAt(a, 1)'
      <4>1. t \notin Open' \/ Named(t)'
        BY <1>2, <2>1, <2>2, <2>5 DEF Named
      <4> QED
        BY <3>1, <4>1, 1 + 1 = 2, 1 + 2 = 3 DEF ForgetAt
    <3>3. PlanAt(a, 1)'
      BY <2>5, <3>2 DEF PlanAt, RememberAt, InstallAt, MoveAt, NameAt, OpenAt, DeleteAt
    <3>4. RememberAt(b, 2)'
      BY <2>5, <3>1, 2 + 1 = 3 DEF RememberAt
    <3>5. PlanAt(b, 2)'
      BY <2>5, <3>4 DEF PlanAt, InstallAt, MoveAt, NameAt, ForgetAt, OpenAt, DeleteAt
    <3>6. NameAt(c, 3)'
      <4>1. \A j \in 1..(3 - 1) : todo'[j].op \in {"forget", "remember"}
        <5>1. \A j \in 1..(3 - 1) : j = 1 \/ j = 2
          OBVIOUS
        <5> QED
          BY <2>3, <2>5, <5>1
      <4> QED
        BY <2>1, <2>2, <2>5, <4>1 DEF NameAt
    <3>7. PlanAt(c, 3)'
      BY <2>5, <3>6 DEF PlanAt, RememberAt, InstallAt, MoveAt, ForgetAt, OpenAt, DeleteAt
    <3>8. \A i \in 1..3 : i = 1 \/ i = 2 \/ i = 3
      OBVIOUS
    <3> QED
      BY <2>3, <2>5, <3>3, <3>5, <3>7, <3>8 DEF Plan
  <2> QED
    BY <1>1, <2>3, <2>4, <2>5
<1> QED
  BY <1>7, <1>8, <1>9, <1>10, <1>11 DEF TextInv

LEMMA DeleteFileTexts == ASSUME TypeInv, TextInv, DeleteFile PROVE TextInv'
<1>0. PICK t, n : t = Step.tab /\ n = Step.name
  OBVIOUS
<1>1. /\ n \in Names /\ up /\ todo # <<>> /\ todo[1] = Step /\ Step.op = "delete"
      /\ PlanAt(Step, 1) /\ Went
  BY <1>0, StepParts, HeadPlan DEF DeleteFile, StepOK, TextInv
<1>2. /\ saved' = [saved EXCEPT ![n] = NoFile] /\ owed' = owed \ {saved[n]}
      /\ UNCHANGED <<up, tabs, scratch, stored>>
  BY <1>0 DEF DeleteFile, memory
<1>3. saved'[n] = NoFile /\ \A o \in Names \ {n} : saved'[o] = saved[o]
  BY <1>1, <1>2 DEF TypeInv, Shapes
<1>4. \A u \in Ids : /\ Buffer(u) => scratch[u] = tabs[u].base
                     /\ Named(u) => saved[tabs[u].name] = tabs[u].base
  BY SettledNow DEF DeleteFile, Parting
<1>5. \A u \in Ids : stored.tabs[u].name # Unsaved /\ saved[stored.tabs[u].name] = NoFile
                       => saved'[stored.tabs[u].name] = NoFile
  BY <1>3, TextParts
<1>6. Kept'
  <2>1. \A x \in owed' : x \in owed /\ (InFile(x) => InFile(x)')
    BY <1>2, <1>3 DEF InFile
  <2>2. \A u \in Ids : Holds(u) => Holds(u)'
    BY <1>2, <1>5 DEF Holds, Buffer
  <2> QED
    BY <1>2, <2>1, <2>2 DEF TextInv, Kept
<1>7. Synced' /\ Unique'
  BY <1>2 DEF TextInv, Synced, Unique
<1>8. Gone'
  BY <1>2, <1>5 DEF TextInv, Gone, Buffer
<1>9. Settled'
  <2>1. Holders(n) = {} \/ (Holders(n) = {t} /\ Is(2, "remove", t))
    <3>1. DeleteAt(Step, 1) /\ 1 + 1 = 2
      BY <1>1 DEF PlanAt
    <3> QED
      BY <1>0, <1>1, <3>1 DEF DeleteAt
  <2>2. Is(2, "remove", t) => Nearing(t, Parting)'
    <3>1. /\ todo' \in Seq(StepRecord) /\ Len(todo') = Len(todo) - 1
          /\ \A i \in 1..Len(todo') : todo'[i] = todo[i + 1]
      BY <1>1, WentRest DEF TypeInv, ListOK
    <3>2. Is(2, "remove", t) => 1 \in 1..Len(todo') /\ 1 + 1 = 2
      BY <3>1 DEF Is
    <3>3. 1 \in 1..Len(todo') => todo' # <<>>
      BY <3>1
    <3> QED
      BY <3>1, <3>2, <3>3 DEF Is, Nearing, Parting
  <2>3. ASSUME NEW u \in Ids, Named(u)
        PROVE  saved'[tabs[u].name] = tabs[u].base \/ (u = t /\ Is(2, "remove", t))
    <3>1. tabs[u].name = n => u \in Holders(n)
      BY <2>3 DEF Holders, Open, Named
    <3>2. tabs[u].name \in Names
      BY <2>3, TextParts
    <3> QED
      BY <1>3, <1>4, <2>1, <2>3, <3>1, <3>2
  <2> QED
    BY <1>2, <1>4, <2>2, <2>3 DEF Settled, Buffer, Named
<1>10. Plan'
  BY <1>1, <1>2, WentPlan DEF TextInv, Untaken
<1> QED
  BY <1>6, <1>7, <1>8, <1>9, <1>10 DEF TextInv

\* The profile stored: what comes up next is what there is.
LEMMA Restored ==
  ASSUME TypeInv, TextInv, up, up', tabs' \in [Ids -> TabRecord], next' \in 0..MaxTabs,
         stored' = Profile(tabs', next'), UNCHANGED <<saved, scratch, owed>>,
         \A t \in Ids : /\ Buffer(t) /\ scratch[t] \in owed => Buffer(t)'
                        /\ tabs'[t].name # Unsaved => scratch[t] = 0,
         \A t, u \in Ids : tabs'[t].name # Unsaved /\ tabs'[t].name = tabs'[u].name => t = u
  PROVE  Kept' /\ Synced' /\ Gone' /\ Unique'
<1>1. \A t \in Ids : stored'.tabs[t].open = tabs'[t].open /\ stored'.tabs[t].name = tabs'[t].name
  BY ProfileType
<1>2. Kept'
  <2>1. ASSUME NEW x \in owed, NEW t \in Ids, scratch[t] = x, Holds(t) PROVE Holds(t)'
    <3>1. Buffer(t)'
      BY <2>1 DEF Holds
    <3> QED
      BY <1>1, <3>1 DEF Holds, Buffer
  <2>2. \A x : InFile(x) => InFile(x)'
    BY DEF InFile
  <2> QED
    BY <2>1, <2>2 DEF TextInv, Kept
<1>3. Synced'
  BY <1>1 DEF Synced
<1>4. Gone'
  BY <1>1 DEF Gone, Buffer
<1>5. Unique'
  BY <1>1 DEF Unique
<1> QED
  BY <1>2, <1>3, <1>4, <1>5

LEMMA RestoredSame ==
  ASSUME TypeInv, TextInv, up, up', tabs' \in [Ids -> TabRecord], next' \in 0..MaxTabs,
         stored' = Profile(tabs', next'), UNCHANGED <<saved, scratch, owed>>,
         \A t \in Ids : tabs'[t].open = tabs[t].open /\ tabs'[t].name = tabs[t].name
  PROVE  /\ Kept' /\ Synced' /\ Gone' /\ Unique'
         /\ \A n \in Names : Untaken(n) => Untaken(n)'
<1>1. \A t \in Ids : /\ Buffer(t)' = Buffer(t)
                     /\ tabs'[t].name # Unsaved => scratch[t] = 0
  BY TextParts DEF Buffer
<1>2. \A t, u \in Ids : tabs'[t].name # Unsaved /\ tabs'[t].name = tabs'[u].name => t = u
  BY DEF TextInv, Unique
<1>3. Kept' /\ Synced' /\ Gone' /\ Unique'
  BY <1>1, <1>2, Restored
<1>4. \A n \in Names : Untaken(n) => Untaken(n)'
  <2>1. \A t \in Ids : stored'.tabs[t].name \in {stored.tabs[t].name, Unsaved}
    BY ProfileType, TextParts
  <2> QED
    BY <2>1, Numbers DEF Untaken
<1> QED
  BY <1>3, <1>4

LEMMA RememberTexts == ASSUME TypeInv, TextInv, RememberProfiles PROVE TextInv'
<1>0. PICK t : t = Step.tab
  OBVIOUS
<1>1. /\ up /\ up' /\ tabs' = tabs /\ next' = next /\ todo # <<>> /\ todo[1].op = "remember" /\ Went
      /\ stored' = Profile(tabs', next') /\ UNCHANGED <<saved, scratch, owed>>
      /\ tabs' \in [Ids -> TabRecord] /\ next' \in 0..MaxTabs
      /\ PlanAt(Step, 1) /\ Step.op = "remember"
  BY StepParts, HeadPlan DEF RememberProfiles, memory, TextInv, TypeInv, Shapes
<1>2. /\ Kept' /\ Synced' /\ Gone' /\ Unique'
      /\ \A n \in Names : Untaken(n) => Untaken(n)'
  BY <1>1, RestoredSame
<1>3. Settled'
  <2>1. \A u, ops : Nearing(u, ops) <=> u = t /\ "remember" \in ops
    BY <1>0, HeadPlan DEF RememberProfiles, TextInv
  <2>2. \A u \in Ids : /\ Buffer(u) => scratch[u] = tabs[u].base
                       /\ Named(u) => saved[tabs[u].name] = tabs[u].base \/ u = t
    BY <2>1 DEF TextInv, Settled
  <2>3. t \in Open => Nearing(t, Parting)'
    <3>1. t \in Open => Is(2, "name", t)
      BY <1>0, <1>1, 1 + 1 = 2 DEF PlanAt, RememberAt
    <3>2. /\ Len(todo') = Len(todo) - 1 /\ todo' \in Seq(StepRecord)
          /\ \A i \in 1..Len(todo') : todo'[i] = todo[i + 1]
      BY <1>1, WentRest DEF TypeInv, ListOK
    <3>3. Is(2, "name", t) => 1 \in 1..Len(todo') /\ 1 + 1 = 2
      BY <3>2 DEF Is
    <3>4. 1 \in 1..Len(todo') => todo' # <<>>
      BY <3>2
    <3> QED
      BY <3>1, <3>2, <3>3, <3>4 DEF Nearing, Parting, Is
  <2> QED
    BY <1>1, <2>2, <2>3 DEF Settled, Buffer, Named, Open
<1>4. Plan'
  BY <1>1, <1>2, WentPlan DEF TextInv
<1> QED
  BY <1>2, <1>3, <1>4 DEF TextInv

\* What comes to the front keeps its name and what it read or wrote last.
LEMMA ShownTexts ==
  ASSUME TypeInv, TextInv, up, NEW t, Show(t), UNCHANGED <<up, next, saved, scratch, owed>>
  PROVE  /\ Kept' /\ Synced' /\ Gone' /\ Unique'
         /\ \A n \in Names : Untaken(n) => Untaken(n)'
         /\ \A u \in Ids : /\ tabs'[u].open = tabs[u].open
                           /\ tabs'[u].name = tabs[u].name /\ tabs'[u].base = tabs[u].base
<1>1. /\ up' /\ next' \in 0..MaxTabs /\ stored' = Profile(tabs', next')
  BY DEF Show, TypeInv, Shapes
<1>2. tabs' \in [Ids -> TabRecord]
  BY ShowParts
<1>3. \A u \in Ids : /\ tabs'[u].open = tabs[u].open
                     /\ tabs'[u].name = tabs[u].name /\ tabs'[u].base = tabs[u].base
  BY ShowParts
<1>4. /\ Kept' /\ Synced' /\ Gone' /\ Unique'
      /\ \A n \in Names : Untaken(n) => Untaken(n)'
  BY <1>1, <1>2, <1>3, RestoredSame
<1> QED
  BY <1>3, <1>4

LEMMA ShowTexts == ASSUME TypeInv, TextInv, ShowNext PROVE TextInv'
<1>1. /\ up /\ todo # <<>> /\ todo[1].op = "show" /\ Went /\ Show(Step.tab)
      /\ UNCHANGED <<up, next, saved, scratch, owed>>
  BY StepParts, HeadPlan DEF ShowNext, TextInv
<1>2. /\ Kept' /\ Synced' /\ Gone' /\ Unique'
      /\ \A n \in Names : Untaken(n) => Untaken(n)'
      /\ \A u \in Ids : /\ tabs'[u].open = tabs[u].open
                        /\ tabs'[u].name = tabs[u].name /\ tabs'[u].base = tabs[u].base
  BY <1>1, ShownTexts
<1>3. Settled'
  <2>1. \A u \in Ids : /\ Buffer(u) => scratch[u] = tabs[u].base
                       /\ Named(u) => saved[tabs[u].name] = tabs[u].base
    BY SettledNow DEF ShowNext, Parting
  <2> QED
    BY <1>1, <1>2, <2>1 DEF Settled, Buffer, Named
<1>4. Plan'
  BY <1>1, <1>2, WentPlan DEF TextInv
<1> QED
  BY <1>2, <1>3, <1>4 DEF TextInv

LEMMA TakeNameTexts == ASSUME TypeInv, TextInv, TakeName PROVE TextInv'
<1>0. PICK t, n : t = Step.tab /\ n = Step.to
  OBVIOUS
<1>1. /\ up /\ up' /\ next' = next /\ next' \in 0..MaxTabs /\ todo # <<>> /\ Step.op = "name"
      /\ PlanAt(Step, 1) /\ stored' = Profile(tabs', next') /\ UNCHANGED <<saved, scratch, owed>>
      /\ Went /\ todo[1] = Step
  BY StepParts, HeadPlan DEF TakeName, TextInv, TypeInv, Shapes
<1>2. /\ tabs' \in [Ids -> TabRecord] /\ n \in Names
      /\ \A u \in Ids : /\ tabs'[u].open = tabs[u].open /\ tabs'[u].base = tabs[u].base
                        /\ tabs'[u].name = (IF u = t /\ t \in Open THEN n ELSE tabs[u].name)
  BY <1>0, TakeNameType
<1>3. /\ Len(todo) = 1 /\ Holders(n) = {}
      /\ t \in Open => saved[n] = tabs[t].base /\ scratch[t] = 0
  <2>1. NameAt(Step, 1) /\ ~ \E j \in 1..(1 - 1) : TRUE
    BY <1>1 DEF PlanAt
  <2> QED
    BY <1>0, <1>1, <2>1 DEF NameAt
<1>4. todo' = <<>>
  BY <1>1, <1>3 DEF Went, TypeInv, ListOK
<1>5. \A u \in Ids : /\ Buffer(u) /\ scratch[u] \in owed => Buffer(u)'
                     /\ tabs'[u].name # Unsaved => scratch[u] = 0
  BY <1>2, <1>3, TextParts DEF Buffer
<1>6. \A u, v \in Ids : tabs'[u].name # Unsaved /\ tabs'[u].name = tabs'[v].name => u = v
  <2>1. \A u \in Ids : tabs[u].name # n
    BY <1>2, <1>3, TextParts, Numbers DEF Holders, Open, Named
  <2> QED
    BY <1>2, <2>1 DEF TextInv, Unique
<1>7. Kept' /\ Synced' /\ Gone' /\ Unique'
  BY <1>1, <1>2, <1>5, <1>6, Restored
<1>8. Settled'
  <2>1. \A u, ops : ~Nearing(u, ops) \/ u = t
    BY <1>0, HeadPlan DEF TakeName, TextInv
  <2>2. ASSUME NEW u \in Ids, u # t
        PROVE  /\ Buffer(u)' => scratch'[u] = tabs'[u].base
               /\ Named(u)' => saved'[tabs'[u].name] = tabs'[u].base
    BY <1>1, <1>2, <2>1, <2>2 DEF TextInv, Settled, Buffer, Named
  <2>3. ASSUME t \in Ids
        PROVE  /\ Buffer(t)' => scratch'[t] = tabs'[t].base
               /\ Named(t)' => saved'[tabs'[t].name] = tabs'[t].base
    <3>1. tabs[t].open <=> t \in Open
      BY <2>3 DEF Open
    <3> QED
      BY <1>1, <1>2, <1>3, <2>3, <3>1, Numbers DEF Buffer, Named
  <2> QED
    BY <2>2, <2>3 DEF Settled
<1> QED
  BY <1>4, <1>7, <1>8, NoPlan DEF TextInv

LEMMA OpenTabTexts == ASSUME TypeInv, TextInv, OpenTab PROVE TextInv'
<1>0. PICK n : n = Step.name
  OBVIOUS
<1>1. /\ up /\ up' /\ todo' = <<>> /\ next \in Ids /\ next + 1 \in 0..MaxTabs
      /\ UNCHANGED <<saved, scratch, grids, owed>> /\ n \in Names \cup {Unsaved}
  BY <1>0, OpenTabParts DEF OpenTab
<1>2. \A u \in Ids : /\ Buffer(u) => scratch[u] = tabs[u].base
                     /\ Named(u) => saved[tabs[u].name] = tabs[u].base
  BY SettledNow DEF OpenTab, Parting
<1>3. CASE UNCHANGED <<tabs, next, stored>>
  <2>1. \A t \in Ids : ~Nearing(t, Parting)
    BY HeadPlan DEF TextInv, OpenTab, Parting
  <2> QED
    BY <1>1, <1>3, <2>1, NoPlan, UnmovedTexts
<1>4. CASE /\ n = Unsaved \/ saved[n] # NoFile
           /\ Opened \in TabRecord /\ Opened.open /\ Opened.name = n
           /\ Opened.base = IF n = Unsaved THEN scratch[next] ELSE saved[n]
           /\ tabs' = [tabs EXCEPT ![next] = Opened]
           /\ next' = next + 1 /\ stored' = Profile(tabs', next')
  <2>1. tabs' \in [Ids -> TabRecord] /\ \A u \in Ids : tabs'[u] = IF u = next THEN Opened ELSE tabs[u]
    BY <1>1, <1>4 DEF TypeInv, Shapes
  <2>2. ~tabs[next].open /\ scratch[next] = 0
    <3>1. next = stored.next /\ next \in Nat
      BY <1>1, TabParts
    <3>2. ~(next < next) /\ next >= stored.next
      BY <3>1
    <3> QED
      BY <1>1, <3>2, TabParts DEF TypeInv, IdsUnused
  <2>3. n # Unsaved => Holders(n) = {}
    BY <1>0, HeadPlan DEF OpenTab, TextInv, PlanAt, OpenAt
  <2>4. \A u \in Ids : /\ Buffer(u) /\ scratch[u] \in owed => Buffer(u)'
                       /\ tabs'[u].name # Unsaved => scratch[u] = 0
    BY <2>1, <2>2, TextParts DEF Buffer
  <2>5. \A u, v \in Ids : tabs'[u].name # Unsaved /\ tabs'[u].name = tabs'[v].name => u = v
    <3>1. \A u \in Ids : n # Unsaved => tabs[u].name # n
      BY <2>3, TextParts DEF Holders, Open, Named
    <3> QED
      BY <1>4, <2>1, <3>1 DEF TextInv, Unique
  <2>6. Kept' /\ Synced' /\ Gone' /\ Unique'
    BY <1>1, <1>4, <2>1, <2>4, <2>5, Restored
  <2>7. Settled'
    BY <1>1, <1>2, <1>4, <2>1, <2>2 DEF Settled, Buffer, Named
  <2> QED
    BY <1>1, <2>6, <2>7, NoPlan DEF TextInv
<1> QED
  BY <1>0, <1>3, <1>4, OpenTabParts

LEMMA DeleteScratchTexts == ASSUME TypeInv, TextInv, DeleteScratch PROVE TextInv'
<1>0. PICK t : t = Step.tab
  OBVIOUS
<1>1. /\ up /\ todo # <<>> /\ t \in Ids /\ todo[1] = Step /\ Step.op = "forget" /\ Went
      /\ PlanAt(Step, 1) /\ scratch' = [scratch EXCEPT ![t] = 0]
      /\ UNCHANGED <<up, tabs, saved, stored, owed>>
  BY <1>0, StepParts, HeadPlan DEF DeleteScratch, StepOK, TextInv, memory
<1>2. scratch'[t] = 0 /\ \A u \in Ids : u # t => scratch'[u] = scratch[u]
  BY <1>1 DEF TypeInv, Shapes
<1>3. \/ ~tabs[t].open
      \/ Named(t) /\ Is(2, "remember", t)
      \/ Is(2, "name", t) /\ (scratch[t] \in owed => InFile(scratch[t]))
  <2>1. ForgetAt(Step, 1) /\ 1 + 1 = 2 /\ ~ \E j \in 1..(1 - 1) : TRUE
    BY <1>1 DEF PlanAt
  <2> QED
    BY <1>0, <1>1, <2>1 DEF ForgetAt, Open
<1>4. Kept'
  <2>1. \A x : InFile(x)' <=> InFile(x)
    BY <1>1 DEF InFile
  <2>2. \A u \in Ids : Holds(u)' <=> Holds(u)
    BY <1>1 DEF Holds, Buffer
  <2>3. Holds(t) /\ scratch[t] \in owed => InFile(scratch[t])
    BY <1>1, <1>3 DEF Holds, Buffer, Named
  <2> QED
    BY <1>1, <1>2, <2>1, <2>2, <2>3 DEF TextInv, Kept
<1>5. Synced' /\ Unique'
  BY <1>1 DEF TextInv, Synced, Unique
<1>6. Gone'
  BY <1>1, <1>2 DEF TextInv, Gone, Buffer
<1>7. Settled'
  <2>1. \A u, ops : ~Nearing(u, ops) \/ u = t
    BY <1>0, HeadPlan DEF DeleteScratch, TextInv
  <2>2. \A u \in Ids : u # t => /\ Buffer(u) => scratch'[u] = tabs[u].base
                                /\ Named(u) => saved[tabs[u].name] = tabs[u].base
    BY <1>2, <2>1 DEF TextInv, Settled
  <2>3. tabs[t].open => /\ Nearing(t, Parting)'
                        /\ ~Named(t) => Nearing(t, {"forget", "name"})'
    <3>1. /\ Len(todo') = Len(todo) - 1 /\ todo' \in Seq(StepRecord)
          /\ \A i \in 1..Len(todo') : todo'[i] = todo[i + 1]
      BY <1>1, WentRest DEF TypeInv, ListOK
    <3>2. Is(2, "name", t) \/ Is(2, "remember", t) => 1 \in 1..Len(todo') /\ 1 + 1 = 2
      BY <3>1 DEF Is
    <3>3. 1 \in 1..Len(todo') => todo' # <<>>
      BY <3>1
    <3> QED
      BY <1>3, <3>1, <3>2, <3>3 DEF Nearing, Parting, Is
  <2> QED
    BY <1>1, <2>2, <2>3 DEF Settled, Buffer, Named
<1>8. Plan'
  BY <1>0, <1>1, WentPlan DEF TextInv, Untaken
<1> QED
  BY <1>4, <1>5, <1>6, <1>7, <1>8 DEF TextInv

LEMMA RemoveTabTexts == ASSUME TypeInv, TextInv, RemoveTab PROVE TextInv'
<1>0. PICK t : t = Step.tab
  OBVIOUS
<1>1. /\ up /\ todo # <<>> /\ t \in Ids /\ todo[1] = Step /\ Step.op = "remove" /\ Went
      /\ tabs' = [tabs EXCEPT ![t] = NoTab]
      /\ owed' = IF tabs[t].name = Unsaved THEN owed \ {tabs[t].base} ELSE owed
      /\ UNCHANGED <<up, saved, scratch, stored>>
  BY <1>0, StepParts, HeadPlan DEF RemoveTab, StepOK, TextInv, disk
<1>2. /\ \A u \in Ids : tabs'[u] = IF u = t THEN NoTab ELSE tabs[u]
      /\ ~NoTab.open /\ NoTab.name = Unsaved
  BY <1>1, NothingType DEF TypeInv, Shapes
<1>3. \A u, ops : Nearing(u, ops) <=> u = t /\ "remove" \in ops
  BY <1>0, HeadPlan DEF RemoveTab, TextInv
<1>4. Kept'
  <2>1. \A x : InFile(x)' <=> InFile(x)
    BY <1>1 DEF InFile
  <2>2. \A u \in Ids : u # t => (Holds(u)' <=> Holds(u))
    BY <1>1, <1>2 DEF Holds, Buffer
  <2>3. Holds(t) => scratch[t] \notin owed'
    <3>1. Buffer(t) => scratch[t] = tabs[t].base /\ tabs[t].name = Unsaved
      BY <1>1, <1>3 DEF TextInv, Settled, Buffer
    <3> QED
      BY <1>1, <3>1 DEF Holds
  <2>4. owed' \subseteq owed
    BY <1>1
  <2> QED
    BY <1>1, <2>1, <2>2, <2>3, <2>4 DEF TextInv, Kept
<1>5. Synced' /\ Unique'
  BY <1>1, <1>2 DEF TextInv, Synced, Unique
<1>6. Gone'
  BY <1>1, <1>2 DEF TextInv, Gone, Buffer
<1>7. Settled'
  BY <1>1, <1>2, <1>3 DEF TextInv, Settled, Buffer, Named
<1>8. Plan'
  <2>1. t \notin Open'
    BY <1>1, <1>2 DEF Open
  <2>2. \A u \in Ids : \/ tabs'[u].open = tabs[u].open /\ tabs'[u].name = tabs[u].name
                       \/ tabs'[u].open = FALSE
    BY <1>2 DEF NoTab
  <2>3. \A n \in Names : Untaken(n) => Untaken(n)'
    BY <1>1 DEF Untaken
  <2> QED
    BY <1>0, <1>1, <2>1, <2>2, <2>3, WentPlan DEF TextInv
<1> QED
  BY <1>4, <1>5, <1>6, <1>7, <1>8 DEF TextInv

LEMMA DownTexts == ASSUME TypeInv, TextInv, Down PROVE TextInv'
<1>1. /\ ~up' /\ todo' = <<>> /\ UNCHANGED <<saved, scratch, stored, owed>>
      /\ \A t \in Ids : ~tabs'[t].open /\ tabs'[t].name = Unsaved
  BY NothingType DEF Down, disk
<1>2. Kept'
  BY <1>1 DEF TextInv, Kept, InFile, Holds
<1>3. Synced' /\ Gone' /\ Unique' /\ Settled'
  BY <1>1 DEF TextInv, Synced, Gone, Unique, Settled, Buffer, Named
<1> QED
  BY <1>1, <1>2, <1>3, NoPlan DEF TextInv

LEMMA StepsTexts == ASSUME TypeInv, TextInv, Steps PROVE TextInv'
BY QuietTexts, FailedTexts, WriteTextTexts, InstallTexts, MoveTexts, DeleteFileTexts,
   TakeNameTexts, OpenTabTexts, RemoveTabTexts, DeleteScratchTexts, RememberTexts, ShowTexts,
   DownTexts
   DEF Steps, Exit

-----------------------------------------------------------------------------
(* What the user starts.                                                   *)

\* Nothing runs: every tab's file has what the tab read or wrote last.
LEMMA ReadySettled ==
  ASSUME TypeInv, TextInv, todo = <<>>
  PROVE  \A u \in Ids : /\ Buffer(u) => scratch[u] = tabs[u].base
                        /\ Named(u) => saved[tabs[u].name] = tabs[u].base
BY DEF TextInv, Settled, Nearing

LEMMA StartTexts ==
  ASSUME TypeInv, TextInv, NEW l, Start(l), \A i \in 1..Len(l) : PlanAt(l[i], i)'
  PROVE  TextInv'
<1>1. /\ todo = <<>> /\ todo' = l /\ UNCHANGED <<up, tabs, saved, scratch, stored, owed>>
  BY DEF Start, Ready, memory, disk
<1>2. Plan'
  BY <1>1 DEF Plan
<1>3. \A t \in Ids : ~Nearing(t, Parting)
  BY <1>1 DEF Nearing
<1> QED
  BY <1>1, <1>2, <1>3, UnmovedTexts

\* Steps that take nothing for granted.
LEMMA PlainAt ==
  ASSUME NEW s, NEW i, \/ s.op \in {"grids", "text", "remove", "drop", "show", "exit"}
                       \/ s.op = "remember" /\ s.tab \notin Ids
  PROVE  PlanAt(s, i)'
BY DEF PlanAt, RememberAt, InstallAt, MoveAt, NameAt, OpenAt, DeleteAt, ForgetAt, Open

\* What is free is no stored tab's, and no tab's.
LEMMA FreeUntaken ==
  ASSUME ~NamesReturn, TypeInv, TextInv, todo = <<>>, NEW n \in Names, Free(n)
  PROVE  Untaken(n) /\ Holders(n) = {}
<1>1. saved[n] = NoFile /\ \A t \in Ids : stored.tabs[t].name = n => tabs[t].name = n
  BY DEF Free, Awaited
<1>2. \A t \in Ids : tabs[t].name # n
  <2> SUFFICES ASSUME NEW t \in Ids, tabs[t].name = n PROVE FALSE
    OBVIOUS
  <2>1. Named(t) /\ tabs[t].base # NoFile
    BY TextParts, Numbers
  <2>2. saved[n] = tabs[t].base
    BY <2>1, ReadySettled
  <2> QED
    BY <1>1, <2>1, <2>2
<1> QED
  BY <1>1, <1>2 DEF Untaken, Holders, Open

LEMMA StartSame ==
  ASSUME NEW l, Start(l)
  PROVE  /\ UNCHANGED <<up, tabs, saved, scratch, stored, owed>> /\ todo = <<>> /\ todo' = l
         /\ Open' = Open /\ \A n : Holders(n)' = Holders(n) /\ Untaken(n)' = Untaken(n)
         /\ \A t : Buffer(t)' = Buffer(t) /\ Named(t)' = Named(t)
         /\ \A i, op, t : Is(i, op, t)' <=> i \in 1..Len(l) /\ l[i].op = op /\ l[i].tab = t
<1>1. UNCHANGED <<up, tabs, saved, scratch, stored, owed>> /\ todo = <<>> /\ todo' = l
  BY DEF Start, Ready, memory, disk
<1> QED
  BY <1>1 DEF Open, Holders, Untaken, Buffer, Named, Is

LEMMA SaveAsTexts ==
  ASSUME ~NamesReturn, TypeInv, TextInv, NEW t \in Ids, NEW n \in Names, SaveAs(t, n)
  PROVE  TextInv'
<1> DEFINE l == <<Op("install", t, n, n), On("forget", t), Op("name", t, n, n)>>
<1>1. Start(l) /\ t \in Open /\ tabs[t].name = Unsaved /\ Free(n)
  BY DEF SaveAs
<1>2. t \in 0..MaxTabs
  BY Numbers DEF Ids
<1>3. PICK a, b, c : /\ a = Op("install", t, n, n) /\ b = On("forget", t)
                     /\ c = Op("name", t, n, n)
  OBVIOUS
<1>4. /\ a \in StepRecord /\ a.op = "install" /\ a.tab = t /\ a.to = n
      /\ b \in StepRecord /\ b.op = "forget" /\ b.tab = t
      /\ c \in StepRecord /\ c.op = "name" /\ c.tab = t /\ c.to = n
  BY <1>2, <1>3, OpRecord, OnRecord
<1>5. Len(l) = 3 /\ l[1] = a /\ l[2] = b /\ l[3] = c /\ \A i \in 1..3 : i \in {1, 2, 3}
  BY <1>3
<1> HIDE DEF l
<1>6. Is(1, "install", t)' /\ Is(2, "forget", t)' /\ Is(3, "name", t)'
  BY <1>1, <1>4, <1>5, StartSame DEF Is
<1>7. /\ Buffer(t)' /\ Untaken(n)' /\ Holders(n)' = {} /\ Len(todo') = 3
      /\ todo'[1].op = "install" /\ todo'[3].to = n
  BY <1>1, <1>4, <1>5, FreeUntaken, StartSame DEF Buffer, Open
<1>8. PlanAt(a, 1)'
  <2>1. InstallAt(a, 1)'
    BY <1>4, <1>6, <1>7 DEF InstallAt
  <2> QED
    BY <1>4, <2>1 DEF PlanAt, RememberAt, MoveAt, NameAt, OpenAt, DeleteAt, ForgetAt
<1>9. PlanAt(b, 2)'
  <2>1. ForgetAt(b, 2)'
    BY <1>4, <1>6, 2 + 1 = 3 DEF ForgetAt
  <2> QED
    BY <1>4, <2>1 DEF PlanAt, RememberAt, InstallAt, MoveAt, NameAt, OpenAt, DeleteAt
<1>10. PlanAt(c, 3)'
  <2>1. 1 \in 1..(3 - 1)
    OBVIOUS
  <2>2. NameAt(c, 3)'
    BY <1>4, <1>7, <2>1 DEF NameAt
  <2> QED
    BY <1>4, <2>2 DEF PlanAt, RememberAt, InstallAt, MoveAt, ForgetAt, OpenAt, DeleteAt
<1> QED
  BY <1>1, <1>5, <1>8, <1>9, <1>10, StartTexts

LEMMA RenameTexts ==
  ASSUME ~NamesReturn, TypeInv, TextInv, NEW n \in Names, NEW m \in Names, Rename(n, m)
  PROVE  TextInv'
<1>1. n # m /\ saved[n] # NoFile /\ Free(m) /\ todo = <<>>
  BY DEF Rename, Start, Ready
<1>2. Untaken(m) /\ Holders(m) = {}
  BY <1>1, FreeUntaken
<1>3. ASSUME NEW t \in 0..MaxTabs, NEW l, Start(l), Holders(n) = {} \/ Holders(n) = {t},
             t \in Open => t \in Holders(n),
             NEW i \in 1..Len(l), l[i] = Op("move", t, n, m),
             l[Len(l)] = Op("name", t, n, m),
             \/ Len(l) = i + 1
             \/ /\ Len(l) = i + 3 /\ l[i + 1].op = "forget" /\ l[i + 1].tab = t
                /\ l[i + 2].op = "remember" /\ l[i + 2].tab = t
      PROVE  /\ PlanAt(l[i], i)' /\ PlanAt(l[Len(l)], Len(l))'
             /\ t \in Open => Named(t)'
             /\ Is(Len(l), "name", t)'
  <2>1. PICK a, b, k : a = l[i] /\ b = l[Len(l)] /\ k = Len(l)
    OBVIOUS
  <2>2. /\ a.op = "move" /\ a.tab = t /\ a.name = n /\ a.to = m
        /\ b.op = "name" /\ b.tab = t /\ b.to = m
    BY <1>3, <2>1, OpRecord
  <2>3. /\ k \in Nat /\ i \in Nat /\ i >= 1 /\ k \in 1..k /\ i \in 1..(k - 1)
        /\ k = i + 1 \/ (k = i + 3 /\ i + 1 \in 1..k /\ i + 2 \in 1..k)
    BY <1>3, <2>1
  <2>4. /\ Untaken(m)' /\ Holders(m)' = {} /\ Holders(n)' = Holders(n) /\ Open' = Open
        /\ todo' = l /\ tabs' = tabs
    BY <1>2, <1>3, StartSame
  <2>5. /\ Is(k, "name", t)' /\ todo'[i].op = "move" /\ todo'[k].to = m
        /\ k = i + 3 => Is(i + 1, "forget", t)' /\ Is(i + 2, "remember", t)'
    BY <1>3, <2>1, <2>2, <2>3, <2>4 DEF Is
  <2>6. MoveAt(a, i)'
    BY <1>1, <1>3, <2>1, <2>2, <2>3, <2>4, <2>5 DEF MoveAt
  <2>7. NameAt(b, k)'
    BY <2>1, <2>2, <2>3, <2>4, <2>5 DEF NameAt
  <2>8. PlanAt(a, i)' /\ PlanAt(b, k)'
    BY <2>2, <2>6, <2>7 DEF PlanAt, RememberAt, InstallAt, MoveAt, NameAt, ForgetAt, OpenAt, DeleteAt
  <2>9. t \in Open => Named(t)'
    BY <1>3, <2>4, Numbers DEF Open, Holders, Named
  <2> QED
    BY <2>1, <2>5, <2>8, <2>9
<1>4. ASSUME NEW t \in Holders(n) PROVE /\ t \in Ids /\ t \in 0..MaxTabs /\ Holders(n) = {t}
  <2>1. \A u \in Holders(n) : u = t
    BY <1>4, Numbers DEF Holders, Open, TextInv, Unique
  <2> QED
    BY <2>1, Numbers DEF Holders, Open, Ids
<1>5. ASSUME NEW t \in Holders(n),
             Start(<<On("text", t), Op("move", t, n, m), On("forget", t), On("remember", t),
                     Op("name", t, n, m)>>)
      PROVE  TextInv'
  <2> DEFINE l == <<On("text", t), Op("move", t, n, m), On("forget", t), On("remember", t),
                    Op("name", t, n, m)>>
  <2>1. /\ Len(l) = 5 /\ l[1] = On("text", t) /\ l[2] = Op("move", t, n, m)
        /\ l[3] = On("forget", t) /\ l[4] = On("remember", t) /\ l[5] = Op("name", t, n, m)
        /\ \A i \in 1..5 : i \in {1, 2, 3, 4, 5}
    OBVIOUS
  <2>2. Start(l)
    BY <1>5
  <2> HIDE DEF l
  <2>3. /\ l[1].op = "text" /\ l[3].op = "forget" /\ l[3].tab = t
        /\ l[4].op = "remember" /\ l[4].tab = t
    BY <1>4, <2>1, OnRecord
  <2>4. /\ t \in Open /\ t \in 0..MaxTabs /\ 2 \in 1..Len(l)
        /\ 2 + 3 = 5 /\ 2 + 2 = 4 /\ 2 + 1 = 3
        /\ l[Len(l)] = Op("name", t, n, m)
    BY <1>4, <1>5, <2>1 DEF Holders
  <2>5. PlanAt(l[2], 2)' /\ PlanAt(l[5], 5)' /\ Named(t)' /\ Is(5, "name", t)'
    <3>1. /\ Len(l) = 2 + 3 /\ l[2 + 1].op = "forget" /\ l[2 + 1].tab = t
          /\ l[2 + 2].op = "remember" /\ l[2 + 2].tab = t /\ t \in Holders(n)
      BY <1>4, <2>1, <2>3, <2>4
    <3>2. /\ PlanAt(l[2], 2)' /\ PlanAt(l[Len(l)], Len(l))'
          /\ t \in Open => Named(t)'
          /\ Is(Len(l), "name", t)'
      BY <1>3, <1>4, <2>1, <2>2, <2>4, <3>1
    <3> QED
      BY <2>1, <2>4, <3>2
  <2>6. PICK b, c : b = l[3] /\ c = l[4]
    OBVIOUS
  <2>7. Is(4, "remember", t)'
    <3>1. todo' = l /\ 4 \in 1..Len(l) /\ c.op = "remember" /\ c.tab = t
      BY <2>1, <2>2, <2>3, <2>6, StartSame
    <3> QED
      BY <2>6, <3>1 DEF Is
  <2>8. PlanAt(l[3], 3)'
    <3>1. ForgetAt(b, 3)'
      BY <2>3, <2>5, <2>6, <2>7, 3 + 1 = 4, 3 + 2 = 5 DEF ForgetAt
    <3> QED
      BY <2>3, <2>6, <3>1 DEF PlanAt, RememberAt, InstallAt, MoveAt, NameAt, OpenAt, DeleteAt
  <2>9. PlanAt(l[4], 4)'
    <3>1. RememberAt(c, 4)'
      BY <2>3, <2>5, <2>6, 4 + 1 = 5 DEF RememberAt
    <3> QED
      BY <2>3, <2>6, <3>1 DEF PlanAt, InstallAt, MoveAt, NameAt, ForgetAt, OpenAt, DeleteAt
  <2>10. PlanAt(l[1], 1)'
    BY <2>3, PlainAt
  <2> QED
    BY <2>1, <2>2, <2>5, <2>8, <2>9, <2>10, StartTexts
<1>6. ASSUME NEW t \in Holders(n), Start(<<On("text", t), Op("move", t, n, m), Op("name", t, n, m)>>)
      PROVE  TextInv'
  <2> DEFINE l == <<On("text", t), Op("move", t, n, m), Op("name", t, n, m)>>
  <2>1. /\ Len(l) = 3 /\ l[1] = On("text", t) /\ l[2] = Op("move", t, n, m)
        /\ l[3] = Op("name", t, n, m) /\ \A i \in 1..3 : i \in {1, 2, 3}
    OBVIOUS
  <2>2. Start(l)
    BY <1>6
  <2> HIDE DEF l
  <2>3. l[1].op = "text"
    BY <1>4, <2>1, OnRecord
  <2>4. /\ t \in Open /\ t \in 0..MaxTabs /\ 2 \in 1..Len(l) /\ 2 + 1 = 3
        /\ l[Len(l)] = Op("name", t, n, m)
    BY <1>4, <1>6, <2>1 DEF Holders
  <2>5. PlanAt(l[2], 2)' /\ PlanAt(l[3], 3)'
    BY <1>3, <1>4, <2>1, <2>2, <2>4
  <2>6. PlanAt(l[1], 1)'
    BY <2>3, PlainAt
  <2> QED
    BY <2>1, <2>2, <2>5, <2>6, StartTexts
<1>7. CASE Holders(n) = {} /\ Start(<<Op("move", MaxTabs, n, m), Op("name", MaxTabs, n, m)>>)
  <2> DEFINE l == <<Op("move", MaxTabs, n, m), Op("name", MaxTabs, n, m)>>
  <2>1. /\ Len(l) = 2 /\ l[1] = Op("move", MaxTabs, n, m)
        /\ l[2] = Op("name", MaxTabs, n, m) /\ \A i \in 1..2 : i \in {1, 2}
    OBVIOUS
  <2>2. Start(l)
    BY <1>7
  <2> HIDE DEF l
  <2>3. MaxTabs \in 0..MaxTabs /\ MaxTabs \notin Open
    BY Numbers DEF Open, Ids
  <2>4. 1 \in 1..Len(l) /\ 1 + 1 = 2 /\ l[Len(l)] = Op("name", MaxTabs, n, m)
    BY <2>1
  <2>5. PlanAt(l[1], 1)' /\ PlanAt(l[2], 2)'
    BY <1>3, <1>7, <2>1, <2>2, <2>3, <2>4
  <2> QED
    BY <2>1, <2>2, <2>5, StartTexts
<1> QED
  BY <1>5, <1>6, <1>7 DEF Rename

\* A closing's steps, behind its first.
LEMMA AfterAt ==
  ASSUME NEW t \in Ids, NEW k, Is(k, "remove", t)', NEW i \in Nat, k \in 1..(i - 1), NEW s \in After(t)
  PROVE  PlanAt(s, i)'
<1>1. \/ s.op \in {"drop", "show"} \/ (s.op = "remember" /\ s.tab \notin Ids)
      \/ (s.op = "forget" /\ s.tab = t)
  BY OnRecord, PassRecord DEF After
<1>2. CASE s.op \in {"drop", "show"} \/ (s.op = "remember" /\ s.tab \notin Ids)
  BY <1>2, PlainAt
<1>3. CASE s.op = "forget" /\ s.tab = t
  <2>1. ForgetAt(s, i)'
    BY <1>3 DEF ForgetAt
  <2> QED
    BY <1>3, <2>1 DEF PlanAt, RememberAt, InstallAt, MoveAt, NameAt, OpenAt, DeleteAt
<1> QED
  BY <1>1, <1>2, <1>3

LEMMA TrailTexts ==
  ASSUME TypeInv, TextInv, NEW t \in Ids, NEW l, Start(l), NEW k \in {1, 2},
         Len(l) \in Nat, Len(l) >= k, l[k] = On("remove", t),
         k = 2 => PlanAt(l[1], 1)',
         \A i \in 1..Len(l) : i \in 1..k \/ l[i] \in After(t)
  PROVE  TextInv'
<1>1. On("remove", t).op = "remove" /\ On("remove", t).tab = t
  BY OnRecord
<1>2. Is(k, "remove", t)'
  BY <1>1, StartSame
<1>3. ASSUME NEW i \in 1..Len(l) PROVE PlanAt(l[i], i)'
  <2>1. CASE i = k
    BY <1>1, <2>1, PlainAt
  <2>2. CASE i < k
    <3>1. i = 1 /\ k = 2
      BY <2>2
    <3> QED
      BY <3>1
  <2>3. CASE i > k
    <3>1. k \in 1..(i - 1) /\ i \in Nat /\ l[i] \in After(t)
      BY <2>3
    <3> QED
      BY <1>2, <3>1, AfterAt
  <2> QED
    BY <2>1, <2>2, <2>3
<1> QED
  BY <1>3, StartTexts

LEMMA CloseTexts == ASSUME TypeInv, TextInv, NEW t \in Ids, CloseBuffer(t) PROVE TextInv'
<1>1. t < next
  BY TabParts DEF CloseBuffer, Open
<1>2. PICK removal \in Removal(t) :
        Start((IF tabs[t].name = Unsaved THEN <<>> ELSE <<On("text", t)>>) \o removal)
  BY DEF CloseBuffer
<1>3. Trail(removal, t)
  BY <1>1, RemovalTrail
<1>4. CASE tabs[t].name = Unsaved
  <2>1. removal \in Seq(StepRecord)
    BY <1>3 DEF Trail, ListOK
  <2>2. <<>> \o removal = removal /\ Len(removal) \in Nat
    BY <2>1
  <2>3. /\ Start(removal) /\ Len(removal) >= 1 /\ removal[1] = On("remove", t)
        /\ \A i \in 1..Len(removal) : i \in 1..1 \/ removal[i] \in After(t)
    BY <1>2, <1>3, <1>4, <2>2 DEF Trail
  <2> QED
    BY <2>2, <2>3, TrailTexts
<1>5. CASE tabs[t].name # Unsaved
  <2> DEFINE l == <<On("text", t)>> \o removal
  <2>1. StepOK(On("text", t), TRUE, next) /\ On("text", t).op = "text"
    BY OnRecord DEF StepOK
  <2>2. /\ ListOK(l, next) /\ Len(l) = 1 + Len(removal) /\ Len(removal) >= 1
        /\ l[1] = On("text", t) /\ l[2] = On("remove", t)
        /\ \A i \in 1..Len(l) : i \in {1, 2} \/ l[i] \in After(t)
    BY <1>1, <1>3, <2>1, ThenTrail
  <2>3. Start(l)
    BY <1>2, <1>5
  <2> HIDE DEF l
  <2>4. Len(l) \in Nat /\ Len(l) >= 2 /\ \A i \in 1..Len(l) : i \in 1..2 \/ l[i] \in After(t)
    <3>1. Len(l) \in Nat /\ Len(removal) \in Nat
      BY <1>3, <2>2 DEF ListOK, Trail
    <3> QED
      BY <2>2, <3>1
  <2>5. PlanAt(l[1], 1)'
    BY <2>1, <2>2, PlainAt
  <2> QED
    BY <2>2, <2>3, <2>4, <2>5, TrailTexts
<1> QED
  BY <1>4, <1>5

LEMMA DeleteTexts == ASSUME TypeInv, TextInv, NEW n \in Names, DeleteSaved(n) PROVE TextInv'
<1>1. ASSUME NEW t \in 0..MaxTabs
      PROVE  /\ Op("delete", t, n, n) \in StepRecord /\ Op("delete", t, n, n).op = "delete"
             /\ Op("delete", t, n, n).tab = t /\ Op("delete", t, n, n).name = n
             /\ StepOK(Op("delete", t, n, n), TRUE, next)
  BY OpRecord DEF StepOK
<1>2. CASE Holders(n) = {} /\ Start(<<Op("delete", 0, n, n), Do("remember")>>)
  <2> DEFINE l == <<Op("delete", 0, n, n), Do("remember")>>
  <2>1. /\ Len(l) = 2 /\ l[1] = Op("delete", 0, n, n) /\ l[2] = Do("remember")
        /\ \A i \in 1..2 : i \in {1, 2}
    OBVIOUS
  <2>2. Start(l)
    BY <1>2
  <2> HIDE DEF l
  <2>3. PICK a : a = l[1]
    OBVIOUS
  <2>4. a.op = "delete" /\ a.name = n /\ l[2].op = "remember" /\ l[2].tab \notin Ids
    <3>1. 0 \in 0..MaxTabs
      BY Numbers
    <3> QED
      BY <1>1, <2>1, <2>3, <3>1, PassRecord
  <2>5. DeleteAt(a, 1)'
    BY <1>2, <2>2, <2>4, StartSame DEF DeleteAt
  <2>6. PlanAt(l[1], 1)'
    BY <2>3, <2>4, <2>5 DEF PlanAt, RememberAt, InstallAt, MoveAt, NameAt, OpenAt, ForgetAt
  <2>7. PlanAt(l[2], 2)'
    BY <2>4, PlainAt
  <2> QED
    BY <2>1, <2>2, <2>6, <2>7, StartTexts
<1>3. ASSUME NEW t \in Holders(n), NEW removal \in Removal(t),
             Start(<<Op("delete", t, n, n)>> \o removal)
      PROVE  TextInv'
  <2> DEFINE l == <<Op("delete", t, n, n)>> \o removal
  <2>1. t \in Ids /\ t < next /\ t \in 0..MaxTabs
    BY TabParts, Numbers DEF Holders, Open, Ids
  <2>2. Trail(removal, t)
    BY <2>1, RemovalTrail
  <2>3. StepOK(Op("delete", t, n, n), TRUE, next) /\ Op("delete", t, n, n).op # "open"
    BY <1>1, <2>1
  <2>4. /\ ListOK(l, next) /\ Len(l) = 1 + Len(removal) /\ Len(removal) >= 1
        /\ l[1] = Op("delete", t, n, n) /\ l[2] = On("remove", t)
        /\ \A i \in 1..Len(l) : i \in {1, 2} \/ l[i] \in After(t)
    BY <2>1, <2>2, <2>3, ThenTrail
  <2>5. Start(l)
    BY <1>3
  <2> HIDE DEF l
  <2>6. /\ Len(l) \in Nat /\ Len(l) >= 2 /\ 2 \in 1..Len(l)
        /\ \A i \in 1..Len(l) : i \in 1..2 \/ l[i] \in After(t)
    <3>1. Len(l) \in Nat /\ Len(removal) \in Nat
      BY <2>2, <2>4 DEF ListOK, Trail
    <3> QED
      BY <2>4, <3>1
  <2>7. PlanAt(l[1], 1)'
    <3>1. PICK a : a = l[1]
      OBVIOUS
    <3>2. a.op = "delete" /\ a.name = n /\ a.tab = t
      BY <1>1, <2>1, <2>4, <3>1
    <3>3. Holders(n) = {t}
      <4>1. \A u \in Holders(n) : u = t
        BY <1>3, Numbers DEF Holders, Open, TextInv, Unique
      <4> QED
        BY <4>1
    <3>4. Is(2, "remove", t)' /\ Holders(n)' = {t} /\ 1 + 1 = 2
      BY <2>1, <2>4, <2>5, <2>6, <3>3, StartSame, OnRecord
    <3>5. DeleteAt(a, 1)'
      BY <3>2, <3>4 DEF DeleteAt
    <3> QED
      BY <3>1, <3>2, <3>5 DEF PlanAt, RememberAt, InstallAt, MoveAt, NameAt, OpenAt, ForgetAt
  <2> QED
    BY <2>1, <2>4, <2>5, <2>6, <2>7, TrailTexts
<1> QED
  BY <1>2, <1>3 DEF DeleteSaved

LEMMA PersistTexts ==
  ASSUME TypeInv, TextInv, Persist \/ NewQuery \/ Quit \/ \E n \in Names : OpenSaved(n)
  PROVE  TextInv'
<1>1. CASE Persist
  <2>1. \A i \in 1..Len(PersistAll) : PersistAll[i].op \in {"grids", "text"}
    BY PersistRest
  <2>2. \A i \in 1..Len(PersistAll) : PlanAt(PersistAll[i], i)'
    BY <2>1, PlainAt
  <2> QED
    BY <1>1, <2>2, StartTexts DEF Persist
<1>2. ASSUME NEW s, StepOK(s, TRUE, next), Start(PersistAll \o <<s>>),
             \/ s.op \in {"open", "exit"} /\ s.name = Unsaved
             \/ s.op = "open" /\ Holders(s.name) = {}
      PROVE  TextInv'
  <2> DEFINE l == PersistAll \o <<s>>
  <2>1. /\ Len(l) = MaxTabs + 2 /\ l[MaxTabs + 2] = s
        /\ \A i \in 1..Len(l) : i = MaxTabs + 2 \/ l[i].op \in {"grids", "text"}
    BY <1>2, PersistThen
  <2>2. Start(l)
    BY <1>2
  <2> HIDE DEF l
  <2>3. OpenAt(s, MaxTabs + 2)'
    BY <1>2, <2>2, StartSame DEF OpenAt
  <2>4. PlanAt(s, MaxTabs + 2)'
    BY <1>2, <2>3 DEF PlanAt, RememberAt, InstallAt, MoveAt, NameAt, DeleteAt, ForgetAt
  <2>5. \A i \in 1..Len(l) : PlanAt(l[i], i)'
    BY <2>1, <2>4, PlainAt
  <2> QED
    BY <2>2, <2>5, StartTexts
<1>3. CASE NewQuery
  <2>1. StepOK(Do("open"), TRUE, next)
    BY <1>3, PassRecord DEF StepOK, NewQuery
  <2> QED
    BY <1>2, <1>3, <2>1, PassRecord DEF NewQuery
<1>4. CASE Quit
  <2>1. StepOK(Do("exit"), TRUE, next) /\ Do("exit").name = Unsaved
    BY PassRecord DEF StepOK, Do, Op
  <2> QED
    BY <1>2, <1>4, <2>1, PassRecord DEF Quit
<1>5. ASSUME NEW n \in Names, OpenSaved(n) PROVE TextInv'
  <2>1. 0 \in 0..MaxTabs
    BY Numbers
  <2>2. Op("open", 0, n, n).op = "open" /\ Op("open", 0, n, n).name = n
    BY <2>1, OpRecord
  <2>3. StepOK(Op("open", 0, n, n), TRUE, next)
    BY <1>5, <2>1, OpRecord DEF StepOK, OpenSaved
  <2> QED
    BY <1>2, <1>5, <2>2, <2>3 DEF OpenSaved
<1> QED
  BY <1>1, <1>3, <1>4, <1>5

\* A tab that keeps its name and what it read or wrote last.
LEMMA OneTabTexts ==
  ASSUME TypeInv, TextInv, todo = <<>>, NEW t \in Ids, tabs[t].open, NEW tb \in TabRecord, tb.open,
         tb.name = tabs[t].name, tb.base = tabs[t].base, tabs' = [tabs EXCEPT ![t] = tb],
         UNCHANGED <<up, todo, saved, scratch, stored, owed>>
  PROVE  TextInv'
<1>1. \A u \in Ids : /\ tabs'[u].open <=> tabs[u].open
                     /\ tabs'[u].name = tabs[u].name /\ tabs'[u].base = tabs[u].base
  BY DEF TypeInv, Shapes
<1>2. \A u \in Ids : (Buffer(u)' <=> Buffer(u)) /\ (Named(u)' <=> Named(u))
  BY <1>1 DEF Buffer, Named
<1>3. Kept'
  BY <1>2 DEF TextInv, Kept, InFile, Holds
<1>4. Synced' /\ Gone' /\ Unique'
  BY <1>1, <1>2 DEF TextInv, Synced, Gone, Unique
<1>5. Settled'
  BY <1>1, <1>2, ReadySettled DEF Settled
<1> QED
  BY <1>3, <1>4, <1>5, NoPlan DEF TextInv

LEMMA TypeTexts == ASSUME TypeInv, TextInv, NEW t \in Ids, Type(t) PROVE TextInv'
<1>1. typed + 1 \in Texts /\ tabs[t].open /\ tabs[t] \in TabRecord /\ todo = <<>>
      /\ UNCHANGED <<up, todo, saved, scratch, stored, owed>>
  BY Numbers, TabParts DEF Type, Ready, Open, TypeInv, Shapes, Texts, disk
<1> DEFINE tb == [tabs[t] EXCEPT !.text = typed + 1]
<1>2. tb \in TabRecord /\ tb.open /\ tb.name = tabs[t].name /\ tb.base = tabs[t].base
  BY <1>1 DEF TabRecord
<1>3. tabs' = [tabs EXCEPT ![t] = tb]
  BY DEF Type
<1> HIDE DEF tb
<1> QED
  BY <1>1, <1>2, <1>3, OneTabTexts

LEMMA RunTexts == ASSUME TypeInv, TextInv, NEW t \in Ids, Run(t) PROVE TextInv'
<1>1. tabs[t].open /\ todo = <<>> /\ UNCHANGED <<up, todo, saved, scratch, stored, owed>>
  BY DEF Run, Ready, Open, disk
<1>2. PICK tb \in TabRecord : /\ tb.open /\ tb.name = tabs[t].name /\ tb.base = tabs[t].base
                              /\ tabs' = [tabs EXCEPT ![t] = tb]
  BY RanType
<1> QED
  BY <1>1, <1>2, OneTabTexts

LEMMA ActivateTexts == ASSUME TypeInv, TextInv, NEW t \in Ids, Activate(t) PROVE TextInv'
<1>1. /\ up /\ todo = <<>> /\ todo' = <<>> /\ Show(t)
      /\ UNCHANGED <<up, next, saved, scratch, owed>>
  BY DEF Activate, Ready
<1>2. /\ Kept' /\ Synced' /\ Gone' /\ Unique'
      /\ \A u \in Ids : /\ tabs'[u].open = tabs[u].open
                        /\ tabs'[u].name = tabs[u].name /\ tabs'[u].base = tabs[u].base
  BY <1>1, ShownTexts
<1>3. Settled'
  BY <1>1, <1>2, ReadySettled DEF Settled, Buffer, Named
<1> QED
  BY <1>1, <1>2, <1>3, NoPlan DEF TextInv

LEMMA UserTexts == ASSUME ~NamesReturn, TypeInv, TextInv, User PROVE TextInv'
<1>1. ASSUME NEW t \in Ids, Type(t) \/ Run(t) \/ Activate(t) \/ CloseBuffer(t) PROVE TextInv'
  BY <1>1, TypeTexts, RunTexts, ActivateTexts, CloseTexts
<1>2. ASSUME NEW n \in Names, OpenSaved(n) \/ DeleteSaved(n) PROVE TextInv'
  BY <1>2, PersistTexts, DeleteTexts
<1>3. ASSUME NEW n \in Names, NEW t \in Ids, SaveAs(t, n) PROVE TextInv'
  BY <1>3, SaveAsTexts
<1>4. ASSUME NEW n \in Names, NEW m \in Names, Rename(n, m) PROVE TextInv'
  BY <1>4, RenameTexts
<1>5. ASSUME Persist \/ NewQuery \/ Quit PROVE TextInv'
  BY <1>5, PersistTexts
<1> QED
  BY <1>1, <1>2, <1>3, <1>4, <1>5 DEF User

-----------------------------------------------------------------------------
(* The world.                                                              *)

LEMMA LaunchTexts == ASSUME TypeInv, TextInv, Launch PROVE TextInv'
<1>1. /\ up' /\ ~up /\ todo' = <<>> /\ UNCHANGED <<saved, scratch, stored, owed>>
      /\ \A t \in Ids : tabs'[t] = Brought(t)
  BY LaunchParts DEF counts
<1>2. \A t \in Ids :
        /\ tabs'[t].open = stored.tabs[t].open
        /\ ~stored.tabs[t].open => tabs'[t].name = Unsaved
        /\ stored.tabs[t].open =>
             /\ tabs'[t].name = IF stored.tabs[t].name # Unsaved
                                   /\ saved[stored.tabs[t].name] = NoFile
                                THEN Unsaved ELSE stored.tabs[t].name
             /\ tabs'[t].base = IF tabs'[t].name = Unsaved THEN scratch[t]
                                ELSE saved[tabs'[t].name]
  BY <1>1, BroughtType, NothingType
<1>3. Kept'
  <2>1. \A t \in Ids : Holds(t) => Holds(t)'
    BY <1>1, <1>2 DEF Holds, Buffer
  <2>2. \A x : InFile(x)' <=> InFile(x)
    BY <1>1 DEF InFile
  <2> QED
    BY <1>1, <2>1, <2>2 DEF TextInv, Kept
<1>4. Synced'
  BY <1>1, <1>2 DEF Synced
<1>5. Gone'
  BY <1>1, <1>2 DEF TextInv, Gone, Buffer
<1>6. Unique'
  BY <1>1, <1>2 DEF TextInv, Unique
<1>7. Settled'
  BY <1>1, <1>2 DEF Settled, Buffer, Named
<1> QED
  BY <1>1, <1>3, <1>4, <1>5, <1>6, <1>7, NoPlan DEF TextInv

\* What waits for no stored tab hides none of their texts.
LEMMA AppearsTexts ==
  ASSUME ~NamesReturn, TypeInv, TextInv, NEW n \in Names, Appears(n)
  PROVE  TextInv'
<1>0. PICK x : x = typed + 1
  OBVIOUS
<1>1. /\ saved[n] = NoFile /\ \A t \in Ids : stored.tabs[t].name = n => tabs[t].name = n
      /\ saved' = [saved EXCEPT ![n] = x] /\ owed' = owed \cup {x}
      /\ UNCHANGED <<up, tabs, todo, scratch, stored>> /\ x # 0
  BY <1>0, Numbers DEF Appears, Free, Awaited, memory, TypeInv, Shapes
<1>2. saved'[n] = x /\ \A o \in Names : o # n => saved'[o] = saved[o]
  BY <1>1 DEF TypeInv, Shapes
<1>3. \A y : InFile(y) /\ y # NoFile => InFile(y)'
  BY <1>1, <1>2 DEF InFile
<1>4. InFile(x)'
  BY <1>2 DEF InFile
<1>5. \A t \in Ids : tabs[t].name # n => stored.tabs[t].name # n
  BY <1>1
<1>6. \A t \in Ids : (Buffer(t)' <=> Buffer(t)) /\ (Named(t)' <=> Named(t))
  BY <1>1 DEF Buffer, Named
<1>7. Kept'
  <2>1. \A t \in Ids : Holds(t) => Holds(t)'
    <3> SUFFICES ASSUME NEW t \in Ids, Holds(t) PROVE Holds(t)'
      OBVIOUS
    <3>1. tabs[t].name = Unsaved
      BY TabParts DEF TypeInv, Bounded, Holds, Buffer
    <3>2. stored.tabs[t].name # n /\ stored.tabs[t].name \in Names \cup {Unsaved}
      BY <1>5, <3>1, TextParts, Numbers
    <3> QED
      BY <1>1, <1>2, <1>6, <3>2 DEF Holds
  <2>2. NoFile \notin owed /\ 0 \notin owed
    BY TextParts
  <2> QED
    BY <1>1, <1>3, <1>4, <2>1, <2>2 DEF TextInv, Kept
<1>8. Synced' /\ Unique'
  BY <1>1 DEF TextInv, Synced, Unique
<1>9. Gone'
  <2> SUFFICES ASSUME NEW t \in Ids, stored.tabs[t].name # Unsaved
               PROVE  /\ Buffer(t) => saved'[stored.tabs[t].name] = NoFile
                      /\ scratch[t] # 0 => /\ saved'[stored.tabs[t].name] = NoFile
                                           /\ tabs[t].name # stored.tabs[t].name
    BY <1>1, <1>6 DEF Gone
  <2>1. /\ Buffer(t) => saved[stored.tabs[t].name] = NoFile
        /\ scratch[t] # 0 => /\ saved[stored.tabs[t].name] = NoFile
                             /\ tabs[t].name # stored.tabs[t].name
        /\ stored.tabs[t].name \in Names
    BY TextParts DEF TextInv, Gone
  <2>2. Buffer(t) \/ scratch[t] # 0 => stored.tabs[t].name # n
    BY <1>1, <2>1, Numbers DEF Buffer
  <2> QED
    BY <1>2, <2>1, <2>2
<1>10. Settled'
  <2>1. \A u \in Ids : Named(u) /\ saved[tabs[u].name] = tabs[u].base
                         => saved'[tabs[u].name] = tabs[u].base
    BY <1>1, <1>2, TextParts
  <2> QED
    BY <1>1, <1>6, <2>1 DEF TextInv, Settled, Nearing
<1>11. Plan'
  <2> SUFFICES ASSUME NEW i \in 1..Len(todo), NEW s, s = todo[i]
               PROVE  PlanAt(s, i)'
    BY <1>1 DEF Plan
  <2>1. PlanAt(s, i)
    BY DEF TextInv, Plan
  <2>2. /\ Open' = Open /\ \A m : Holders(m)' = Holders(m) /\ Untaken(m)' = Untaken(m)
        /\ \A j, op, t : Is(j, op, t)' = Is(j, op, t)
    BY <1>1 DEF Open, Holders, Untaken, Is
  <2>3. InstallAt(s, i)' /\ MoveAt(s, i)' /\ OpenAt(s, i)' /\ DeleteAt(s, i)' /\ RememberAt(s, i)'
    BY <1>1, <1>6, <2>1, <2>2 DEF PlanAt, RememberAt, InstallAt, MoveAt, OpenAt, DeleteAt, Buffer
  <2>4. NameAt(s, i)'
    <3>1. s.op = "name" => s.to \in Names
      BY DEF TypeInv, ListOK, StepOK
    <3>2. s.tab \in Open => tabs[s.tab].base # NoFile
      BY TextParts DEF Open
    <3>3. s.op = "name" /\ s.tab \in Open /\ saved[s.to] = tabs[s.tab].base
            => saved'[s.to] = tabs[s.tab].base
      BY <1>1, <1>2, <3>1, <3>2
    <3> QED
      BY <1>1, <2>1, <2>2, <3>3 DEF PlanAt, NameAt
  <2>5. ForgetAt(s, i)'
    <3>1. s.op = "forget" => s.tab \in Ids
      BY DEF TypeInv, ListOK, StepOK
    <3>2. s.op = "forget" /\ (scratch[s.tab] \in owed => InFile(scratch[s.tab]))
            => (scratch'[s.tab] \in owed' => \E o \in Names : saved'[o] = scratch'[s.tab])
      <4>1. s.op = "forget" => scratch[s.tab] # NoFile
        BY <3>1, TextParts
      <4> QED
        BY <1>1, <1>3, <1>4, <4>1 DEF InFile
    <3> QED
      BY <1>1, <1>6, <2>1, <2>2, <3>1, <3>2 DEF PlanAt, ForgetAt, InFile
  <2> QED
    BY <2>3, <2>4, <2>5 DEF PlanAt
<1> QED
  BY <1>7, <1>8, <1>9, <1>10, <1>11 DEF TextInv

LEMMA InitTexts == ASSUME Init PROVE TextInv
<1>1. /\ owed = {} /\ todo = <<>> /\ scratch = [t \in Ids |-> 0]
      /\ \A t \in Ids : /\ tabs[t].open = (t = 0) /\ tabs[t].name = Unsaved /\ tabs[t].base = 0
                        /\ stored.tabs[t].open = (t = 0) /\ stored.tabs[t].name = Unsaved
  BY NothingType, Numbers DEF Init, NoTab, NoEntry
<1>2. Kept
  BY <1>1 DEF Kept
<1>3. Synced /\ Gone /\ Unique /\ Settled
  BY <1>1 DEF Synced, Gone, Unique, Settled, Buffer, Named
<1>4. Plan
  BY <1>1 DEF Plan
<1> QED
  BY <1>2, <1>3, <1>4 DEF TextInv

LEMMA TextsAlways == ASSUME ~NamesReturn PROVE Spec => []TextInv
<1>1. Init => TextInv
  BY InitTexts
<1>2. TypeInv /\ TextInv /\ [Next]_vars => TextInv'
  <2> SUFFICES ASSUME TypeInv, TextInv, [Next]_vars PROVE TextInv'
    OBVIOUS
  <2>1. CASE UNCHANGED vars
    <3>1. UNCHANGED <<up, tabs, todo, saved, scratch, stored, owed>>
      BY <2>1 DEF vars, memory, disk
    <3>2. Kept' /\ Synced' /\ Gone' /\ Unique' /\ Settled'
      BY <3>1 DEF TextInv, Kept, Synced, Gone, Unique, Settled, InFile, Holds, Buffer, Named, Nearing
    <3>3. Plan'
      BY <3>1 DEF TextInv, Plan, PlanAt, RememberAt, InstallAt, MoveAt, NameAt, OpenAt, DeleteAt, ForgetAt,
           Is, Open, Holders, Untaken, Buffer, Named, InFile
    <3> QED
      BY <3>2, <3>3 DEF TextInv
  <2>2. CASE Next
    BY <2>2, StepsTexts, UserTexts, DownTexts, LaunchTexts, AppearsTexts DEF Next, Crash
  <2> QED
    BY <2>1, <2>2
<1> QED
  BY <1>1, <1>2, TypedAlways, PTL DEF Spec

\* No text that was written is lost but to what replaced or discarded it: where
\* a name waits for its stored tab, it is in a query's file or a scratch file
\* that the next launch reads, before and after every write to disk.
THEOREM TextsAreKept == ASSUME ~NamesReturn PROVE Spec => []TextKept
<1>1. TextInv => TextKept
  <2>1. ASSUME TextInv, NEW x \in owed PROVE Found(x)
    <3>1. \/ \E n \in Names : saved[n] = x
          \/ \E t \in Ids : scratch[t] = x /\ Holds(t)
      BY <2>1 DEF TextInv, Kept, InFile
    <3> QED
      BY <3>1 DEF Found, Holds
  <2> QED
    BY <2>1 DEF TextKept
<1> QED
  BY <1>1, TextsAlways, PTL

\* A saved query is in one tab at most, now and at the next launch: what is
\* opened or brought up is no tab's, and a new name no tab's nor a stored one's.
THEOREM HeldOnceAlways == ASSUME ~NamesReturn PROVE Spec => []HeldOnce
<1>1. TextInv => HeldOnce
  BY DEF TextInv, Unique, HeldOnce
<1> QED
  BY <1>1, TextsAlways, PTL

=============================================================================
