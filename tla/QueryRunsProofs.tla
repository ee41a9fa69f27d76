-------------------------- MODULE QueryRunsProofs ---------------------------
(***************************************************************************)
(* Proofs about QueryRuns, for every buffer, every number of connections,  *)
(* tabs, grids and tokens.                                                 *)
(*                                                                         *)
(* The handlers are operators on a session, so what they keep is stated of *)
(* a session once, in a lemma per handler, and an action cites the lemmas  *)
(* of the handlers it calls.  What the operations on a tab return comes    *)
(* first: lemmas on positions, on the strip of results, and on the tab as  *)
(* a whole.                                                                *)
(*                                                                         *)
(* After the types comes what a tab can be on, and what the pieces of a    *)
(* handler keep of it: a token taken, a result that lands in the strip, a  *)
(* tab that is written.                                                    *)
(***************************************************************************)
EXTENDS QueryRuns, FiniteSetTheorems, SequenceTheorems, TLAPS

-----------------------------------------------------------------------------
(* Finite sets of positions.                                               *)

\* Counting the members below each one numbers a finite set of naturals from
\* zero, so there is a k-th smallest for each k.
LEMMA RankExists ==
  ASSUME NEW at \in SUBSET Nat, IsFiniteSet(at), NEW k \in 1..Cardinality(at)
  PROVE  \E i \in at : Cardinality({j \in at : j < i}) = k - 1
<1> DEFINE n == Cardinality(at)
           below(i) == {j \in at : j < i}
           rank == [i \in at |-> Cardinality(below(i))]
<1>1. n \in Nat /\ n >= 1
  BY FS_CardinalityType
<1>2. ASSUME NEW i \in at
      PROVE  /\ IsFiniteSet(below(i)) /\ Cardinality(below(i)) \in Nat
             /\ Cardinality(below(i)) <= n - 1
  <2>1. below(i) \in SUBSET at /\ below(i) # at
    OBVIOUS
  <2>2. IsFiniteSet(below(i)) /\ Cardinality(below(i)) <= n /\ Cardinality(below(i)) # n
    BY <2>1, FS_Subset
  <2>3. Cardinality(below(i)) \in Nat
    BY <2>2, FS_CardinalityType
  <2> QED
    BY <2>2, <2>3, <1>1
<1>3. ASSUME NEW i \in at, NEW j \in at, i < j
      PROVE  Cardinality(below(i)) # Cardinality(below(j))
  <2>1. i \in below(j) /\ i \notin below(i)
    BY <1>3
  <2>2. \A x \in at : x < i => x < j
    BY <1>3
  <2>3. below(i) \in SUBSET below(j)
    BY <2>2
  <2> QED
    BY <2>1, <2>3, <1>2, FS_Subset
<1>4. rank \in Injection(at, 0..n-1)
  <2>1. rank \in [at -> 0..n-1]
    BY <1>1, <1>2
  <2>2. ASSUME NEW i \in at, NEW j \in at, rank[i] = rank[j]
        PROVE  i = j
    BY <1>3, <2>2
  <2> QED
    BY <2>1, <2>2 DEF Injection, IsInjective
<1>5. IsFiniteSet(0..n-1) /\ Cardinality(0..n-1) = n
  <2>1. 0 \in Int /\ n - 1 \in Int /\ ~(0 > n - 1) /\ (n - 1) - 0 + 1 = n
    BY <1>1
  <2> QED
    BY ONLY <2>1, FS_Interval
<1>6. rank \in Surjection(at, 0..n-1)
  BY <1>4, <1>5, FS_Injection
<1>7. k - 1 \in 0..n-1
  BY <1>1
<1> HIDE DEF n
<1> QED
  BY <1>6, <1>7 DEF Surjection

LEMMA NthMember ==
  ASSUME NEW at \in SUBSET Nat, IsFiniteSet(at), NEW k \in 1..Cardinality(at)
  PROVE  Nth(at, k) \in at /\ Cardinality({j \in at : j < Nth(at, k)}) = k - 1
BY RankExists DEF Nth

LEMMA MinMember ==
  ASSUME NEW at \in SUBSET Nat, IsFiniteSet(at), at # {}
  PROVE  Min(at) \in at /\ \A j \in at : Min(at) <= j
<1>1. Cardinality(at) \in Nat /\ Cardinality(at) # 0
  BY FS_CardinalityType, FS_EmptySet
<1>2. PICK i \in at : Cardinality({j \in at : j < i}) = 1 - 1
  BY <1>1, RankExists
<1>3. IsFiniteSet({j \in at : j < i})
  BY FS_Subset
<1>4. {j \in at : j < i} = {}
  BY <1>2, <1>3, FS_EmptySet
<1>5. \A j \in at : i <= j
  BY <1>4
<1> QED
  BY <1>5 DEF Min

LEMMA MaxMember ==
  ASSUME NEW at \in SUBSET Nat, IsFiniteSet(at), at # {}
  PROVE  Max(at) \in at /\ \A j \in at : j <= Max(at)
<1> DEFINE n == Cardinality(at)
<1>1. n \in Nat /\ n # 0
  BY FS_CardinalityType, FS_EmptySet
<1>2. n \in 1..n
  BY <1>1
<1>3. PICK i \in at : Cardinality({j \in at : j < i}) = n - 1
  BY <1>2, RankExists
<1> DEFINE below == {j \in at : j < i}
<1>4. IsFiniteSet(below) /\ i \notin below /\ below \cup {i} \in SUBSET at
  BY FS_Subset
<1>5. Cardinality(below) = n - 1
  BY <1>3
<1>6. Cardinality(below \cup {i}) = n
  <2> HIDE DEF below, n
  <2> QED
    BY <1>1, <1>4, <1>5, FS_AddElement
<1>7. below \cup {i} = at
  <2> HIDE DEF below
  <2> QED
    BY <1>4, <1>6, FS_Subset
<1>8. \A j \in at : i >= j
  BY <1>7
<1> QED
  BY <1>8 DEF Max

LEMMA MinOfTwo ==
  ASSUME NEW a \in Nat, NEW b \in Nat
  PROVE  Min({a, b}) \in Nat /\ Min({a, b}) <= a /\ Min({a, b}) <= b
<1>1. \E x \in {a, b} : \A y \in {a, b} : x <= y
  OBVIOUS
<1> QED
  BY <1>1 DEF Min

-----------------------------------------------------------------------------
(* States, queues and tabs have their types.                               *)

LEMMA SeqOfFunction ==
  ASSUME NEW S, NEW n \in Nat, NEW f \in [1..n -> S]
  PROVE  f \in Seq(S) /\ Len(f) = n
BY SeqDef

LEMMA EndedType ==
  ASSUME NEW kind \in Kinds
  PROVE  Ended(kind) \in State
BY DEF Ended, State

LEMMA RunningType ==
  ASSUME NEW run \in Runs
  PROVE  Running(run) \in State
BY DEF Running, State, Kinds

LEMMA NoQueueType == NoQueue \in Queue
<1>1. <<>> \in Seq(Statements) /\ <<>> \in Seq(Finished) /\ <<>> \in Seq(Grids)
  BY EmptySeq
<1> QED
  BY <1>1 DEF NoQueue, Queue

\* What a queue is made of, in the form the proofs use it.
LEMMA QueueParts ==
  ASSUME NEW queue \in Queue
  PROVE  /\ queue.remaining \in Seq(Statements)
         /\ queue.done \in Seq(Finished)
         /\ queue.showing \in Nat
         /\ queue.awaiting \in BOOLEAN
         /\ queue.spare \in Seq(Grids)
         /\ DOMAIN queue.done = 1..Len(queue.done)
         /\ Len(queue.done) \in Nat
         /\ Len(queue.spare) \in Nat
         /\ \A i \in DOMAIN queue.done : queue.done[i] \in Finished
BY LenProperties, ElementOfSeq DEF Queue

LEMMA TabParts ==
  ASSUME NEW tb \in Tab
  PROVE  /\ tb.state \in State
         /\ tb.grid \in Grids
         /\ tb.queue \in Queue
         /\ tb.lent \in Loan \cup {NoLoan}
         /\ tb.last \in Sent
         /\ tb.ran \in Sent
         /\ tb.rows \in [Grids -> Rows]
BY DEF Tab

-----------------------------------------------------------------------------
(* The strip of results.                                                   *)

\* A set of entries is a finite set of positions, which the lemmas above are
\* about.
LEMMA Positions ==
  ASSUME NEW queue \in Queue, NEW at \in SUBSET DOMAIN queue.done
  PROVE  /\ at \in SUBSET Nat
         /\ IsFiniteSet(at)
<1>1. DOMAIN queue.done = 1..Len(queue.done) /\ Len(queue.done) \in Nat
  BY QueueParts
<1>2. IsFiniteSet(1..Len(queue.done))
  BY <1>1, FS_Interval
<1> QED
  BY <1>1, <1>2, FS_Subset

\* A statement that has an entry has its lane there, and 0 is none.
LEMMA LaneType ==
  ASSUME NEW queue \in Queue, NEW start
  PROVE  /\ Lane(queue, start) \in Nat
         /\ Lane(queue, start) <= Len(queue.done)
         /\ Lane(queue, start) # 0 =>
              /\ Lane(queue, start) \in DOMAIN queue.done
              /\ queue.done[Lane(queue, start)].start = start
<1> DEFINE at == EntriesOf(queue.done, start)
<1>1. at \in SUBSET DOMAIN queue.done /\ \A i \in at : queue.done[i].start = start
  BY DEF EntriesOf
<1>2. DOMAIN queue.done = 1..Len(queue.done) /\ Len(queue.done) \in Nat
  BY QueueParts
<1>3. CASE at = {}
  BY <1>2, <1>3 DEF Lane
<1>4. CASE at # {}
  <2>1. Min(at) \in at
    BY <1>1, <1>4, Positions, MinMember
  <2>2. Lane(queue, start) = Min(at)
    BY <1>4 DEF Lane
  <2> HIDE DEF at
  <2> QED
    BY <1>1, <1>2, <2>1, <2>2
<1> QED
  BY <1>3, <1>4

LEMMA ClampedType ==
  ASSUME NEW queue \in Queue
  PROVE  Clamped(queue) \in Queue
<1> DEFINE last == IF queue.done = <<>> THEN 1 ELSE Len(queue.done)
           showing == IF queue.showing <= last THEN queue.showing ELSE last
<1>1. showing \in Nat
  BY QueueParts
<1>2. Clamped(queue) = [queue EXCEPT !.showing = showing]
  BY DEF Clamped
<1> QED
  BY <1>1, <1>2 DEF Queue

\* Only the entries kept are left, each of them as it was.
LEMMA KeptType ==
  ASSUME NEW queue \in Queue, NEW at \in SUBSET DOMAIN queue.done
  PROVE  Kept(queue.done, at) \in Seq(Finished)
<1>1. Cardinality(at) \in Nat
  BY Positions, FS_CardinalityType
<1>2. \A k \in 1..Cardinality(at) : Nth(at, k) \in at
  BY Positions, NthMember
<1>3. \A k \in 1..Cardinality(at) : queue.done[Nth(at, k)] \in Finished
  BY <1>2, QueueParts
<1>4. Kept(queue.done, at) \in [1..Cardinality(at) -> Finished]
  BY <1>3 DEF Kept
<1> QED
  BY <1>1, <1>4, SeqOfFunction

\* Entries changed in place.
LEMMA EntriesType ==
  ASSUME NEW queue \in Queue, NEW done \in [DOMAIN queue.done -> Finished]
  PROVE  done \in Seq(Finished) /\ Len(done) = Len(queue.done)
BY QueueParts, SeqOfFunction

LEMMA ShownType ==
  ASSUME NEW queue \in Queue, NEW sets \in Nat \ {0}
  PROVE  /\ Shown(queue, sets) \in Nat
         /\ Shown(queue, sets) <= Len(queue.spare)
         /\ Shown(queue, sets) <= sets - 1
<1>1. sets - 1 \in Nat /\ Len(queue.spare) \in Nat
  BY QueueParts
<1> QED
  BY <1>1, MinOfTwo DEF Shown

LEMMA SparesLeftType ==
  ASSUME NEW queue \in Queue
  PROVE  SparesLeft(queue) \in Seq(Grids)
<1>1. queue.spare \in Seq(Grids) /\ Len(queue.spare) \in Nat
  BY QueueParts
<1>2. \A i \in 1..Len(queue.spare) - 1 : queue.spare[i] \in Grids
  BY <1>1, ElementOfSeq
<1>3. SubSeq(queue.spare, 1, Len(queue.spare) - 1) \in Seq(Grids)
  BY <1>1, <1>2, SubSeqProperties
<1> QED
  BY <1>1, <1>3 DEF SparesLeft, Front

\* Sets that land beside the strip's entries leave a strip, and a reserve
\* shorter by as many.
LEMMA LandSetsType ==
  ASSUME NEW queue \in Queue, NEW at \in 1..Len(queue.done) + 1,
         NEW start \in Sent, NEW sets \in Nat \ {0}
  PROVE  /\ LandSets(queue, at, start, sets) \in Queue
         /\ LandSets(queue, at, start, sets).spare =
              SubSeq(queue.spare, 1, Len(queue.spare) - Shown(queue, sets))
<1> DEFINE taken == Shown(queue, sets)
           left == Len(queue.spare) - taken
           further == [k \in 1..taken |->
             [start |-> start, set |-> k + 1, state |-> Ended("Complete"),
              grid |-> queue.spare[Len(queue.spare) + 1 - k]]]
           landed == SubSeq(queue.done, 1, at - 1) \o further
                       \o SubSeq(queue.done, at, Len(queue.done))
           showing == IF queue.showing >= at THEN queue.showing + taken
                                             ELSE queue.showing
<1>1. /\ taken \in Nat /\ taken <= Len(queue.spare)
      /\ Len(queue.spare) \in Nat /\ Len(queue.done) \in Nat
  BY QueueParts, ShownType
<1>2. SubSeq(queue.spare, 1, left) \in Seq(Grids)
  <2>1. \A i \in 1..left : queue.spare[i] \in Grids
    BY <1>1, QueueParts, ElementOfSeq
  <2> QED
    BY <1>1, <2>1, SubSeqProperties
<1>3. further \in Seq(Finished)
  <2>1. ASSUME NEW k \in 1..taken
        PROVE  queue.spare[Len(queue.spare) + 1 - k] \in Grids
    <3>1. Len(queue.spare) + 1 - k \in 1..Len(queue.spare)
      BY <1>1
    <3> QED
      BY <3>1, QueueParts, ElementOfSeq
  <2>2. Ended("Complete") \in State
    BY EndedType DEF Kinds
  <2>3. \A k \in 1..taken : further[k] \in Finished
    BY <1>1, <2>1, <2>2 DEF Finished
  <2>4. further \in [1..taken -> Finished]
    BY <2>3
  <2> QED
    BY <1>1, <2>4, SeqOfFunction
<1>4. landed \in Seq(Finished)
  <2>1. \A i \in 1..at - 1 : queue.done[i] \in Finished
    BY <1>1, QueueParts
  <2>2. \A i \in at..Len(queue.done) : queue.done[i] \in Finished
    BY <1>1, QueueParts
  <2>3. SubSeq(queue.done, 1, at - 1) \in Seq(Finished)
    BY <1>1, <2>1, SubSeqProperties
  <2>4. SubSeq(queue.done, at, Len(queue.done)) \in Seq(Finished)
    BY <1>1, <2>2, SubSeqProperties
  <2> QED
    BY <1>3, <2>3, <2>4, ConcatProperties
<1>5. showing \in Nat
  BY <1>1, QueueParts
<1>6. LandSets(queue, at, start, sets) =
        [queue EXCEPT !.done = landed, !.showing = showing,
                      !.spare = SubSeq(queue.spare, 1, left)]
  BY DEF LandSets, Besides
<1> QED
  BY <1>2, <1>4, <1>5, <1>6 DEF Queue

-----------------------------------------------------------------------------
(* The tab.                                                                *)

LEMMA EmptyType == Empty \in Rows
BY DEF Empty, Rows, Sent

LEMMA CollectedType ==
  ASSUME NEW tb \in Tab, NEW taken
  PROVE  Collected(tb, taken) \in Tab
<1> DEFINE rows == [g \in Grids |-> IF g \in taken THEN tb.rows[g] ELSE Empty]
<1>1. rows \in [Grids -> Rows]
  BY TabParts, EmptyType
<1>2. Collected(tb, taken) = [tb EXCEPT !.rows = rows]
  BY DEF Collected
<1> HIDE DEF rows
<1> QED
  BY <1>1, <1>2 DEF Tab

LEMMA WithSetsType ==
  ASSUME NEW tb \in Tab, NEW start \in Sent, NEW before \in Queue
  PROVE  WithSets(tb, start, before) \in Tab
<1> DEFINE n == Len(before.spare) - Len(tb.queue.spare)
           new(g) == {k \in 1..n : before.spare[Len(before.spare) + 1 - k] = g}
           rows == [g \in Grids |->
             IF new(g) = {} THEN tb.rows[g]
                            ELSE RowsOf(start, 1 + Min(new(g)), "whole")]
<1>1. n \in Int
  BY TabParts, QueueParts
<1>2. ASSUME NEW g \in Grids, new(g) # {}
      PROVE  1 + Min(new(g)) \in Nat
  <2>1. new(g) \in SUBSET (1..n)
    OBVIOUS
  <2>2. IsFiniteSet(1..n)
    <3> HIDE DEF n
    <3> QED
      BY <1>1, FS_Interval
  <2>3. Min(new(g)) \in Nat
    <3> HIDE DEF new, n
    <3> QED
      BY <1>1, <1>2, <2>1, <2>2, FS_Subset, MinMember
  <2> QED
    BY <2>3
<1>3. rows \in [Grids -> Rows]
  BY <1>2, TabParts DEF Rows, RowsOf
<1>4. WithSets(tb, start, before) = [tb EXCEPT !.rows = rows]
  BY DEF WithSets
<1> HIDE DEF rows
<1> QED
  BY <1>3, <1>4 DEF Tab

LEMMA WithSetsLoan ==
  ASSUME NEW tb \in Tab, NEW start, NEW before
  PROVE  WithSets(tb, start, before).lent = tb.lent
BY DEF WithSets, Tab

LEMMA ShowSlotType ==
  ASSUME NEW tb \in Tab
  PROVE  ShowSlot(tb) \in Tab
<1> DEFINE at == SlotEntry(tb)
           showing == IF at = {} THEN Len(tb.queue.done) + 1 ELSE Min(at)
<1>1. at \in SUBSET DOMAIN tb.queue.done /\ tb.queue \in Queue
  BY TabParts DEF SlotEntry
<1>2. showing \in Nat
  <2>1. IsFiniteSet(at) /\ at \in SUBSET Nat
    BY <1>1, Positions
  <2>2. at # {} => Min(at) \in Nat
    <3> HIDE DEF at
    <3> QED
      BY <2>1, MinMember
  <2>3. Len(tb.queue.done) + 1 \in Nat
    BY <1>1, QueueParts
  <2> HIDE DEF at
  <2> QED
    BY <2>2, <2>3
<1>3. ShowSlot(tb) = [tb EXCEPT !.queue = [tb.queue EXCEPT !.showing = showing]]
  BY DEF ShowSlot, Tab
<1>4. [tb.queue EXCEPT !.showing = showing] \in Queue
  BY <1>1, <1>2 DEF Queue
<1> HIDE DEF showing
<1> QED
  BY <1>3, <1>4 DEF Tab

LEMMA LendType ==
  ASSUME NEW tb \in Tab, NEW index
  PROVE  Lend(tb, index) \in Tab
<1>1. CASE index \in DOMAIN tb.queue.done
  <2>1. tb.queue.done[index] \in Finished
    BY <1>1, TabParts, QueueParts
  <2>2. [grid |-> tb.grid, state |-> tb.state] \in Loan
    BY TabParts DEF Loan
  <2> QED
    BY <2>1, <2>2 DEF Lend, Tab, Finished
<1>2. CASE index \notin DOMAIN tb.queue.done
  BY <1>2 DEF Lend
<1> QED
  BY <1>1, <1>2

LEMMA GiveBackType ==
  ASSUME NEW tb \in Tab
  PROVE  GiveBack(tb) \in Tab
<1> DEFINE left == IF Out(tb.state) THEN Ended("Failed") ELSE tb.state
           done == [i \in DOMAIN tb.queue.done |->
             IF SlotEntry(tb) # {} /\ i = Min(SlotEntry(tb))
             THEN [tb.queue.done[i] EXCEPT !.state = left] ELSE tb.queue.done[i]]
           queue == [tb.queue EXCEPT !.done = done]
<1>1. CASE tb.lent = NoLoan
  BY <1>1 DEF GiveBack
<1>2. CASE tb.lent # NoLoan
  <2>1. left \in State
    BY TabParts, EndedType DEF Kinds
  <2>2. \A i \in DOMAIN tb.queue.done : done[i] \in Finished
    <3> HIDE DEF left
    <3>1. tb.queue \in Queue
      BY TabParts
    <3>2. \A i \in DOMAIN tb.queue.done : tb.queue.done[i] \in Finished
      BY <3>1, QueueParts
    <3> QED
      BY <2>1, <3>2 DEF Finished
  <2>3. done \in Seq(Finished)
    BY <2>2, TabParts, EntriesType
  <2>4. queue \in Queue
    <3> HIDE DEF done
    <3> QED
      BY <2>3, TabParts DEF Queue
  <2>5. tb.lent.grid \in Grids /\ tb.lent.state \in State
    BY <1>2, TabParts DEF Loan
  <2>6. GiveBack(tb) = [tb EXCEPT !.lent = NoLoan, !.grid = tb.lent.grid,
                                  !.state = tb.lent.state, !.queue = queue]
    BY <1>2 DEF GiveBack, Tab
  <2> HIDE DEF queue
  <2> QED
    BY <2>4, <2>5, <2>6 DEF Tab
<1> QED
  BY <1>1, <1>2

-----------------------------------------------------------------------------
(* Where a run writes.                                                     *)

\* A run that has a place has it in the slot or in an entry of the strip.
LEMMA PlaceType ==
  ASSUME NEW tb \in Tab, NEW lane, NEW start, HasPlace(tb, lane, start)
  PROVE  /\ lane # NoRun => /\ Lane(tb.queue, start) \in DOMAIN tb.queue.done
                            /\ tb.queue.done[Lane(tb.queue, start)].start = start
         /\ StateAt(tb, lane, start) \in State
         /\ GridAt(tb, lane, start) \in Grids
<1>1. CASE lane = NoRun
  BY <1>1, TabParts DEF StateAt, GridAt
<1>2. CASE lane # NoRun
  <2>1. tb.queue \in Queue
    BY TabParts
  <2>2. Lane(tb.queue, start) # 0
    BY <1>2 DEF HasPlace
  <2>3. /\ Lane(tb.queue, start) \in DOMAIN tb.queue.done
        /\ tb.queue.done[Lane(tb.queue, start)].start = start
    BY <2>1, <2>2, LaneType
  <2>4. tb.queue.done[Lane(tb.queue, start)] \in Finished
    BY <2>1, <2>3, QueueParts
  <2> QED
    BY <1>2, <2>3, <2>4 DEF StateAt, GridAt, Finished
<1> QED
  BY <1>1, <1>2

LEMMA EntryStateType ==
  ASSUME NEW tb \in Tab, NEW i \in DOMAIN tb.queue.done, NEW state \in State
  PROVE  /\ [tb EXCEPT !.queue.done[i].state = state] \in Tab
         /\ [tb EXCEPT !.queue.done[i].state = state].queue.done =
              [tb.queue.done EXCEPT ![i] = [@ EXCEPT !.state = state]]
<1> DEFINE done == [tb.queue.done EXCEPT ![i] = [@ EXCEPT !.state = state]]
           queue == [tb.queue EXCEPT !.done = done]
<1>1. tb.queue \in Queue
  BY TabParts
<1>2. \A j \in DOMAIN tb.queue.done : tb.queue.done[j] \in Finished
  BY <1>1, QueueParts
<1>3. \A j \in DOMAIN tb.queue.done : done[j] \in Finished
  BY <1>2 DEF Finished
<1>4. done \in Seq(Finished)
  BY <1>1, <1>3, EntriesType
<1>5. queue \in Queue
  <2> HIDE DEF done
  <2> QED
    BY <1>1, <1>4 DEF Queue
<1>6. [tb EXCEPT !.queue.done[i].state = state] = [tb EXCEPT !.queue = queue]
  BY DEF Tab, Queue
<1> QED
  BY <1>1, <1>4, <1>5, <1>6 DEF Tab, Queue

LEMMA WithStateAtType ==
  ASSUME NEW tb \in Tab, NEW lane, NEW start, HasPlace(tb, lane, start),
         NEW state \in State
  PROVE  WithStateAt(tb, lane, start, state) \in Tab
<1>1. CASE lane = NoRun
  BY <1>1 DEF WithStateAt, Tab
<1>2. CASE lane # NoRun
  BY <1>2, PlaceType, EntryStateType DEF WithStateAt
<1> QED
  BY <1>1, <1>2

\* The entry the slot takes is one of the strip's.
LEMMA HandBackType ==
  ASSUME NEW tb \in Tab
  PROVE  HandBack(tb) \in Tab
<1> DEFINE done == tb.queue.done
           starts == {done[i].start : i \in DOMAIN done}
           at == EntriesOf(done, Max(starts))
           last == done[Min(at)]
           taken == IF done = <<>>
                    THEN [tb EXCEPT !.state = Ended("Idle")]
                    ELSE [tb EXCEPT
                            !.state = last.state,
                            !.grid = last.grid,
                            !.ran = last.start,
                            !.last = IF last.state.kind \in {"Complete", "Stopped"}
                                     THEN last.start ELSE @]
<1>1. /\ tb.queue \in Queue /\ DOMAIN done = 1..Len(done) /\ Len(done) \in Nat
      /\ \A i \in DOMAIN done : done[i] \in Finished
  BY TabParts, QueueParts
<1>2. ASSUME done # <<>>
      PROVE  last \in Finished
  <2>1. starts \in SUBSET Nat /\ starts # {} /\ IsFiniteSet(starts)
    <3>1. \A i \in DOMAIN done : done[i].start \in Nat
      <4>1. Sent \subseteq Nat
        BY StatementsAssumption DEF Sent, Batch
      <4>2. \A i \in DOMAIN done : done[i].start \in Sent
        BY <1>1 DEF Finished
      <4> QED
        BY <4>1, <4>2
    <3>2. 1 \in DOMAIN done
      BY <1>1, <1>2, EmptySeq, TabParts, QueueParts
    <3>3. IsFiniteSet(DOMAIN done)
      BY <1>1, Positions
    <3>4. [i \in DOMAIN done |-> done[i].start] \in Surjection(DOMAIN done, starts)
      BY DEF Surjection
    <3>5. IsFiniteSet(starts)
      BY <3>3, <3>4, FS_Surjection
    <3> QED
      BY <3>1, <3>2, <3>5
  <2>2. PICK i \in DOMAIN done : done[i].start = Max(starts)
    <3> HIDE DEF starts
    <3>1. Max(starts) \in starts
      BY <2>1, MaxMember
    <3> QED
      BY <3>1 DEF starts
  <2>3. at \in SUBSET DOMAIN done /\ at # {}
    BY <2>2 DEF EntriesOf
  <2>4. Min(at) \in at
    <3> HIDE DEF at
    <3> QED
      BY <1>1, <2>3, Positions, MinMember
  <2> QED
    BY <1>1, <2>3, <2>4
<1>3. taken \in Tab
  <2>1. CASE done = <<>>
    <3>1. Ended("Idle") \in State
      BY EndedType DEF Kinds
    <3> QED
      BY <2>1, <3>1 DEF Tab
  <2>2. CASE done # <<>>
    <3>1. last \in Finished
      BY <1>2, <2>2
    <3> HIDE DEF last, done
    <3> QED
      BY <2>2, <3>1 DEF Finished, Tab
  <2> QED
    BY <2>1, <2>2
<1>4. HandBack(tb) = IF Len(done) < 2 THEN [taken EXCEPT !.queue = NoQueue] ELSE taken
  BY DEF HandBack
<1> HIDE DEF taken
<1> QED
  BY <1>3, <1>4, NoQueueType DEF Tab

-----------------------------------------------------------------------------
(* Grids.                                                                  *)

\* A set with enough members has an n of them, each a different one.
LEMMA InjectionFits ==
  ASSUME NEW free, IsFiniteSet(free), NEW n \in Nat, n <= Cardinality(free)
  PROVE  \E f : f \in Injection(1..n, free)
<1> DEFINE c == Cardinality(free)
<1>1. c \in Nat
  BY FS_CardinalityType
<1>2. PICK f \in Bijection(1..c, free) : TRUE
  BY FS_CardinalityType DEF ExistsBijection
<1> DEFINE g == [i \in 1..n |-> f[i]]
<1>3. f \in [1..c -> free] /\ \A i, j \in 1..c : f[i] = f[j] => i = j
  BY <1>2 DEF Bijection, Injection, IsInjective
<1>4. \A i \in 1..n : i \in 1..c
  BY <1>1
<1> HIDE DEF c
<1>5. g \in [1..n -> free] /\ \A i, j \in 1..n : g[i] = g[j] => i = j
  BY <1>3, <1>4
<1>6. DOMAIN g = 1..n
  OBVIOUS
<1> HIDE DEF g
<1> QED
  BY <1>5, <1>6 DEF Injection, IsInjective

\* Where there are enough grids nobody holds, so many of them are taken.
LEMMA FreshGridsType ==
  ASSUME NEW taken, NEW n \in Nat, NEW m \in Nat, n <= m, HasFreshGrids(taken, m)
  PROVE  /\ FreshGrids(taken, n) \in Injection(1..n, Grids \ taken)
         /\ FreshGrids(taken, n) \in Seq(Grids)
         /\ Len(FreshGrids(taken, n)) = n
<1> DEFINE free == Grids \ taken
<1>1. IsFiniteSet(free) /\ Cardinality(free) \in Nat /\ n <= Cardinality(free)
  BY GridsAssumption, FS_Subset, FS_CardinalityType DEF HasFreshGrids
<1>2. \E f : f \in Injection(1..n, free)
  <2> HIDE DEF free
  <2> QED
    BY <1>1, InjectionFits
<1>3. FreshGrids(taken, n) \in Injection(1..n, free)
  BY <1>2 DEF FreshGrids
<1>4. FreshGrids(taken, n) \in [1..n -> Grids]
  BY <1>3 DEF Injection
<1> QED
  BY <1>3, <1>4, SeqOfFunction

LEMMA ApplyRefreshType ==
  ASSUME NEW tb \in Tab
  PROVE  /\ ApplyRefresh(tb).refresh \in {"None", "Statement", "Earlier"}
         /\ ApplyRefresh(tb).index \in Nat
         /\ ApplyRefresh(tb).then \in Sent
<1>1. OnEntry(tb) => /\ tb.queue.done[tb.queue.showing].start \in Sent
                     /\ tb.queue.showing \in Nat
  BY TabParts, QueueParts DEF OnEntry, Finished
<1>2. tb.last \in Sent /\ Batch \in Sent
  BY TabParts DEF Sent
<1> QED
  BY <1>1, <1>2 DEF ApplyRefresh

-----------------------------------------------------------------------------

Session ==
  [conn : [Profiles -> ConnStates], tab : [Profiles -> [Tabs -> Tab]],
   prompt : [Profiles -> SUBSET Parked], failure : [Profiles -> SUBSET Tabs],
   tasks : SUBSET Task]

-----------------------------------------------------------------------------
(* Sessions.                                                               *)

LEMMA SessionParts ==
  ASSUME NEW s \in Session, NEW p \in Profiles
  PROVE  /\ s.conn \in [Profiles -> ConnStates]
         /\ s.tab \in [Profiles -> [Tabs -> Tab]]
         /\ s.tab[p] \in [Tabs -> Tab]
         /\ \A t \in Tabs : s.tab[p][t] \in Tab
         /\ s.prompt \in [Profiles -> SUBSET Parked]
         /\ s.failure \in [Profiles -> SUBSET Tabs]
         /\ s.tasks \in SUBSET Task
BY DEF Session

LEMMA NowType ==
  TypeOK => Now \in Session
BY DEF TypeOK, Now, Session

\* A session with one tab replaced, which is what most handlers return.
LEMMA TabReplaced ==
  ASSUME NEW s \in Session, NEW p \in Profiles, NEW t \in Tabs, NEW tb \in Tab
  PROVE  /\ [s EXCEPT !.tab[p][t] = tb] \in Session
         /\ [s EXCEPT !.tab[p][t] = tb].tab[p][t] = tb
BY DEF Session

LEMMA QueueReplaced ==
  ASSUME NEW s \in Session, NEW p \in Profiles, NEW t \in Tabs, NEW queue \in Queue
  PROVE  [s EXCEPT !.tab[p][t].queue = queue] \in Session
<1> DEFINE tb == [s.tab[p][t] EXCEPT !.queue = queue]
<1>0. s.tab[p][t] \in Tab
  BY SessionParts
<1>1. tb \in Tab
  BY <1>0 DEF Tab
<1>2. [s EXCEPT !.tab[p][t].queue = queue] = [s EXCEPT !.tab[p][t] = tb]
  BY DEF Session
<1> HIDE DEF tb
<1> QED
  BY <1>1, <1>2, TabReplaced

LEMMA TasksAdded ==
  ASSUME NEW s \in Session, NEW p \in Profiles, NEW t \in Tabs, NEW tb \in Tab,
         NEW more \in SUBSET Task
  PROVE  [s EXCEPT !.tab[p][t] = tb, !.tasks = @ \cup more] \in Session
BY DEF Session

LEMMA BecomesType ==
  ASSUME TypeOK, NEW s \in Session, Becomes(s),
         front' \in Profiles \cup {NoProfile}, active' \in [Profiles -> Tabs]
  PROVE  TypeOK'
<1>1. \A p \in Profiles, t \in Tabs :
        Collected(s.tab[p][t], Taken(s, p, t)) \in Tab
  BY CollectedType DEF Session
<1> QED
  BY <1>1 DEF Becomes, TypeOK, Session

\* The tokens of a run are tokens, whether or not there are enough of them.
LEMMA FreshRunsType ==
  ASSUME NEW s, NEW n \in Nat
  PROVE  FreshRuns(s, n) \in [1..n -> Runs]
<1> DEFINE free == FreeRuns(s)
           Enough(f) == Cardinality(free) >= n => f \in Injection(1..n, free)
<1>1. free \in SUBSET Runs /\ IsFiniteSet(free) /\ Cardinality(free) \in Nat
  BY RunsAssumption, FS_Subset, FS_CardinalityType DEF FreeRuns
<1>2. \E f \in [1..n -> Runs] : Enough(f)
  <2>1. CASE Cardinality(free) >= n
    <3>1. \E f : f \in Injection(1..n, free)
      BY <1>1, <2>1, InjectionFits
    <3>2. Injection(1..n, free) \in SUBSET [1..n -> Runs]
      BY <1>1 DEF Injection
    <3> QED
      BY <3>1, <3>2
  <2>2. CASE ~(Cardinality(free) >= n)
    <3>1. PICK r \in Runs : TRUE
      BY RunsAssumption
    <3>2. [i \in 1..n |-> r] \in [1..n -> Runs]
      OBVIOUS
    <3> QED
      BY <2>2, <3>2
  <2> QED
    BY <2>1, <2>2
<1>3. FreshRuns(s, n) = CHOOSE f \in [1..n -> Runs] : Enough(f)
  BY DEF FreshRuns
<1> HIDE DEF Enough
<1> QED
  BY <1>2, <1>3

LEMMA FreshRunType ==
  ASSUME NEW s
  PROVE  FreshRun(s) \in Runs
BY FreshRunsType DEF FreshRun

-----------------------------------------------------------------------------
(* Sending.                                                                *)

LEMMA AskType ==
  ASSUME NEW start \in Sent, NEW from \in Sent
  PROVE  Ask(start, from) \in Job
BY DEF Ask, Job, Refreshes, Sent

LEMMA SendType ==
  ASSUME NEW s \in Session, NEW p \in Profiles, NEW t \in Tabs, NEW job \in Job
  PROVE  Send(s, p, t, job) \in Session
<1> DEFINE run == FreshRun(s)
           tb == IF job.refresh = "Earlier" THEN Lend(s.tab[p][t], job.index)
                                            ELSE s.tab[p][t]
           rows == IF job.explain THEN tb.rows ELSE [tb.rows EXCEPT ![tb.grid] = Empty]
           sent == [tb EXCEPT !.state = Running(run), !.ran = job.from, !.rows = rows]
           task == [id |-> run, profile |-> p, tab |-> t, live |-> TRUE,
                    lane |-> NoRun, job |-> job, grid |-> tb.grid]
           more == {task}
<1>1. run \in Runs /\ Running(run) \in State
  BY FreshRunType, RunningType
<1>2. tb \in Tab
  BY LendType DEF Session
<1>3. rows \in [Grids -> Rows]
  <2> HIDE DEF tb
  <2> QED
    BY <1>2, EmptyType, TabParts
<1>4. sent \in Tab
  <2> HIDE DEF tb, rows, run
  <2> QED
    BY <1>1, <1>2, <1>3 DEF Tab, Job
<1>5. task \in Task
  <2> HIDE DEF tb, run
  <2> QED
    BY <1>1, <1>2, TabParts DEF Task
<1>6. Send(s, p, t, job) = [s EXCEPT !.tab[p][t] = sent, !.tasks = @ \cup more]
  BY DEF Send
<1>7. more \in SUBSET Task
  BY <1>5
<1>8. [s EXCEPT !.tab[p][t] = sent, !.tasks = @ \cup more] \in Session
  <2> HIDE DEF sent, more
  <2> QED
    BY <1>4, <1>7, TasksAdded
<1> HIDE DEF sent, more
<1> QED
  BY <1>6, <1>8

LEMMA ExecuteUncheckedType ==
  ASSUME NEW s \in Session, NEW p \in Profiles, NEW t \in Tabs, NEW job \in Job
  PROVE  ExecuteUnchecked(s, p, t, job) \in Session
<1> DEFINE failed == [s.tab[p][t] EXCEPT !.state = Ended("Failed")]
<1>1. [s EXCEPT !.tab[p][t].state = Ended("Failed")] \in Session
  <2>1. Ended("Failed") \in State
    BY EndedType DEF Kinds
  <2>2. failed \in Tab
    <3>1. s.tab[p][t] \in Tab
      BY SessionParts
    <3> QED
      BY <2>1, <3>1 DEF Tab
  <2>3. [s EXCEPT !.tab[p][t].state = Ended("Failed")] = [s EXCEPT !.tab[p][t] = failed]
    BY DEF Session
  <2> QED
    BY <2>2, <2>3, TabReplaced
<1> QED
  BY <1>1, SendType DEF ExecuteUnchecked

LEMMA ExecuteAndThenType ==
  ASSUME NEW s \in Session, NEW p \in Profiles, NEW t \in Tabs, NEW job \in Job
  PROVE  ExecuteAndThen(s, p, t, job) \in Session
<1>1. [s EXCEPT !.prompt[p] = {[tab |-> t, job |-> job]}] \in Session
  <2>1. {[tab |-> t, job |-> job]} \in SUBSET Parked
    BY DEF Parked
  <2> QED
    BY <2>1 DEF Session
<1> QED
  BY <1>1, ExecuteUncheckedType DEF ExecuteAndThen

-----------------------------------------------------------------------------
(* A queue run at once.                                                    *)

\* The lanes started are given a token each, which are tokens.
LEMMA StartLanesType ==
  ASSUME NEW s \in Session, NEW p \in Profiles, NEW t \in Tabs,
         NEW at \in SUBSET DOMAIN s.tab[p][t].queue.done
  PROVE  StartLanes(s, p, t, at) \in Session
<1> DEFINE tb == s.tab[p][t]
           run == FreshRuns(s, Cardinality(at))
           upTo(i) == {j \in at : j <= i}
           runOf(i) == run[Cardinality(upTo(i))]
           grids == {tb.queue.done[i].grid : i \in at}
           lane(i) == [id |-> runOf(i), profile |-> p, tab |-> t, live |-> TRUE,
                       lane |-> tb.state.run,
                       job |-> Ask(tb.queue.done[i].start, Batch),
                       grid |-> tb.queue.done[i].grid]
           done == [i \in DOMAIN tb.queue.done |->
                      IF i \in at
                      THEN [tb.queue.done[i] EXCEPT !.state = Running(runOf(i))]
                      ELSE tb.queue.done[i]]
           rows == [g \in Grids |-> IF g \in grids THEN Empty ELSE tb.rows[g]]
           queue == [tb.queue EXCEPT !.done = done]
           started == [tb EXCEPT !.queue.done = done, !.rows = rows]
           more == {lane(i) : i \in at}
<1>1. /\ tb \in Tab /\ tb.queue \in Queue
      /\ \A i \in DOMAIN tb.queue.done : tb.queue.done[i] \in Finished
  BY SessionParts, TabParts, QueueParts
<1>2. ASSUME NEW i \in at
      PROVE  runOf(i) \in Runs
  <2>1. at \in SUBSET Nat /\ IsFiniteSet(at)
    BY <1>1, Positions
  <2>2. upTo(i) \in SUBSET at /\ i \in upTo(i)
    BY <2>1
  <2>3. IsFiniteSet(upTo(i)) /\ Cardinality(upTo(i)) <= Cardinality(at)
    BY <2>1, <2>2, FS_Subset
  <2>4. /\ Cardinality(upTo(i)) \in Nat /\ Cardinality(upTo(i)) # 0
        /\ Cardinality(at) \in Nat
    <3> HIDE DEF upTo
    <3> QED
      BY <2>1, <2>2, <2>3, FS_CardinalityType, FS_EmptySet
  <2>5. run \in [1..Cardinality(at) -> Runs]
    BY <2>4, FreshRunsType
  <2>6. Cardinality(upTo(i)) \in 1..Cardinality(at)
    BY <2>3, <2>4
  <2> HIDE DEF upTo, run
  <2> QED
    BY <2>5, <2>6
<1>3. done \in Seq(Finished)
  <2>1. ASSUME NEW i \in at
        PROVE  [tb.queue.done[i] EXCEPT !.state = Running(runOf(i))] \in Finished
    <3>1. Running(runOf(i)) \in State
      BY <1>2, RunningType
    <3>2. tb.queue.done[i] \in Finished
      BY <1>1
    <3> HIDE DEF runOf, tb
    <3> QED
      BY <3>1, <3>2 DEF Finished
  <2>2. \A i \in DOMAIN tb.queue.done : done[i] \in Finished
    BY <1>1, <2>1
  <2> QED
    BY <1>1, <2>2, EntriesType
<1>4. queue \in Queue
  <2> HIDE DEF done
  <2> QED
    BY <1>1, <1>3 DEF Queue
<1>5. rows \in [Grids -> Rows]
  BY <1>1, EmptyType, TabParts
<1>6. started \in Tab
  <2>1. started = [tb EXCEPT !.queue = queue, !.rows = rows]
    <3> HIDE DEF done, rows, tb
    <3> QED
      BY <1>1 DEF Tab
  <2> HIDE DEF queue, rows
  <2> QED
    BY <1>1, <1>4, <1>5, <2>1 DEF Tab
<1>7. more \in SUBSET Task
  <2>1. ASSUME NEW i \in at
        PROVE  lane(i) \in Task
    <3>1. tb.queue.done[i].start \in Sent /\ tb.queue.done[i].grid \in Grids
      BY <1>1 DEF Finished
    <3>2. Ask(tb.queue.done[i].start, Batch) \in Job
      BY <3>1, AskType DEF Sent
    <3>3. tb.state.run \in Runs \cup {NoRun}
      BY <1>1, TabParts DEF State
    <3> HIDE DEF runOf, tb
    <3> QED
      BY <1>2, <3>1, <3>2, <3>3 DEF Task
  <2> HIDE DEF lane
  <2> QED
    BY <2>1
<1>8. StartLanes(s, p, t, at) = [s EXCEPT !.tab[p][t] = started, !.tasks = @ \cup more]
  BY DEF StartLanes
<1>9. [s EXCEPT !.tab[p][t] = started, !.tasks = @ \cup more] \in Session
  <2> HIDE DEF started, more
  <2> QED
    BY <1>6, <1>7, TasksAdded
<1> HIDE DEF started, more
<1> QED
  BY <1>8, <1>9

\* The tab once every statement still waiting has failed.
LanesFailed(tb) ==
  [tb EXCEPT !.queue.done = [i \in DOMAIN @ |->
     IF @[i].state.kind = "Idle"
     THEN [@[i] EXCEPT !.state = Ended("Failed")] ELSE @[i]]]

LEMMA LanesFailedType ==
  ASSUME NEW tb \in Tab
  PROVE  /\ LanesFailed(tb) \in Tab
         /\ LanesFailed(tb).lent = tb.lent
<1> DEFINE done == [i \in DOMAIN tb.queue.done |->
                      IF tb.queue.done[i].state.kind = "Idle"
                      THEN [tb.queue.done[i] EXCEPT !.state = Ended("Failed")]
                      ELSE tb.queue.done[i]]
           queue == [tb.queue EXCEPT !.done = done]
           failed == [tb EXCEPT !.queue = queue]
<1>1. /\ tb.queue \in Queue
      /\ \A i \in DOMAIN tb.queue.done : tb.queue.done[i] \in Finished
  BY TabParts, QueueParts
<1>2. done \in Seq(Finished)
  <2>1. Ended("Failed") \in State
    BY EndedType DEF Kinds
  <2>2. \A i \in DOMAIN tb.queue.done :
          [tb.queue.done[i] EXCEPT !.state = Ended("Failed")] \in Finished
    BY <1>1, <2>1 DEF Finished
  <2>3. \A i \in DOMAIN tb.queue.done : done[i] \in Finished
    BY <1>1, <2>2
  <2> QED
    BY <1>1, <2>3, EntriesType
<1>3. queue \in Queue
  <2> HIDE DEF done
  <2> QED
    BY <1>1, <1>2 DEF Queue
<1>4. failed \in Tab /\ failed.lent = tb.lent
  <2> HIDE DEF queue
  <2> QED
    BY <1>3 DEF Tab
<1>5. LanesFailed(tb) = failed
  BY DEF LanesFailed, Tab
<1> HIDE DEF failed
<1> QED
  BY <1>4, <1>5

LEMMA FailLanesType ==
  ASSUME NEW s \in Session, NEW p \in Profiles, NEW t \in Tabs
  PROVE  FailLanes(s, p, t) \in Session
<1> DEFINE failed == LanesFailed(s.tab[p][t])
           left == IF AtOnce(failed.queue) THEN failed ELSE HandBack(failed)
<1>1. failed \in Tab
  BY SessionParts, LanesFailedType
<1>2. left \in Tab
  <2> HIDE DEF failed
  <2> QED
    BY <1>1, HandBackType
<1>3. FailLanes(s, p, t) = [s EXCEPT !.tab[p][t] = left]
  BY DEF FailLanes, LanesFailed
<1> HIDE DEF left
<1> QED
  BY <1>2, <1>3, TabReplaced

LEMMA StartWaitingType ==
  ASSUME NEW s \in Session, NEW p \in Profiles, NEW t \in Tabs, NEW n \in Nat
  PROVE  StartWaiting(s, p, t, n) \in Session
<1> DEFINE waiting == WaitingIn(s.tab[p][t].queue.done)
           at == {i \in waiting : Cardinality({j \in waiting : j <= i}) <= n}
<1>1. at \in SUBSET DOMAIN s.tab[p][t].queue.done
  BY DEF WaitingIn
<1>2. StartLanes(s, p, t, at) \in Session
  <2> HIDE DEF at
  <2> QED
    BY <1>1, StartLanesType
<1> QED
  BY <1>2, FailLanesType DEF StartWaiting

\* The tab a lane lands on, before the next statement goes out.
LaneLanded(tb, start, sets) ==
  LET queue == LandSets(tb.queue, Lane(tb.queue, start) + 1, start, sets)
  IN  WithSets([tb EXCEPT !.queue = queue], start, tb.queue)

LEMMA LaneLandedType ==
  ASSUME NEW tb \in Tab, NEW start \in Sent, NEW sets \in Nat \ {0}
  PROVE  /\ LaneLanded(tb, start, sets) \in Tab
         /\ LaneLanded(tb, start, sets).lent = tb.lent
<1> DEFINE at == Lane(tb.queue, start) + 1
           queue == LandSets(tb.queue, at, start, sets)
           landed == [tb EXCEPT !.queue = queue]
<1>1. tb.queue \in Queue
  BY TabParts
<1>2. at \in 1..Len(tb.queue.done) + 1
  <2> DEFINE lane == Lane(tb.queue, start)
             len == Len(tb.queue.done)
  <2>1. lane \in Nat /\ len \in Nat /\ lane <= len
    BY <1>1, LaneType, QueueParts
  <2> HIDE DEF lane, len
  <2>2. lane + 1 \in 1..len + 1
    BY <2>1
  <2> QED
    BY <2>2 DEF lane, len
<1>3. queue \in Queue
  <2> HIDE DEF at
  <2> QED
    BY <1>1, <1>2, LandSetsType
<1>4. landed \in Tab /\ landed.lent = tb.lent
  <2> HIDE DEF queue
  <2> QED
    BY <1>3 DEF Tab
<1>5. LaneLanded(tb, start, sets) = WithSets(landed, start, tb.queue)
  BY DEF LaneLanded
<1> HIDE DEF landed
<1> QED
  BY <1>1, <1>4, <1>5, WithSetsType, WithSetsLoan

LEMMA LandLaneType ==
  ASSUME NEW s \in Session, NEW p \in Profiles, NEW t \in Tabs,
         NEW start \in Sent, NEW sets \in Nat \ {0}
  PROVE  LandLane(s, p, t, start, sets) \in Session
<1> DEFINE landed == LaneLanded(s.tab[p][t], start, sets)
<1>1. landed \in Tab
  BY SessionParts, LaneLandedType
<1>2. [s EXCEPT !.tab[p][t] = landed] \in Session
  <2> HIDE DEF landed
  <2> QED
    BY <1>1, TabReplaced
<1>3. StartWaiting([s EXCEPT !.tab[p][t] = landed], p, t, 1) \in Session
  <2> HIDE DEF landed
  <2> QED
    BY <1>2, StartWaitingType
<1>4. [s EXCEPT !.tab[p][t] = HandBack(landed)] \in Session
  <2> HIDE DEF landed
  <2> QED
    BY <1>1, HandBackType, TabReplaced
<1>5. \/ LandLane(s, p, t, start, sets) =
           StartWaiting([s EXCEPT !.tab[p][t] = landed], p, t, 1)
      \/ LandLane(s, p, t, start, sets) = [s EXCEPT !.tab[p][t] = HandBack(landed)]
  BY DEF LandLane, LaneLanded
<1> HIDE DEF landed
<1> QED
  BY <1>3, <1>4, <1>5

-----------------------------------------------------------------------------
(* A queue run in turn.                                                    *)

\* The tab once the next statement is off its queue.
Popped(tb) ==
  LET queue == tb.queue
  IN  [tb EXCEPT
        !.grid = IF queue.spare # <<>> THEN Last(queue.spare) ELSE @,
        !.queue = [queue EXCEPT
          !.remaining = Tail(@),
          !.awaiting = TRUE,
          !.showing = IF @ >= Len(queue.done) THEN Len(queue.done) + 1 ELSE @,
          !.spare = SparesLeft(queue)]]

LEMMA PoppedType ==
  ASSUME NEW tb \in Tab, tb.queue.remaining # <<>>
  PROVE  /\ tb.queue.remaining[1] \in Sent
         /\ Popped(tb) \in Tab
         /\ Popped(tb).lent = tb.lent
<1> DEFINE queue == tb.queue
           next == queue.remaining[1]
           grid == IF queue.spare # <<>> THEN Last(queue.spare) ELSE tb.grid
           showing == IF queue.showing >= Len(queue.done) THEN Len(queue.done) + 1
                                                          ELSE queue.showing
           moved == [queue EXCEPT !.remaining = Tail(@), !.awaiting = TRUE,
                                  !.showing = showing, !.spare = SparesLeft(queue)]
           popped == [tb EXCEPT !.grid = grid, !.queue = moved]
<1>1. queue \in Queue
  BY TabParts
<1>2. queue.remaining \in Seq(Statements) /\ Len(queue.remaining) \in Nat \ {0}
  BY <1>1, QueueParts, EmptySeq
<1>3. next \in Sent
  BY <1>2, ElementOfSeq DEF Sent
<1>4. Tail(queue.remaining) \in Seq(Statements)
  BY <1>2, HeadTailProperties
<1>5. showing \in Nat
  <2>1. queue.showing \in Nat /\ Len(queue.done) \in Nat
    BY <1>1, QueueParts
  <2> HIDE DEF queue
  <2> QED
    BY <2>1
<1>6. grid \in Grids
  <2>1. CASE queue.spare # <<>>
    <3>1. queue.spare \in Seq(Grids) /\ Len(queue.spare) \in Nat \ {0}
      BY <1>1, <2>1, QueueParts, EmptySeq
    <3>2. queue.spare[Len(queue.spare)] \in Grids
      <4>1. Len(queue.spare) \in 1..Len(queue.spare)
        BY <3>1
      <4> HIDE DEF queue
      <4> QED
        BY <3>1, <4>1, ElementOfSeq
    <3> QED
      BY <2>1, <3>2 DEF Last
  <2>2. CASE queue.spare = <<>>
    BY <2>2, TabParts
  <2> QED
    BY <2>1, <2>2
<1>7. moved \in Queue
  <2> HIDE DEF showing, queue
  <2> QED
    BY <1>1, <1>4, <1>5, SparesLeftType DEF Queue
<1>8. popped \in Tab /\ popped.lent = tb.lent
  <2> HIDE DEF moved, grid
  <2> QED
    BY <1>6, <1>7 DEF Tab
<1>9. Popped(tb) = popped
  BY DEF Popped
<1> HIDE DEF popped
<1> QED
  BY <1>3, <1>8, <1>9

LEMMA SendNextStatementType ==
  ASSUME NEW s \in Session, NEW p \in Profiles, NEW t \in Tabs
  PROVE  SendNextStatement(s, p, t) \in Session
<1> DEFINE tb == s.tab[p][t]
           next == tb.queue.remaining[1]
<1>1. CASE tb.queue.remaining = <<>>
  BY <1>1 DEF SendNextStatement
<1>2. CASE tb.queue.remaining # <<>>
  <2>1. next \in Sent /\ Popped(tb) \in Tab
    BY <1>2, SessionParts, PoppedType
  <2>2. [s EXCEPT !.tab[p][t] = Popped(tb)] \in Session
    <3> HIDE DEF tb
    <3> QED
      BY <2>1, TabReplaced
  <2>3. SendNextStatement(s, p, t) =
          ExecuteAndThen([s EXCEPT !.tab[p][t] = Popped(tb)], p, t, Ask(next, next))
    BY <1>2 DEF SendNextStatement, Popped
  <2> HIDE DEF tb, next
  <2> QED
    BY <2>1, <2>2, <2>3, AskType, ExecuteAndThenType
<1> QED
  BY <1>1, <1>2

\* The tab a statement of the queue lands on, before the next one goes out.
Advanced(tb, sets) ==
  LET following == tb.queue.showing > Len(tb.queue.done)
      pushed == [tb.queue EXCEPT
        !.awaiting = FALSE,
        !.done = Append(@, [start |-> tb.ran, set |-> 1,
                            state |-> tb.state, grid |-> tb.grid])]
      queue == LandSets(pushed, Len(pushed.done) + 1, tb.ran, sets)
      moved == [queue EXCEPT !.showing = IF following THEN Len(queue.done) ELSE @]
  IN  WithSets([tb EXCEPT !.queue = moved], tb.ran, tb.queue)

LEMMA AdvancedType ==
  ASSUME NEW tb \in Tab, NEW sets \in Nat \ {0}
  PROVE  /\ Advanced(tb, sets) \in Tab
         /\ Advanced(tb, sets).lent = tb.lent
<1> DEFINE entry == [start |-> tb.ran, set |-> 1, state |-> tb.state, grid |-> tb.grid]
           following == tb.queue.showing > Len(tb.queue.done)
           done == Append(tb.queue.done, entry)
           pushed == [tb.queue EXCEPT !.awaiting = FALSE, !.done = done]
           at == Len(pushed.done) + 1
           queue == LandSets(pushed, at, tb.ran, sets)
           showing == IF following THEN Len(queue.done) ELSE queue.showing
           moved == [queue EXCEPT !.showing = showing]
           landed == [tb EXCEPT !.queue = moved]
<1>1. tb.queue \in Queue /\ tb.ran \in Sent
  BY TabParts
<1>2. entry \in Finished
  BY TabParts DEF Finished
<1>3. done \in Seq(Finished)
  <2> HIDE DEF entry
  <2> QED
    BY <1>1, <1>2, QueueParts, AppendProperties
<1>4. pushed \in Queue
  <2> HIDE DEF done
  <2> QED
    BY <1>1, <1>3 DEF Queue
<1>5. at \in 1..Len(pushed.done) + 1
  <2>1. Len(pushed.done) \in Nat
    <3> HIDE DEF pushed
    <3> QED
      BY <1>4, QueueParts
  <2> HIDE DEF pushed
  <2> QED
    BY <2>1
<1>6. queue \in Queue
  <2> HIDE DEF pushed, at
  <2> QED
    BY <1>1, <1>4, <1>5, LandSetsType
<1>7. moved \in Queue
  <2>1. showing \in Nat
    <3> HIDE DEF queue, following
    <3> QED
      BY <1>6, QueueParts
  <2> HIDE DEF queue, showing
  <2> QED
    BY <1>6, <2>1 DEF Queue
<1>8. landed \in Tab /\ landed.lent = tb.lent
  <2> HIDE DEF moved
  <2> QED
    BY <1>7 DEF Tab
<1>9. Advanced(tb, sets) = WithSets(landed, tb.ran, tb.queue)
  BY DEF Advanced
<1> HIDE DEF landed
<1> QED
  BY <1>1, <1>8, <1>9, WithSetsType, WithSetsLoan

QueueLanded(s, p, t, sets) ==
  [s EXCEPT !.tab[p][t] = Advanced(s.tab[p][t], sets)]

\* What landing a statement of the queue leads to.
LEMMA AdvanceQueueForms ==
  ASSUME NEW s, NEW p, NEW t, NEW sets
  PROVE  LET next == QueueLanded(s, p, t, sets)
         IN  AdvanceQueue(s, p, t, sets) \in
               {s, next, SendNextStatement(next, p, t),
                [next EXCEPT !.failure[p] = {t}],
                [next EXCEPT !.tab[p][t].queue = NoQueue]}
<1> DEFINE tb == s.tab[p][t]
           following == tb.queue.showing > Len(tb.queue.done)
           entry == [start |-> tb.ran, set |-> 1, state |-> tb.state, grid |-> tb.grid]
           pushed == [tb.queue EXCEPT !.awaiting = FALSE, !.done = Append(@, entry)]
           queue == LandSets(pushed, Len(pushed.done) + 1, tb.ran, sets)
           moved == [queue EXCEPT !.showing = IF following THEN Len(queue.done) ELSE @]
           next == QueueLanded(s, p, t, sets)
           step == NextStep(tb.state.kind = "Failed", moved.remaining)
           sent == SendNextStatement(next, p, t)
           asked == [next EXCEPT !.failure[p] = {t}]
           gone == [next EXCEPT !.tab[p][t].queue = NoQueue]
<1>1. step \in {"Finished", "Ask", "Next"}
  BY DEF NextStep
<1>2. AdvanceQueue(s, p, t, sets) =
        IF ~Awaits(tb.queue) THEN s
        ELSE CASE step = "Next" -> sent
               [] step = "Ask" -> asked
               [] step = "Finished" -> IF Len(moved.done) < 2 THEN gone ELSE next
  BY Zenon DEF AdvanceQueue, Advanced, QueueLanded
<1> HIDE DEF next, step, sent, asked, gone
<1>3. AdvanceQueue(s, p, t, sets) \in {s, next, sent, asked, gone}
  BY <1>1, <1>2
<1> QED
  BY <1>3 DEF next, sent, asked, gone

LEMMA AdvanceQueueType ==
  ASSUME NEW s \in Session, NEW p \in Profiles, NEW t \in Tabs,
         NEW sets \in Nat \ {0}
  PROVE  AdvanceQueue(s, p, t, sets) \in Session
<1> DEFINE landed == Advanced(s.tab[p][t], sets)
           next == QueueLanded(s, p, t, sets)
           dropped == [next.tab[p][t] EXCEPT !.queue = NoQueue]
<1>1. landed \in Tab
  BY SessionParts, AdvancedType
<1>2. next \in Session
  <2>1. next = [s EXCEPT !.tab[p][t] = landed]
    BY DEF QueueLanded
  <2> HIDE DEF landed, next
  <2> QED
    BY <1>1, <2>1, TabReplaced
<1>3. [next EXCEPT !.failure[p] = {t}] \in Session
  <2> HIDE DEF next
  <2> QED
    BY <1>2 DEF Session
<1>4. [next EXCEPT !.tab[p][t].queue = NoQueue] \in Session
  <2> HIDE DEF next
  <2>1. next.tab[p][t] \in Tab
    BY <1>2, SessionParts
  <2>2. dropped \in Tab
    BY <2>1, NoQueueType DEF Tab
  <2>3. [next EXCEPT !.tab[p][t].queue = NoQueue] = [next EXCEPT !.tab[p][t] = dropped]
    BY <1>2 DEF Session
  <2> HIDE DEF dropped
  <2> QED
    BY <1>2, <2>2, <2>3, TabReplaced
<1>5. SendNextStatement(next, p, t) \in Session
  BY <1>2, SendNextStatementType
<1>6. AdvanceQueue(s, p, t, sets) \in
        {s, next, SendNextStatement(next, p, t), [next EXCEPT !.failure[p] = {t}],
         [next EXCEPT !.tab[p][t].queue = NoQueue]}
  BY AdvanceQueueForms
<1> HIDE DEF next
<1> QED
  BY <1>2, <1>3, <1>4, <1>5, <1>6

LEMMA DropRestOfQueueType ==
  ASSUME NEW s \in Session, NEW p \in Profiles, NEW t \in Tabs
  PROVE  DropRestOfQueue(s, p, t) \in Session
<1> DEFINE tb == s.tab[p][t]
           done == Kept(tb.queue.done, DOMAIN tb.queue.done \ WaitingIn(tb.queue.done))
           queue == [tb.queue EXCEPT !.remaining = <<>>, !.done = done]
           dropped == [tb EXCEPT !.queue = queue]
           asked == s.failure[p] \ {t}
<1>1. tb \in Tab /\ tb.queue \in Queue
  BY SessionParts, TabParts
<1>2. done \in Seq(Finished)
  BY <1>1, KeptType
<1>3. queue \in Queue
  <2> HIDE DEF done
  <2> QED
    BY <1>1, <1>2, EmptySeq DEF Queue
<1>4. dropped \in Tab
  <2> HIDE DEF queue
  <2> QED
    BY <1>1, <1>3 DEF Tab
<1>5. asked \in SUBSET Tabs
  BY DEF Session
<1>6. DropRestOfQueue(s, p, t) =
        [[s EXCEPT !.failure[p] = asked] EXCEPT !.tab[p][t] = dropped]
  <2>1. DropRestOfQueue(s, p, t) =
          [s EXCEPT !.failure[p] = asked, !.tab[p][t].queue = queue]
    BY DEF DropRestOfQueue
  <2> HIDE DEF queue, asked
  <2> QED
    BY <2>1 DEF Session
<1>7. [s EXCEPT !.failure[p] = asked] \in Session
  <2> HIDE DEF asked
  <2> QED
    BY <1>5 DEF Session
<1>8. [[s EXCEPT !.failure[p] = asked] EXCEPT !.tab[p][t] = dropped] \in Session
  <2> DEFINE s1 == [s EXCEPT !.failure[p] = asked]
  <2> HIDE DEF dropped, s1
  <2> QED
    BY <1>4, <1>7, TabReplaced DEF s1
<1> QED
  BY <1>6, <1>8

LEMMA ReleaseQueueType ==
  ASSUME NEW s \in Session, NEW p \in Profiles, NEW t \in Tabs
  PROVE  ReleaseQueue(s, p, t) \in Session
<1> DEFINE tb == s.tab[p][t]
           queue == Clamped([tb.queue EXCEPT !.awaiting = FALSE])
           released == [tb EXCEPT !.queue = queue]
<1>1. tb \in Tab /\ tb.queue \in Queue
  BY SessionParts, TabParts
<1>2. queue \in Queue
  <2>1. [tb.queue EXCEPT !.awaiting = FALSE] \in Queue
    <3> HIDE DEF tb
    <3> QED
      BY <1>1 DEF Queue
  <2> QED
    BY <2>1, ClampedType
<1>3. released \in Tab
  <2> HIDE DEF queue
  <2> QED
    BY <1>1, <1>2 DEF Tab
<1>4. [s EXCEPT !.tab[p][t].queue = queue] = [s EXCEPT !.tab[p][t] = released]
  <2> HIDE DEF queue
  <2> QED
    BY DEF Session
<1>5. [s EXCEPT !.tab[p][t] = released] \in Session
  <2> HIDE DEF released
  <2> QED
    BY <1>3, TabReplaced
<1>6. ReleaseQueue(s, p, t) =
        IF tb.queue.awaiting THEN [s EXCEPT !.tab[p][t].queue = queue] ELSE s
  BY DEF ReleaseQueue
<1> HIDE DEF queue, released
<1> QED
  BY <1>4, <1>5, <1>6

LEMMA StopQueueOnType ==
  ASSUME NEW s \in Session, NEW p \in Profiles, NEW t \in Tabs
  PROVE  StopQueueOn(s, p, t) \in Session
BY DropRestOfQueueType, ReleaseQueueType DEF StopQueueOn

-----------------------------------------------------------------------------
(* What the user runs.                                                     *)

\* A selection is expected to land a result for each of its statements, and
\* more for the ones that may answer with several.
LEMMA ExpectedType ==
  ASSUME NEW selection \in Seq(Statements)
  PROVE  /\ Expected(selection) \in Nat
         /\ Expected(selection) >= Len(selection)
<1> DEFINE several == {i \in DOMAIN selection : selection[i] \in Batches}
<1>1. Len(selection) \in Nat /\ DOMAIN selection = 1..Len(selection)
  BY LenProperties
<1>2. Cardinality(several) \in Nat
  <2>1. IsFiniteSet(1..Len(selection))
    BY <1>1, FS_Interval
  <2>2. several \in SUBSET (1..Len(selection))
    BY <1>1
  <2> HIDE DEF several
  <2> QED
    BY <2>1, <2>2, FS_Subset, FS_CardinalityType
<1>3. \A a, b \in Nat : a * b \in Nat
  OBVIOUS
<1>4. (ExpectedSets - 1) * Cardinality(several) \in Nat
  <2>1. ExpectedSets - 1 \in Nat
    BY SetsAssumption
  <2> HIDE DEF several
  <2> QED
    BY <1>2, <1>3, <2>1
<1>5. Expected(selection) = Len(selection) + (ExpectedSets - 1) * Cardinality(several)
  BY DEF Expected
<1> HIDE DEF several
<1> QED
  BY <1>1, <1>4, <1>5

\* The reserve of a run there is room for.
LEMMA ReserveType ==
  ASSUME NEW p, NEW t, NEW n \in Nat, NEW m \in Nat, n <= m, NEW k, Room(p, t, m, k)
  PROVE  /\ Reserve(p, t, n) \in Seq(Grids)
         /\ Len(Reserve(p, t, n)) = n
         /\ Reserve(p, t, n) \in Injection(1..n, Grids \ Taken(Now, p, t))
BY FreshGridsType DEF Reserve, Room

\* A run of one statement, or the first of a selection, with its queue.
RunQueued(s, p, t, queue, start) ==
  ExecuteAndThen([s EXCEPT !.tab[p][t].queue = queue], p, t, Ask(start, start))

LEMMA RunQueuedType ==
  ASSUME NEW s \in Session, NEW p \in Profiles, NEW t \in Tabs,
         NEW queue \in Queue, NEW start \in Sent
  PROVE  RunQueued(s, p, t, queue, start) \in Session
<1> DEFINE tb == [s.tab[p][t] EXCEPT !.queue = queue]
<1>1. s.tab[p][t] \in Tab
  BY SessionParts
<1>2. tb \in Tab
  BY <1>1 DEF Tab
<1>3. [s EXCEPT !.tab[p][t].queue = queue] = [s EXCEPT !.tab[p][t] = tb]
  BY DEF Session
<1>4. [s EXCEPT !.tab[p][t] = tb] \in Session
  <2> HIDE DEF tb
  <2> QED
    BY <1>2, TabReplaced
<1> QED
  BY <1>3, <1>4, AskType, ExecuteAndThenType DEF RunQueued

\* A queue as a run begins, with its first statement to be sent.
Begins(queue, start) ==
  /\ queue.done = <<>> /\ (queue.awaiting \/ queue.remaining = <<>>)
  /\ start \in Statements

LEMMA RunQueryStep ==
  ASSUME TypeOK, NEW p \in Profiles, NEW t \in Tabs, NEW start \in Statements,
         RunQuery(p, t, start)
  PROVE  \E queue \in Queue, at \in Sent :
           Begins(queue, at) /\ Becomes(RunQueued(Now, p, t, queue, at))
<1> DEFINE spare == Reserve(p, t, Expected(<<start>>) - 1)
           queue == IF spare # <<>>
                    THEN [NoQueue EXCEPT !.awaiting = TRUE, !.spare = spare]
                    ELSE NoQueue
<1>1. <<start>> \in Seq(Statements) /\ Len(<<start>>) = 1
  OBVIOUS
<1>2. /\ Expected(<<start>>) \in Nat /\ Expected(<<start>>) - 1 \in Nat
      /\ Expected(<<start>>) - 1 <= Expected(<<start>>) - 1
  <2>1. Expected(<<start>>) \in Nat /\ Expected(<<start>>) >= 1
    BY <1>1, ExpectedType
  <2> QED
    BY <2>1
<1>3. Room(p, t, Expected(<<start>>) - 1, 1)
  BY DEF RunQuery
<1>4. spare \in Seq(Grids)
  BY <1>2, <1>3, ReserveType
<1>5. queue \in Queue
  <2> HIDE DEF spare
  <2> QED
    BY <1>4, NoQueueType DEF Queue
<1>6. Becomes(RunQueued(Now, p, t, queue, start)) /\ start \in Sent
  BY DEF RunQuery, RunQueued, Sent
<1>7. Begins(queue, start)
  <2> HIDE DEF spare
  <2> QED
    BY DEF Begins, NoQueue
<1> HIDE DEF queue
<1> QED
  BY <1>5, <1>6, <1>7

LEMMA RunQueryType ==
  ASSUME TypeOK, NEW p \in Profiles, NEW t \in Tabs, NEW start \in Statements,
         RunQuery(p, t, start)
  PROVE  TypeOK'
<1>1. PICK queue \in Queue, at \in Sent : Becomes(RunQueued(Now, p, t, queue, at))
  BY RunQueryStep
<1>2. RunQueued(Now, p, t, queue, at) \in Session
  BY NowType, RunQueuedType
<1>3. front' = front /\ active' = active
  BY DEF RunQuery
<1> QED
  BY <1>1, <1>2, <1>3, BecomesType DEF TypeOK

LEMMA RunStatementsStep ==
  ASSUME TypeOK, NEW p \in Profiles, NEW t \in Tabs, NEW selection \in Selections,
         RunStatements(p, t, selection)
  PROVE  \E queue \in Queue, at \in Sent :
           Begins(queue, at) /\ Becomes(RunQueued(Now, p, t, queue, at))
<1> DEFINE spare == Reserve(p, t, Expected(selection) - 1)
           queue == [remaining |-> Tail(selection), done |-> <<>>, showing |-> 1,
                     awaiting |-> TRUE, spare |-> spare]
<1>1. selection \in Seq(Statements) /\ Len(selection) >= 2
  BY SelectionsAssumption
<1>2. /\ Expected(selection) \in Nat /\ Expected(selection) - 1 \in Nat
      /\ Expected(selection) - 1 <= Expected(selection) - 1
  <2>1. Expected(selection) \in Nat /\ Expected(selection) >= Len(selection)
    BY <1>1, ExpectedType
  <2>2. Len(selection) \in Nat
    BY <1>1, LenProperties
  <2> QED
    BY <1>1, <2>1, <2>2
<1>3. Room(p, t, Expected(selection) - 1, 1)
  BY DEF RunStatements
<1>4. spare \in Seq(Grids)
  BY <1>2, <1>3, ReserveType
<1>5. /\ Tail(selection) \in Seq(Statements)
      /\ selection[1] \in Statements /\ selection[1] \in Sent
  <2>1. selection # <<>> /\ 1 \in 1..Len(selection)
    BY <1>1, EmptySeq, LenProperties
  <2> QED
    BY <1>1, <2>1, HeadTailProperties, ElementOfSeq DEF Sent
<1>6. queue \in Queue
  <2> HIDE DEF spare
  <2> QED
    BY <1>4, <1>5, EmptySeq DEF Queue
<1>7. Becomes(RunQueued(Now, p, t, queue, selection[1]))
  BY DEF RunStatements, RunQueued
<1>8. Begins(queue, selection[1])
  BY <1>5 DEF Begins
<1> HIDE DEF queue
<1> QED
  BY <1>5, <1>6, <1>7, <1>8

LEMMA RunStatementsType ==
  ASSUME TypeOK, NEW p \in Profiles, NEW t \in Tabs, NEW selection \in Selections,
         RunStatements(p, t, selection)
  PROVE  TypeOK'
<1>1. PICK queue \in Queue, at \in Sent : Becomes(RunQueued(Now, p, t, queue, at))
  BY RunStatementsStep
<1>2. RunQueued(Now, p, t, queue, at) \in Session
  BY NowType, RunQueuedType
<1>3. front' = front /\ active' = active
  BY DEF RunStatements
<1> QED
  BY <1>1, <1>2, <1>3, BecomesType DEF TypeOK

\* A queue with nothing out and nothing to be sent in turn, and one whose
\* results are all of statements of the buffer.
Rested(queue) == ~queue.awaiting /\ queue.remaining = <<>>

AllNamed(done) == \A i \in DOMAIN done : done[i].start # Batch

\* A tab put on a run of lanes and its lanes started.
StartsLanes(p, t) ==
  \E tb \in Tab, n \in Nat :
    /\ tb.lent = tab[p][t].lent
    /\ tb.state = Running(FreshRun(Now))
    /\ Rested(tb.queue)
    /\ AllNamed(tab[p][t].queue.done) => AllNamed(tb.queue.done)
    /\ Becomes(StartWaiting([Now EXCEPT !.tab[p][t] = tb], p, t, n))

LEMMA StartsLanesType ==
  ASSUME TypeOK, NEW p \in Profiles, NEW t \in Tabs, StartsLanes(p, t),
         UNCHANGED <<front, active>>
  PROVE  TypeOK'
<1>1. PICK tb \in Tab, n \in Nat :
        Becomes(StartWaiting([Now EXCEPT !.tab[p][t] = tb], p, t, n))
  BY DEF StartsLanes
<1>2. StartWaiting([Now EXCEPT !.tab[p][t] = tb], p, t, n) \in Session
  BY NowType, TabReplaced, StartWaitingType
<1> QED
  BY <1>1, <1>2, BecomesType DEF TypeOK

LEMMA RunAtOnceStep ==
  ASSUME TypeOK, NEW p \in Profiles, NEW t \in Tabs, NEW selection \in Selections,
         RunAtOnce(p, t, selection)
  PROVE  StartsLanes(p, t)
<1> DEFINE n == Len(selection)
           m == Expected(selection)
           grid == Reserve(p, t, m)
           entry(i) == [start |-> selection[i], set |-> 1,
                        state |-> Ended("Idle"), grid |-> grid[i]]
           done == [i \in DOMAIN selection |-> entry(i)]
           spare == SubSeq(grid, n + 1, m)
           queue == [remaining |-> <<>>, done |-> done, showing |-> 1,
                     awaiting |-> FALSE, spare |-> spare]
           tb == [Now.tab[p][t] EXCEPT !.queue = queue,
                                       !.state = Running(FreshRun(Now))]
<1>1. /\ selection \in Seq(Statements) /\ n \in Nat
      /\ DOMAIN selection = 1..n /\ n <= m /\ m \in Nat
  BY SelectionsAssumption, LenProperties, ExpectedType
<1>2. grid \in Seq(Grids) /\ Len(grid) = m
  <2>1. Room(p, t, m, Min({n, AtOnceLimit}) + 1)
    BY DEF RunAtOnce
  <2>2. m <= m
    BY <1>1
  <2> HIDE DEF m, n
  <2> QED
    BY <1>1, <2>1, <2>2, ReserveType
<1>3. done \in Seq(Finished)
  <2>1. ASSUME NEW i \in 1..n
        PROVE  entry(i) \in Finished
    <3>1. selection[i] \in Sent
      BY <1>1, ElementOfSeq DEF Sent
    <3>2. grid[i] \in Grids
      <4>1. i \in 1..m
        BY <1>1
      <4> HIDE DEF grid, m
      <4> QED
        BY <1>2, <4>1, ElementOfSeq
    <3>3. Ended("Idle") \in State
      BY EndedType DEF Kinds
    <3> HIDE DEF grid
    <3> QED
      BY <3>1, <3>2, <3>3 DEF Finished
  <2>2. done \in [1..n -> Finished]
    <3> HIDE DEF entry
    <3> QED
      BY <1>1, <2>1
  <2> HIDE DEF done
  <2> QED
    BY <1>1, <2>2, SeqOfFunction
<1>4. spare \in Seq(Grids)
  <2> HIDE DEF grid, m, n
  <2>1. \A i \in n + 1..m : grid[i] \in Grids
    BY <1>1, <1>2, ElementOfSeq
  <2> QED
    BY <1>1, <2>1, SubSeqProperties
<1>5. queue \in Queue
  <2> HIDE DEF done, spare
  <2> QED
    BY <1>3, <1>4, EmptySeq DEF Queue
<1>6. /\ tb \in Tab /\ tb.lent = tab[p][t].lent /\ tb.state = Running(FreshRun(Now))
      /\ tb.queue = queue
  <2>1. Now.tab[p][t] \in Tab /\ Now.tab[p][t] = tab[p][t]
    BY NowType, SessionParts DEF Now
  <2>2. Running(FreshRun(Now)) \in State
    BY FreshRunType, RunningType
  <2> HIDE DEF queue
  <2> QED
    BY <1>5, <2>1, <2>2 DEF Tab
<1>7. Becomes(StartWaiting([Now EXCEPT !.tab[p][t] = tb], p, t, AtOnceLimit))
  BY DEF RunAtOnce
<1>8. Rested(queue) /\ AllNamed(queue.done)
  <2>1. \A i \in 1..n : selection[i] # Batch
    BY <1>1, ElementOfSeq, StatementsAssumption DEF Batch
  <2>2. Rested(queue)
    BY DEF Rested
  <2>3. AllNamed(done)
    <3>1. \A i \in 1..n : entry(i).start # Batch
      BY <2>1
    <3>2. DOMAIN done = 1..n
      BY <1>1
    <3> HIDE DEF entry
    <3> QED
      BY <1>1, <3>1, <3>2 DEF AllNamed
  <2> QED
    BY <2>2, <2>3
<1> HIDE DEF tb, queue
<1> QED
  BY <1>6, <1>7, <1>8, SetsAssumption DEF StartsLanes

LEMMA RunAtOnceType ==
  ASSUME TypeOK, NEW p \in Profiles, NEW t \in Tabs, NEW selection \in Selections,
         RunAtOnce(p, t, selection)
  PROVE  TypeOK'
BY RunAtOnceStep, StartsLanesType DEF RunAtOnce

LEMMA ExplainQueryType ==
  ASSUME TypeOK, NEW p \in Profiles, NEW t \in Tabs, NEW start \in Statements,
         ExplainQuery(p, t, start)
  PROVE  TypeOK'
<1> DEFINE job == [Ask(start, start) EXCEPT !.explain = TRUE]
           r == ExecuteUnchecked(Now, p, t, job)
           s == ExecuteAndThen(Now, p, t, job)
<1>1. job \in Job
  <2>1. Ask(start, start) \in Job
    BY AskType DEF Sent
  <2> QED
    BY <2>1 DEF Job
<1>2. r \in Session /\ s \in Session
  BY <1>1, NowType, ExecuteUncheckedType, ExecuteAndThenType
<1>3. (Becomes(r) \/ Becomes(s)) /\ front' = front /\ active' = active
  BY DEF ExplainQuery
<1> HIDE DEF r, s
<1> QED
  BY <1>2, <1>3, BecomesType DEF TypeOK

LEMMA RefuseRunType ==
  ASSUME TypeOK, NEW p \in Profiles, NEW t \in Tabs, RefuseRun(p, t)
  PROVE  TypeOK'
<1> DEFINE tb == [Now.tab[p][t] EXCEPT !.state = Ended("Failed")]
           s == [Now EXCEPT !.tab[p][t] = tb]
<1>1. tb \in Tab
  <2>1. Now.tab[p][t] \in Tab
    BY NowType, SessionParts
  <2>2. Ended("Failed") \in State
    BY EndedType DEF Kinds
  <2> QED
    BY <2>1, <2>2 DEF Tab
<1>2. s \in Session
  <2> HIDE DEF tb
  <2> QED
    BY <1>1, NowType, TabReplaced
<1>3. Becomes(s) /\ front' = front /\ active' = active
  BY DEF RefuseRun
<1> HIDE DEF s
<1> QED
  BY <1>2, <1>3, BecomesType DEF TypeOK

LEMMA ReorderQueryType ==
  ASSUME TypeOK, NEW p \in Profiles, NEW t \in Tabs, ReorderQuery(p, t)
  PROVE  TypeOK'
<1> DEFINE s == ExecuteAndThen(Now, p, t, Ask(tab[p][t].last, Batch))
<1>1. tab[p][t].last \in Sent /\ Batch \in Sent
  BY TabParts DEF TypeOK, Sent
<1>2. s \in Session
  BY <1>1, NowType, AskType, ExecuteAndThenType
<1>3. Becomes(s) /\ front' = front /\ active' = active
  BY DEF ReorderQuery
<1> HIDE DEF s
<1> QED
  BY <1>2, <1>3, BecomesType DEF TypeOK

LEMMA RerunQueuedStep ==
  ASSUME TypeOK, NEW p \in Profiles, NEW t \in Tabs, RerunQueued(p, t)
  PROVE  StartsLanes(p, t)
<1> DEFINE at == tab[p][t].queue.showing
           idle == [tab[p][t] EXCEPT !.queue.done[at].state = Ended("Idle")]
           tb == [idle EXCEPT !.state = Running(FreshRun(Now))]
<1>1. tab[p][t] \in Tab /\ at \in DOMAIN tab[p][t].queue.done
  <2>1. OnEntry(tab[p][t])
    BY Zenon DEF RerunQueued
  <2> QED
    BY <2>1 DEF OnEntry, TypeOK
<1>2. /\ idle \in Tab /\ idle.lent = tab[p][t].lent /\ Rested(idle.queue)
      /\ AllNamed(tab[p][t].queue.done) => AllNamed(idle.queue.done)
  <2>1. /\ idle \in Tab
        /\ idle.queue.done = [tab[p][t].queue.done EXCEPT ![at] = [@ EXCEPT !.state = Ended("Idle")]]
    <3> DEFINE was == tab[p][t]
    <3>1. was \in Tab /\ at \in DOMAIN was.queue.done /\ Ended("Idle") \in State
      BY <1>1, EndedType DEF Kinds
    <3> HIDE DEF was, at
    <3>2. /\ [was EXCEPT !.queue.done[at].state = Ended("Idle")] \in Tab
          /\ [was EXCEPT !.queue.done[at].state = Ended("Idle")].queue.done
               = [was.queue.done EXCEPT ![at] = [@ EXCEPT !.state = Ended("Idle")]]
      BY <3>1, EntryStateType
    <3> QED
      BY <3>2 DEF was
  <2>2. idle.lent = tab[p][t].lent
    BY <1>1 DEF Tab
  <2>3. Rested(idle.queue)
    <3>1. Settled(tab[p][t].queue)
      BY Zenon DEF RerunQueued
    <3>2. /\ idle.queue.awaiting = tab[p][t].queue.awaiting
          /\ idle.queue.remaining = tab[p][t].queue.remaining
      BY <1>1 DEF Tab, Queue
    <3> QED
      BY <3>1, <3>2 DEF Settled, Rested
  <2>4. AllNamed(tab[p][t].queue.done) => AllNamed(idle.queue.done)
    <3> DEFINE old == tab[p][t].queue.done
    <3>1. \A i \in DOMAIN old : old[i] \in Finished
      BY <1>1, TabParts, QueueParts
    <3>2. idle.queue.done = [old EXCEPT ![at] = [@ EXCEPT !.state = Ended("Idle")]]
      BY <2>1
    <3> HIDE DEF idle, old, at
    <3>3. AllNamed(old) => AllNamed(idle.queue.done)
      BY <3>1, <3>2 DEF AllNamed, Finished
    <3> QED
      BY <3>3 DEF old
  <2> QED
    BY <2>1, <2>2, <2>3, <2>4
<1>3. /\ tb \in Tab /\ tb.lent = tab[p][t].lent /\ tb.state = Running(FreshRun(Now))
      /\ tb.queue = idle.queue
  <2>1. Running(FreshRun(Now)) \in State
    BY FreshRunType, RunningType
  <2> HIDE DEF idle
  <2> QED
    BY <1>2, <2>1 DEF Tab
<1>4. Becomes(StartWaiting([Now EXCEPT !.tab[p][t] = tb], p, t, 1))
  BY DEF RerunQueued, Now
<1> HIDE DEF tb, idle
<1> QED
  BY <1>2, <1>3, <1>4 DEF StartsLanes

LEMMA RerunQueuedType ==
  ASSUME TypeOK, NEW p \in Profiles, NEW t \in Tabs, RerunQueued(p, t)
  PROVE  TypeOK'
BY RerunQueuedStep, StartsLanesType DEF RerunQueued

LEMMA ApplyEditsType ==
  ASSUME TypeOK, NEW p \in Profiles, NEW t \in Tabs, ApplyEdits(p, t)
  PROVE  TypeOK'
<1> DEFINE refresh == ApplyRefresh(tab[p][t])
           job == [start |-> Batch, from |-> Batch, explain |-> FALSE,
                   refresh |-> refresh.refresh, index |-> refresh.index,
                   then |-> refresh.then]
           s == ExecuteAndThen(Now, p, t, job)
<1>1. tab[p][t] \in Tab
  BY DEF TypeOK
<1>2. job \in Job
  BY <1>1, ApplyRefreshType DEF Job, Refreshes, Sent
<1>3. s \in Session
  <2> HIDE DEF job
  <2> QED
    BY <1>2, NowType, ExecuteAndThenType
<1>4. Becomes(s) /\ front' = front /\ active' = active
  BY DEF ApplyEdits
<1> HIDE DEF s
<1> QED
  BY <1>3, <1>4, BecomesType DEF TypeOK

-----------------------------------------------------------------------------
(* What the user answers, cancels and looks at.                            *)

LEMMA ApprovePendingRunType ==
  ASSUME TypeOK, NEW p \in Profiles, ApprovePendingRun(p)
  PROVE  TypeOK'
<1>1. PICK parked \in prompt[p] :
        Becomes(ExecuteUnchecked([Now EXCEPT !.prompt[p] = {}],
                                 p, parked.tab, parked.job))
  BY DEF ApprovePendingRun
<1> DEFINE s == ExecuteUnchecked([Now EXCEPT !.prompt[p] = {}],
                                 p, parked.tab, parked.job)
<1>2. parked.tab \in Tabs /\ parked.job \in Job
  BY DEF TypeOK, Parked
<1>3. [Now EXCEPT !.prompt[p] = {}] \in Session
  BY NowType DEF Session
<1>4. s \in Session
  BY <1>2, <1>3, ExecuteUncheckedType
<1>5. front' = front /\ active' = active
  BY DEF ApprovePendingRun
<1> HIDE DEF s
<1> QED
  BY <1>1, <1>4, <1>5, BecomesType DEF TypeOK, s

LEMMA CancelPendingRunType ==
  ASSUME TypeOK, NEW p \in Profiles, CancelPendingRun(p)
  PROVE  TypeOK'
<1>1. PICK parked \in prompt[p] :
        Becomes(StopQueueOn([Now EXCEPT !.prompt[p] = {}], p, parked.tab))
  BY DEF CancelPendingRun
<1> DEFINE s == StopQueueOn([Now EXCEPT !.prompt[p] = {}], p, parked.tab)
<1>2. parked.tab \in Tabs
  BY DEF TypeOK, Parked
<1>3. [Now EXCEPT !.prompt[p] = {}] \in Session
  BY NowType DEF Session
<1>4. s \in Session
  BY <1>2, <1>3, StopQueueOnType
<1>5. Becomes(s) /\ front' = front /\ active' = active
  BY <1>1 DEF CancelPendingRun
<1> HIDE DEF s
<1> QED
  BY <1>4, <1>5, BecomesType DEF TypeOK

LEMMA StopQueueType ==
  ASSUME TypeOK, NEW p \in Profiles, StopQueue(p)
  PROVE  TypeOK'
<1>1. PICK t \in failure[p] :
        Becomes([Now EXCEPT !.failure[p] = {}, !.tab[p][t].queue.remaining = <<>>])
  BY DEF StopQueue
<1> DEFINE queue == [tab[p][t].queue EXCEPT !.remaining = <<>>]
           tb == [tab[p][t] EXCEPT !.queue = queue]
           s1 == [Now EXCEPT !.failure[p] = {}]
           s == [s1 EXCEPT !.tab[p][t] = tb]
<1>2. t \in Tabs /\ tab[p][t] \in Tab
  BY DEF TypeOK
<1>3. queue \in Queue
  BY <1>2, TabParts, EmptySeq DEF Queue
<1>4. tb \in Tab
  <2> HIDE DEF queue
  <2> QED
    BY <1>2, <1>3 DEF Tab
<1>5. s1 \in Session
  BY NowType DEF Session
<1>6. s \in Session
  <2> HIDE DEF s1, tb
  <2> QED
    BY <1>2, <1>4, <1>5, TabReplaced
<1>7. [Now EXCEPT !.failure[p] = {}, !.tab[p][t].queue.remaining = <<>>] = s
  BY NowType DEF Now
<1>8. Becomes(s) /\ front' = front /\ active' = active
  BY <1>1, <1>7 DEF StopQueue
<1> HIDE DEF s
<1> QED
  BY <1>6, <1>8, BecomesType DEF TypeOK

LEMMA ContinueQueueType ==
  ASSUME TypeOK, NEW p \in Profiles, ContinueQueue(p)
  PROVE  TypeOK'
<1>1. PICK t \in failure[p] :
        Becomes(SendNextStatement([Now EXCEPT !.failure[p] = {}], p, t))
  BY DEF ContinueQueue
<1> DEFINE s == SendNextStatement([Now EXCEPT !.failure[p] = {}], p, t)
<1>2. t \in Tabs
  BY DEF TypeOK
<1>3. [Now EXCEPT !.failure[p] = {}] \in Session
  BY NowType DEF Session
<1>4. s \in Session
  BY <1>2, <1>3, SendNextStatementType
<1>5. Becomes(s) /\ front' = front /\ active' = active
  BY <1>1 DEF ContinueQueue
<1> HIDE DEF s
<1> QED
  BY <1>4, <1>5, BecomesType DEF TypeOK

LEMMA ShowQueuedResultType ==
  ASSUME TypeOK, NEW p \in Profiles, NEW t \in Tabs, NEW index \in Nat,
         ShowQueuedResult(p, t, index)
  PROVE  TypeOK'
<1> DEFINE queue == [tab[p][t].queue EXCEPT !.showing = index]
           tb == [tab[p][t] EXCEPT !.queue = queue]
           s == [Now EXCEPT !.tab[p][t] = tb]
<1>1. tab[p][t] \in Tab
  BY DEF TypeOK
<1>2. queue \in Queue
  BY <1>1, TabParts DEF Queue
<1>3. tb \in Tab
  <2> HIDE DEF queue
  <2> QED
    BY <1>1, <1>2 DEF Tab
<1>4. s \in Session
  <2> HIDE DEF tb
  <2> QED
    BY <1>3, NowType, TabReplaced
<1>5. [Now EXCEPT !.tab[p][t].queue.showing = index] = s
  BY NowType DEF Now
<1>6. Becomes(s) /\ front' = front /\ active' = active
  BY <1>5 DEF ShowQueuedResult
<1> HIDE DEF s
<1> QED
  BY <1>4, <1>6, BecomesType DEF TypeOK

\* The tab with what is cancelled marked so, and its queue dropped if that is
\* the tab's own run.
LEMMA CancelQueryStep ==
  ASSUME TypeOK, NEW p \in Profiles, NEW t \in Tabs, CancelQuery(p, t)
  PROVE  \E tb \in Tab :
           /\ tb.lent = tab[p][t].lent
           /\ \/ Becomes([Now EXCEPT !.tab[p][t] = tb])
              \/ Becomes(DropRestOfQueue([Now EXCEPT !.tab[p][t] = tb], p, t))
<1> DEFINE tb == tab[p][t]
           at == tb.queue.showing
           marked(state) == IF IsRunning(state) THEN [state EXCEPT !.cancelling = TRUE]
                                                ELSE state
           one == [tb EXCEPT !.queue.done[at].state = marked(tb.queue.done[at].state)]
           done == [i \in DOMAIN tb.queue.done |->
                      [tb.queue.done[i] EXCEPT !.state = marked(tb.queue.done[i].state)]]
           queue == [tb.queue EXCEPT !.done = done]
           both == [tb EXCEPT !.state = marked(tb.state), !.queue = queue]
<1>1. /\ tb \in Tab /\ tb.queue \in Queue
      /\ \A i \in DOMAIN tb.queue.done : tb.queue.done[i] \in Finished
  BY TabParts, QueueParts DEF TypeOK
<1>2. ASSUME NEW state \in State
      PROVE  marked(state) \in State
  BY DEF State
<1>3. CASE OnEntry(tb) /\ IsRunning(tb.queue.done[at].state)
  <2>1. at \in DOMAIN tb.queue.done /\ tb.queue.done[at].state \in State
    BY <1>1, <1>3 DEF OnEntry, Finished
  <2>2. one \in Tab
    <3>1. marked(tb.queue.done[at].state) \in State
      BY <1>2, <2>1
    <3> HIDE DEF marked
    <3> QED
      BY <1>1, <2>1, <3>1, EntryStateType
  <2>3. one.lent = tb.lent
    <3> HIDE DEF marked, at
    <3> QED
      BY <1>1 DEF Tab
  <2>4. Becomes([Now EXCEPT !.tab[p][t] = one])
    BY <1>3 DEF CancelQuery, Now
  <2> HIDE DEF one
  <2> QED
    BY <2>2, <2>3, <2>4
<1>4. CASE ~(OnEntry(tb) /\ IsRunning(tb.queue.done[at].state))
  <2>1. done \in Seq(Finished)
    <3>1. \A i \in DOMAIN tb.queue.done : marked(tb.queue.done[i].state) \in State
      BY <1>1, <1>2 DEF Finished
    <3>2. \A i \in DOMAIN tb.queue.done : done[i] \in Finished
      <4> HIDE DEF marked
      <4> QED
        BY <1>1, <3>1 DEF Finished
    <3> QED
      BY <1>1, <3>2, EntriesType
  <2>2. queue \in Queue
    <3> HIDE DEF done
    <3> QED
      BY <1>1, <2>1 DEF Queue
  <2>3. both \in Tab /\ both.lent = tb.lent
    <3>1. marked(tb.state) \in State
      BY <1>1, <1>2, TabParts
    <3> HIDE DEF marked, queue
    <3> QED
      BY <1>1, <2>2, <3>1 DEF Tab
  <2>4. Becomes(DropRestOfQueue([Now EXCEPT !.tab[p][t] = both], p, t))
    BY <1>4 DEF CancelQuery, Now
  <2> HIDE DEF both
  <2> QED
    BY <2>3, <2>4
<1> QED
  BY <1>3, <1>4

LEMMA CancelQueryType ==
  ASSUME TypeOK, NEW p \in Profiles, NEW t \in Tabs, CancelQuery(p, t)
  PROVE  TypeOK'
<1>1. PICK tb \in Tab : \/ Becomes([Now EXCEPT !.tab[p][t] = tb])
                        \/ Becomes(DropRestOfQueue([Now EXCEPT !.tab[p][t] = tb], p, t))
  BY CancelQueryStep
<1>2. /\ [Now EXCEPT !.tab[p][t] = tb] \in Session
      /\ DropRestOfQueue([Now EXCEPT !.tab[p][t] = tb], p, t) \in Session
  BY NowType, TabReplaced, DropRestOfQueueType
<1>3. front' = front /\ active' = active
  BY DEF CancelQuery
<1> QED
  BY <1>1, <1>2, <1>3, BecomesType DEF TypeOK

LEMMA ActivateTabType ==
  ASSUME TypeOK, NEW p \in Profiles, NEW t \in Tabs, ActivateTab(p, t)
  PROVE  TypeOK'
BY DEF TypeOK, ActivateTab

-----------------------------------------------------------------------------
(* Connections.                                                            *)

LEMMA RetiredType ==
  ASSUME NEW p, NEW all \in SUBSET Task
  PROVE  Retired(p, all) \in SUBSET Task
BY DEF Retired, Task

LEMMA BeginConnectType ==
  ASSUME NEW s \in Session, NEW p \in Profiles
  PROVE  BeginConnect(s, p) \in Session
<1>1. Retired(p, s.tasks) \in SUBSET Task
  BY RetiredType DEF Session
<1> QED
  BY <1>1 DEF BeginConnect, Session, ConnStates

LEMMA ActivateType ==
  ASSUME TypeOK, NEW p \in Profiles, Activate(p)
  PROVE  TypeOK'
<1> DEFINE s0 == [Now EXCEPT !.prompt[p] = {}]
           s == IF conn[p] \in {"Idle", "Failed"} THEN BeginConnect(s0, p) ELSE s0
<1>1. s0 \in Session
  BY NowType DEF Session
<1>2. s \in Session
  <2> HIDE DEF s0
  <2> QED
    BY <1>1, BeginConnectType
<1>3. Becomes(s) /\ front' = p /\ active' = active
  BY DEF Activate
<1> HIDE DEF s
<1> QED
  BY <1>2, <1>3, BecomesType DEF TypeOK

LEMMA ReconnectType ==
  ASSUME TypeOK, NEW p \in Profiles, Reconnect(p)
  PROVE  TypeOK'
<1> DEFINE s == BeginConnect(Now, p)
<1>1. s \in Session
  BY NowType, BeginConnectType
<1>2. Becomes(s) /\ front' = front /\ active' = active
  BY DEF Reconnect
<1> HIDE DEF s
<1> QED
  BY <1>1, <1>2, BecomesType DEF TypeOK

LEMMA ConnectLandsType ==
  ASSUME TypeOK, NEW p \in Profiles, NEW opened \in BOOLEAN, ConnectLands(p, opened)
  PROVE  TypeOK'
BY DEF TypeOK, ConnectLands, ConnStates

LEMMA QueuesStoppedType ==
  ASSUME TypeOK, NEW p \in Profiles
  PROVE  QueuesStopped(p) \in [Tabs -> Tab]
<1>1. \A t \in Tabs : StopQueueOn(Now, p, t) \in Session
  BY NowType, StopQueueOnType
<1>2. \A t \in Tabs : StopQueueOn(Now, p, t).tab[p][t] \in Tab
  BY <1>1, SessionParts
<1> QED
  BY <1>2 DEF QueuesStopped

LEMMA DisconnectType ==
  ASSUME TypeOK, NEW p \in Profiles, Disconnect(p)
  PROVE  TypeOK'
<1> DEFINE tabs == QueuesStopped(p)
           retired == Retired(p, tasks)
           s == [Now EXCEPT !.conn[p] = "Idle", !.tab[p] = tabs, !.prompt[p] = {},
                            !.failure[p] = {}, !.tasks = retired]
<1>1. tabs \in [Tabs -> Tab] /\ retired \in SUBSET Task
  BY QueuesStoppedType, RetiredType DEF TypeOK
<1>2. s \in Session
  <2> HIDE DEF tabs, retired
  <2> QED
    BY <1>1, NowType DEF Session, ConnStates
<1>3. Becomes(s) /\ front' = NoProfile /\ active' = active
  BY DEF Disconnect, Now
<1> HIDE DEF s
<1> QED
  BY <1>2, <1>3, BecomesType DEF TypeOK

LEMMA LeftType ==
  ASSUME TypeOK, NEW p \in Profiles, NEW t \in Tabs, Room(p, t, 1, 0)
  PROVE  Left(p, t) \in Tab
<1> DEFINE tb == QueuesStopped(p)[t]
           grid == Reserve(p, t, 1)[1]
           state == IF IsRunning(tb.state) THEN tb.state ELSE Ended("Idle")
           rows == [tb.rows EXCEPT ![grid] = Empty]
<1>1. tb \in Tab
  BY QueuesStoppedType
<1>2. grid \in Grids
  <2> DEFINE n == 1
             reserve == Reserve(p, t, n)
  <2>1. n \in Nat /\ n <= n /\ n \in 1..n /\ Room(p, t, n, 0)
    OBVIOUS
  <2>2. reserve \in Seq(Grids) /\ Len(reserve) = n
    <3> HIDE DEF n
    <3> QED
      BY <2>1, ReserveType
  <2>3. reserve[n] \in Grids
    <3> HIDE DEF n, reserve
    <3> QED
      BY <2>1, <2>2, ElementOfSeq
  <2> QED
    BY <2>3
<1>3. state \in State
  <2> HIDE DEF tb
  <2> QED
    BY <1>1, TabParts, EndedType DEF Kinds
<1>4. rows \in [Grids -> Rows]
  <2> HIDE DEF tb, grid
  <2> QED
    BY <1>1, TabParts, EmptyType
<1>5. Left(p, t) = [tb EXCEPT !.state = state, !.grid = grid, !.queue = NoQueue,
                              !.lent = NoLoan, !.last = Batch, !.ran = Batch,
                              !.rows = rows]
  BY DEF Left
<1> HIDE DEF tb, state, grid, rows
<1> QED
  BY <1>1, <1>2, <1>3, <1>4, <1>5, NoQueueType DEF Tab, Sent

LEMMA SetDatabaseType ==
  ASSUME TypeOK, NEW p \in Profiles, NEW inSession \in BOOLEAN,
         SetDatabase(p, inSession)
  PROVE  TypeOK'
<1> DEFINE tabs == [t \in Tabs |-> Left(p, t)]
           s0 == [Now EXCEPT !.tab[p] = tabs, !.prompt[p] = {}, !.failure[p] = {}]
           retired == Retired(p, s0.tasks)
           s == IF inSession THEN [s0 EXCEPT !.tasks = retired] ELSE BeginConnect(s0, p)
<1>1. tabs \in [Tabs -> Tab]
  BY LeftType DEF SetDatabase
<1>2. s0 \in Session
  <2> HIDE DEF tabs
  <2> QED
    BY <1>1, NowType DEF Session
<1>3. s \in Session
  <2> HIDE DEF s0
  <2>1. retired \in SUBSET Task
    BY <1>2, RetiredType DEF Session
  <2> HIDE DEF retired
  <2>2. [s0 EXCEPT !.tasks = retired] \in Session
    BY <1>2, <2>1 DEF Session
  <2> QED
    BY <1>2, <2>2, BeginConnectType
<1>4. Becomes(s) /\ front' = front /\ active' = active
  BY DEF SetDatabase
<1> HIDE DEF s
<1> QED
  BY <1>3, <1>4, BecomesType DEF TypeOK

-----------------------------------------------------------------------------
(* Statements come back.                                                   *)

LEMMA PourType ==
  ASSUME TypeOK, NEW task \in tasks, Pour(task)
  PROVE  TypeOK'
<1> DEFINE p == task.profile
           t == task.tab
           arriving == RowsOf(task.job.start, 1, "arriving")
           rows == [tab[p][t].rows EXCEPT ![task.grid] = arriving]
           tb == [tab[p][t] EXCEPT !.rows = rows]
           s == [Now EXCEPT !.tab[p][t] = tb]
<1>1. p \in Profiles /\ t \in Tabs /\ task.job.start \in Sent
  BY DEF TypeOK, Task, Job
<1>2. tab[p][t] \in Tab
  <2> HIDE DEF p, t
  <2> QED
    BY <1>1 DEF TypeOK
<1>3. arriving \in Rows
  BY <1>1 DEF RowsOf, Rows
<1>4. rows \in [Grids -> Rows]
  <2> HIDE DEF arriving, p, t
  <2> QED
    BY <1>2, <1>3, TabParts
<1>5. tb \in Tab
  <2> HIDE DEF rows, p, t
  <2> QED
    BY <1>2, <1>4 DEF Tab
<1>6. s \in Session
  <2> HIDE DEF tb, p, t
  <2> QED
    BY <1>1, <1>5, NowType, TabReplaced
<1>7. Becomes(s) /\ front' = front /\ active' = active
  BY DEF Pour, Now
<1> HIDE DEF s
<1> QED
  BY <1>6, <1>7, BecomesType DEF TypeOK

LEMMA KindOfType ==
  ASSUME NEW tb, NEW task, NEW outcome
  PROVE  KindOf(tb, task, outcome) \in Kinds
BY DEF KindOf, Kinds

LEMMA WrittenType ==
  ASSUME NEW tb \in Tab, NEW task \in Task, NEW kind \in Kinds,
         HasPlace(tb, task.lane, task.job.start)
  PROVE  Written(tb, task, kind) \in Tab
<1> DEFINE grid == GridAt(tb, task.lane, task.job.start)
           old == tb.rows[grid]
           left == CASE kind = "Complete" -> RowsOf(task.job.start, 1, "whole")
                     [] kind = "Stopped" -> [old EXCEPT !.how = "cut"]
                     [] kind = "Applied" -> Empty
                     [] kind = "Failed" -> IF old.how = "arriving" THEN Empty ELSE old
                     [] OTHER -> old
           stated == WithStateAt(tb, task.lane, task.job.start, Ended(kind))
           last == IF NamesRows(task, kind) THEN task.job.start ELSE stated.last
           rows == [stated.rows EXCEPT ![grid] = left]
<1>1. task.job.start \in Sent
  BY DEF Task, Job
<1>2. grid \in Grids
  BY PlaceType
<1>3. stated \in Tab
  BY EndedType, WithStateAtType
<1>4. old \in Rows
  <2> HIDE DEF grid
  <2> QED
    BY <1>2, TabParts
<1>5. left \in Rows
  <2>1. RowsOf(task.job.start, 1, "whole") \in Rows
    BY <1>1 DEF RowsOf, Rows
  <2>2. [old EXCEPT !.how = "cut"] \in Rows
    <3> HIDE DEF old
    <3> QED
      BY <1>4 DEF Rows
  <2>3. Empty \in Rows
    BY EmptyType
  <2> HIDE DEF old
  <2> QED
    BY <1>4, <2>1, <2>2, <2>3
<1>6. last \in Sent
  <2> HIDE DEF stated
  <2> QED
    BY <1>1, <1>3, TabParts
<1>7. rows \in [Grids -> Rows]
  <2> HIDE DEF stated, grid, left
  <2> QED
    BY <1>2, <1>3, <1>5, TabParts
<1>8. Written(tb, task, kind) = [stated EXCEPT !.rows = rows, !.last = last]
  <2> HIDE DEF stated
  <2>1. stated \in Tab
    BY <1>3
  <2> QED
    BY <2>1 DEF Written, Tab, stated
<1> HIDE DEF stated, rows, last
<1> QED
  BY <1>3, <1>6, <1>7, <1>8 DEF Tab

LEMMA GivenBackType ==
  ASSUME NEW s \in Session, NEW p \in Profiles, NEW t \in Tabs
  PROVE  [s EXCEPT !.tab[p][t] = GiveBack(@)] \in Session
<1>1. GiveBack(s.tab[p][t]) \in Tab
  BY SessionParts, GiveBackType
<1> QED
  BY <1>1, TabReplaced

LEMMA FollowUpType ==
  ASSUME NEW s \in Session, NEW p \in Profiles, NEW t \in Tabs, NEW job \in Job,
         NEW succeeded \in BOOLEAN
  PROVE  FollowUp(s, p, t, job, succeeded) \in Session
<1> DEFINE back == [s EXCEPT !.tab[p][t] = GiveBack(@)]
           following == [Ask(job.then, Batch) EXCEPT !.refresh = "Return"]
           again == ExecuteAndThen(s, p, t, following)
           over == [again EXCEPT !.tab[p][t] = GiveBack(@)]
           plain == ExecuteAndThen(s, p, t, Ask(job.then, Batch))
<1>1. Ask(job.then, Batch) \in Job
  BY AskType DEF Job, Sent
<1>2. following \in Job
  BY <1>1 DEF Job, Refreshes
<1>3. plain \in Session
  BY <1>1, ExecuteAndThenType
<1>4. again \in Session
  <2> HIDE DEF following
  <2> QED
    BY <1>2, ExecuteAndThenType
<1>5. over \in Session
  <2> HIDE DEF again
  <2> QED
    BY <1>4, GivenBackType
<1>6. back \in Session
  BY GivenBackType
<1>7. FollowUp(s, p, t, job, succeeded) \in {s, back, plain, again, over}
  BY DEF FollowUp
<1> HIDE DEF back, plain, again, over
<1> QED
  BY <1>3, <1>4, <1>5, <1>6, <1>7

\* A session found lost is heard of first, and the result is then written.
Heard(s, task, outcome) ==
  IF outcome = "Lost"
  THEN [s EXCEPT !.conn[task.profile] = "Failed",
                 !.tab[task.profile][task.tab].queue.remaining = <<>>]
  ELSE s

KindIn(s, task, outcome) == KindOf(s.tab[task.profile][task.tab], task, outcome)

WrittenIn(s, task, outcome) ==
  LET tb == s.tab[task.profile][task.tab]
      kind == KindOf(tb, task, outcome)
      written == Written(tb, task, kind)
  IN  [s EXCEPT !.tab[task.profile][task.tab] =
         IF kind = "Explained" THEN ShowSlot(written) ELSE written]

LEMMA HeardType ==
  ASSUME NEW s \in Session, NEW task \in Task, NEW outcome
  PROVE  /\ Heard(s, task, outcome) \in Session
         /\ Heard(s, task, outcome).tasks = s.tasks
         /\ \A p \in Profiles, t \in Tabs :
              Heard(s, task, outcome).tab[p][t].lent = s.tab[p][t].lent
<1> DEFINE p == task.profile
           t == task.tab
           queue == [s.tab[p][t].queue EXCEPT !.remaining = <<>>]
           stopped == [s.tab[p][t] EXCEPT !.queue = queue]
           lost == [s EXCEPT !.conn[p] = "Failed", !.tab[p][t].queue.remaining = <<>>]
<1>1. p \in Profiles /\ t \in Tabs
  BY DEF Task
<1>2. s.tab[p][t] \in Tab /\ s.tab[p][t].queue \in Queue
  <2> HIDE DEF p, t
  <2> QED
    BY <1>1, SessionParts, TabParts
<1>3. queue \in Queue
  BY <1>2, EmptySeq DEF Queue
<1>4. stopped \in Tab /\ stopped.lent = s.tab[p][t].lent
  <2> HIDE DEF queue, p, t
  <2> QED
    BY <1>2, <1>3 DEF Tab
<1>5. lost = [s EXCEPT !.conn[p] = "Failed", !.tab[p][t] = stopped]
  <2> HIDE DEF p, t
  <2> QED
    BY <1>1, <1>2 DEF Session, Tab
<1>6. /\ lost \in Session /\ lost.tasks = s.tasks
      /\ \A q \in Profiles, u \in Tabs :
           lost.tab[q][u] = IF q = p /\ u = t THEN stopped ELSE s.tab[q][u]
  <2> HIDE DEF lost, stopped, p, t
  <2> QED
    BY <1>1, <1>4, <1>5 DEF Session, ConnStates
<1>7. Heard(s, task, outcome) = IF outcome = "Lost" THEN lost ELSE s
  BY DEF Heard
<1> HIDE DEF lost, stopped, p, t
<1> QED
  BY <1>4, <1>6, <1>7

LEMMA WrittenInType ==
  ASSUME NEW s \in Session, NEW task \in Task, NEW outcome,
         HasPlace(s.tab[task.profile][task.tab], task.lane, task.job.start)
  PROVE  /\ WrittenIn(s, task, outcome) \in Session
         /\ KindIn(s, task, outcome) \in Kinds
<1> DEFINE p == task.profile
           t == task.tab
           tb == s.tab[p][t]
           kind == KindOf(tb, task, outcome)
           written == Written(tb, task, kind)
           shown == IF kind = "Explained" THEN ShowSlot(written) ELSE written
<1>1. p \in Profiles /\ t \in Tabs
  BY DEF Task
<1>2. tb \in Tab
  <2> HIDE DEF p, t
  <2> QED
    BY <1>1, SessionParts
<1>3. kind \in Kinds
  BY KindOfType
<1>4. shown \in Tab
  <2>1. HasPlace(tb, task.lane, task.job.start)
    OBVIOUS
  <2>2. written \in Tab
    <3> HIDE DEF tb, kind
    <3> QED
      BY <1>2, <1>3, <2>1, WrittenType
  <2> HIDE DEF written, kind
  <2> QED
    BY <2>2, ShowSlotType
<1>5. [s EXCEPT !.tab[p][t] = shown] \in Session
  <2> HIDE DEF shown, p, t
  <2> QED
    BY <1>1, <1>4, TabReplaced
<1> QED
  BY <1>3, <1>5 DEF WrittenIn, KindIn

\* What the completion of a live run leads to.
LEMMA LandLiveForms ==
  ASSUME NEW s, NEW task, NEW outcome, NEW sets
  PROVE  LET heard == Heard(s, task, outcome)
             landed == WrittenIn(heard, task, outcome)
             kind == KindIn(heard, task, outcome)
             rest == IF kind = "Complete" THEN sets ELSE 1
         IN  LandLive(s, task, outcome, sets) =
               IF ~HasPlace(heard.tab[task.profile][task.tab], task.lane, task.job.start)
               THEN heard
               ELSE IF task.lane # NoRun
                    THEN LandLane(landed, task.profile, task.tab, task.job.start, rest)
               ELSE IF task.job.refresh = "None"
                    THEN IF front = NoProfile THEN landed
                         ELSE AdvanceQueue(landed, front, task.tab, rest)
               ELSE FollowUp(landed, task.profile, task.tab, task.job, kind # "Failed")
BY DEF LandLive, Heard, WrittenIn, KindIn

LEMMA LandLiveType ==
  ASSUME NEW s \in Session, NEW task \in Task, NEW outcome,
         NEW sets \in Nat \ {0}, front \in Profiles \cup {NoProfile}
  PROVE  LandLive(s, task, outcome, sets) \in Session
<1> DEFINE p == task.profile
           t == task.tab
           heard == Heard(s, task, outcome)
           landed == WrittenIn(heard, task, outcome)
           kind == KindIn(heard, task, outcome)
           rest == IF kind = "Complete" THEN sets ELSE 1
<1>1. /\ p \in Profiles /\ t \in Tabs /\ task.job \in Job /\ task.job.start \in Sent
      /\ heard \in Session /\ rest \in Nat \ {0}
  BY HeardType DEF Task, Job
<1>2. CASE ~HasPlace(heard.tab[p][t], task.lane, task.job.start)
  BY <1>1, <1>2, LandLiveForms
<1>3. CASE HasPlace(heard.tab[p][t], task.lane, task.job.start)
  <2>1. landed \in Session
    <3> HIDE DEF heard
    <3> QED
      BY <1>1, <1>3, WrittenInType
  <2>2. LandLane(landed, p, t, task.job.start, rest) \in Session
    <3> HIDE DEF landed, rest, p, t
    <3> QED
      BY <1>1, <2>1, LandLaneType
  <2>3. front # NoProfile => AdvanceQueue(landed, front, t, rest) \in Session
    <3> HIDE DEF landed, rest, t
    <3> QED
      BY <1>1, <2>1, AdvanceQueueType
  <2>4. FollowUp(landed, p, t, task.job, kind # "Failed") \in Session
    <3> HIDE DEF landed, kind, p, t
    <3> QED
      BY <1>1, <2>1, FollowUpType
  <2>5. LandLive(s, task, outcome, sets) =
          IF task.lane # NoRun THEN LandLane(landed, p, t, task.job.start, rest)
          ELSE IF task.job.refresh = "None"
               THEN IF front = NoProfile THEN landed ELSE AdvanceQueue(landed, front, t, rest)
          ELSE FollowUp(landed, p, t, task.job, kind # "Failed")
    BY <1>3, LandLiveForms
  <2> HIDE DEF landed, rest, kind, p, t
  <2> QED
    BY <2>1, <2>2, <2>3, <2>4, <2>5
<1> QED
  BY <1>2, <1>3

\* A lane leaves the tab's run to the others, or the run is over and a slot
\* that was lent comes back.
LEMMA DropStaleRunForms ==
  ASSUME NEW s \in Session, NEW task \in Task
  PROVE  \E tb \in Tab, queue \in Queue :
           \/ task.lane # NoRun /\ DropStaleRun(s, task) = s
           \/ /\ task.lane # NoRun
              /\ DropStaleRun(s, task) =
                   [s EXCEPT !.tab[task.profile][task.tab].queue = queue]
           \/ DropStaleRun(s, task) =
                [s EXCEPT !.tab[task.profile][task.tab] = GiveBack(tb)]
<1> DEFINE p == task.profile
           t == task.tab
           tb == s.tab[p][t]
           old == tb.queue.done
           kept == Kept(old, DOMAIN old \ (EntriesOf(old, task.job.start) \cup WaitingIn(old)))
           pruned == IF task.lane # NoRun THEN Clamped([tb.queue EXCEPT !.done = kept])
                                          ELSE tb.queue
           queue == IF pruned.awaiting
                    THEN Clamped([pruned EXCEPT !.awaiting = FALSE, !.remaining = <<>>])
                    ELSE pruned
           state == IF IsRunning(tb.state) THEN Ended("Idle") ELSE tb.state
           rows == [tb.rows EXCEPT ![tb.grid] = IF @.how = "arriving" THEN Empty ELSE @]
           idled == [tb EXCEPT !.queue = queue, !.state = state, !.rows = rows]
<1>1. p \in Profiles /\ t \in Tabs
  BY DEF Task
<1>2. tb \in Tab /\ tb.queue \in Queue
  <2> HIDE DEF p, t
  <2> QED
    BY <1>1, SessionParts, TabParts
<1>3. kept \in Seq(Finished)
  <2> HIDE DEF tb
  <2> QED
    BY <1>2, KeptType
<1>4. pruned \in Queue
  <2>1. [tb.queue EXCEPT !.done = kept] \in Queue
    <3> HIDE DEF tb, kept
    <3> QED
      BY <1>2, <1>3 DEF Queue
  <2> HIDE DEF tb, kept
  <2> QED
    BY <1>2, <2>1, ClampedType
<1>5. queue \in Queue
  <2> HIDE DEF pruned
  <2>1. [pruned EXCEPT !.awaiting = FALSE, !.remaining = <<>>] \in Queue
    BY <1>4, EmptySeq DEF Queue
  <2> QED
    BY <1>4, <2>1, ClampedType
<1>6. state \in State
  <2> HIDE DEF tb
  <2> QED
    BY <1>2, TabParts, EndedType DEF Kinds
<1>7. rows \in [Grids -> Rows]
  <2> HIDE DEF tb
  <2> QED
    BY <1>2, TabParts, EmptyType
<1>8. idled \in Tab
  <2> HIDE DEF tb, queue, state, rows
  <2> QED
    BY <1>2, <1>5, <1>6, <1>7 DEF Tab
<1>9. idled = [tb EXCEPT !.queue = queue, !.state = state,
                         !.rows[tb.grid] = IF @.how = "arriving" THEN Empty ELSE @]
  <2> HIDE DEF tb, queue, state
  <2> QED
    BY <1>2 DEF Tab
<1>10. DropStaleRun(s, task) =
         IF task.lane # NoRun /\ ~(IsRunning(tb.state) /\ tb.state.run = task.lane) THEN s
         ELSE IF task.lane # NoRun /\ \E i \in DOMAIN pruned.done :
                                        IsRunning(pruned.done[i].state)
         THEN [s EXCEPT !.tab[p][t].queue = pruned]
         ELSE [s EXCEPT !.tab[p][t] = GiveBack(
                [tb EXCEPT !.queue = queue, !.state = state,
                           !.rows[tb.grid] = IF @.how = "arriving" THEN Empty ELSE @])]
  BY Zenon DEF DropStaleRun
<1> HIDE DEF p, t, tb, pruned, queue, state, idled
<1>11. \/ task.lane # NoRun /\ DropStaleRun(s, task) = s
       \/ task.lane # NoRun /\ DropStaleRun(s, task) = [s EXCEPT !.tab[p][t].queue = pruned]
       \/ DropStaleRun(s, task) = [s EXCEPT !.tab[p][t] = GiveBack(idled)]
  BY <1>9, <1>10
<1> QED
  BY <1>4, <1>8, <1>11 DEF p, t

LEMMA DropStaleRunType ==
  ASSUME NEW s \in Session, NEW task \in Task
  PROVE  DropStaleRun(s, task) \in Session
<1> DEFINE p == task.profile
           t == task.tab
<1>1. p \in Profiles /\ t \in Tabs
  BY DEF Task
<1>2. PICK tb \in Tab, queue \in Queue :
        \/ task.lane # NoRun /\ DropStaleRun(s, task) = s
        \/ /\ task.lane # NoRun
           /\ DropStaleRun(s, task) = [s EXCEPT !.tab[p][t].queue = queue]
        \/ DropStaleRun(s, task) = [s EXCEPT !.tab[p][t] = GiveBack(tb)]
  BY Zenon, DropStaleRunForms
<1> HIDE DEF p, t
<1>3. [s EXCEPT !.tab[p][t].queue = queue] \in Session
  BY <1>1, QueueReplaced
<1>4. [s EXCEPT !.tab[p][t] = GiveBack(tb)] \in Session
  BY <1>1, GiveBackType, TabReplaced
<1> QED
  BY <1>2, <1>3, <1>4

LEMMA LandType ==
  ASSUME TypeOK, NEW task \in tasks, NEW outcome, NEW sets \in 1..MaxSets,
         Land(task, outcome, sets)
  PROVE  TypeOK'
<1> DEFINE s0 == [Now EXCEPT !.tasks = @ \ {task}]
           s == IF task.live THEN LandLive(s0, task, outcome, sets)
                             ELSE DropStaleRun(s0, task)
<1>1. task \in Task /\ sets \in Nat \ {0} /\ front \in Profiles \cup {NoProfile}
  BY SetsAssumption DEF TypeOK
<1>2. s0 \in Session
  BY NowType DEF Session
<1>3. s \in Session
  <2> HIDE DEF s0
  <2> QED
    BY <1>1, <1>2, LandLiveType, DropStaleRunType
<1>4. Becomes(s) /\ front' = front /\ active' = active
  BY DEF Land
<1> HIDE DEF s
<1> QED
  BY <1>3, <1>4, BecomesType DEF TypeOK

-----------------------------------------------------------------------------
(* The type invariant.                                                     *)

LEMMA InitType == Init => TypeOK
<1> SUFFICES ASSUME Init PROVE TypeOK
  OBVIOUS
<1>1. PICK g \in Grids : tab = [p \in Profiles |-> [t \in Tabs |-> NewTab(g)]]
  BY DEF Init
<1>2. NewTab(g) \in Tab
  <2>1. Ended("Idle") \in State
    BY EndedType DEF Kinds
  <2>2. [h \in Grids |-> Empty] \in [Grids -> Rows]
    BY EmptyType
  <2> QED
    BY <2>1, <2>2, NoQueueType DEF NewTab, Tab, Sent
<1> QED
  BY <1>1, <1>2 DEF Init, TypeOK, ConnStates

\* Every step of the workspace keeps its state in its type.
LEMMA NextType == TypeOK /\ [Next]_vars => TypeOK'
<1> SUFFICES ASSUME TypeOK, [Next]_vars PROVE TypeOK'
  OBVIOUS
<1>1. ASSUME NEW p \in Profiles, NEW t \in Tabs, Commands(p, t)
      PROVE  TypeOK'
  <2>1. ASSUME NEW start \in Statements, RunQuery(p, t, start) PROVE TypeOK'
    BY <2>1, RunQueryType
  <2>2. ASSUME NEW start \in Statements, ExplainQuery(p, t, start) PROVE TypeOK'
    BY <2>2, ExplainQueryType
  <2>3. ASSUME NEW selection \in Selections, RunStatements(p, t, selection)
        PROVE  TypeOK'
    BY <2>3, RunStatementsType
  <2>4. ASSUME NEW selection \in Selections, RunAtOnce(p, t, selection)
        PROVE  TypeOK'
    BY <2>4, RunAtOnceType
  <2>5. CASE RefuseRun(p, t)
    BY <2>5, RefuseRunType
  <2>6. CASE ReorderQuery(p, t)
    BY <2>6, ReorderQueryType
  <2>7. CASE RerunQueued(p, t)
    BY <2>7, RerunQueuedType
  <2>8. CASE ApplyEdits(p, t)
    BY <2>8, ApplyEditsType
  <2>9. CASE CancelQuery(p, t)
    BY <2>9, CancelQueryType
  <2>10. ASSUME NEW index \in 1..Len(tab[p][t].queue.done) + 1,
                ShowQueuedResult(p, t, index)
         PROVE  TypeOK'
    <3>1. tab[p][t].queue \in Queue
      BY TabParts DEF TypeOK
    <3>2. index \in Nat
      BY <3>1, QueueParts
    <3> QED
      BY <2>10, <3>2, ShowQueuedResultType
  <2>11. CASE ActivateTab(p, t)
    BY <2>11, ActivateTabType
  <2> QED
    BY <1>1, <2>1, <2>2, <2>3, <2>4, <2>5, <2>6, <2>7, <2>8, <2>9, <2>10, <2>11
    DEF Commands
<1>2. ASSUME NEW p \in Profiles, Answers(p)
      PROVE  TypeOK'
  BY <1>2, ApprovePendingRunType, CancelPendingRunType, StopQueueType,
     ContinueQueueType DEF Answers
<1>3. ASSUME NEW p \in Profiles, Connections(p)
      PROVE  TypeOK'
  BY <1>3, ActivateType, ReconnectType, DisconnectType, ConnectLandsType,
     SetDatabaseType DEF Connections
<1>4. ASSUME NEW task \in tasks, Pour(task)
      PROVE  TypeOK'
  BY <1>4, PourType
<1>5. ASSUME NEW task \in tasks, Lands(task)
      PROVE  TypeOK'
  BY <1>5, LandType DEF Lands
<1>6. CASE UNCHANGED vars
  BY <1>6 DEF vars, TypeOK
<1> QED
  BY <1>1, <1>2, <1>3, <1>4, <1>5, <1>6 DEF Next

\* Whatever the user does and however the statements come back, the workspace
\* is in a state its handlers can read: a slot always names a grid, a lent one
\* included, a queue holds statements of the buffer, a run has a token.
THEOREM TypeCorrect == Spec => []TypeOK
BY InitType, NextType, PTL DEF Spec

-----------------------------------------------------------------------------
(* What a tab can be on.                                                   *)

Own(s, p, t) == {u \in s.tasks : u.profile = p /\ u.tab = t}

\* What is left of a tab that is free are lanes of a connection that is gone.
Still(own) == \A u \in own : u.lane # NoRun /\ ~u.live

\* No tab of another connection can be taken for the one that a statement was
\* sent from: AdvanceQueue reads that of the profile in front.
Single == \A p, q \in Profiles : p = q

\* No result of the queue is still to come, where that can be said.
AllIn(queue) == Single => ~AtOnce(queue)

\* A tab on nothing.
IsFree(tb, own) == ~IsRunning(tb.state) /\ Still(own) /\ AllIn(tb.queue)

\* One statement is out, in the slot.
OnSlot(tb, own) ==
  /\ IsRunning(tb.state) /\ AllIn(tb.queue)
  /\ \E u \in own : u.lane = NoRun /\ u.id = tb.state.run /\ Still(own \ {u})

\* The entry a statement is looked up by.
IsFirst(done, i) == \A j \in DOMAIN done : done[j].start = done[i].start => i <= j

\* A lane has the entry of its statement, and that is waiting for it.
InEntry(done, u) ==
  \E i \in DOMAIN done :
    /\ IsFirst(done, i) /\ done[i].start = u.job.start
    /\ IsRunning(done[i].state) /\ done[i].state.run = u.id

\* What is out or waiting can be looked up, and what is out has its lane.
Backed(done, run, own) ==
  \A i \in DOMAIN done :
    /\ Out(done[i].state) => IsFirst(done, i)
    /\ IsRunning(done[i].state) =>
         \E u \in own : /\ u.id = done[i].state.run /\ u.lane = run
                        /\ u.job.start = done[i].start

\* The tab runs its queue at once...
Lanes(tb, own) ==
  /\ IsRunning(tb.state) /\ ~tb.queue.awaiting /\ tb.queue.remaining = <<>>
  /\ Backed(tb.queue.done, tb.state.run, own)
  /\ \A u \in own :
       /\ u.lane # NoRun
       /\ u.live => u.lane = tb.state.run /\ InEntry(tb.queue.done, u)

\* ... with a lane of it out.
OnLanes(tb, own) == Lanes(tb, own) /\ \E u \in own : u.lane = tb.state.run

\* A token is held by what runs only.
Bare(state) == ~IsRunning(state) => state.run = NoRun

AllBare(done) == \A i \in DOMAIN done : Bare(done[i].state)

Plainly(tb) == /\ Bare(tb.state) /\ AllBare(tb.queue.done)
               /\ ~IsRunning(tb.lent.state) /\ tb.lent.state.run = NoRun

\* One of the three, own being what is out of the tab.
Owned(tb, own) == Plainly(tb) /\ (IsFree(tb, own) \/ OnSlot(tb, own) \/ OnLanes(tb, own))

\* Tokens tell statements apart, and the statements of a run from it.
Ids(s) ==
  /\ \A u, v \in s.tasks : u.id = v.id => u = v
  /\ \A u, v \in s.tasks : u.lane # v.id
  /\ \A p \in Profiles, t \in Tabs : \A u \in s.tasks :
       u.id = s.tab[p][t].state.run => u.profile = p /\ u.tab = t /\ u.lane = NoRun
  /\ \A u, v \in s.tasks :
       (u.lane # NoRun /\ u.lane = v.lane /\ u.profile = v.profile /\ u.tab = v.tab)
         => u.live = v.live

\* Which is so of every tab of a session but those being written.
Accounted(s, out) ==
  /\ Ids(s)
  /\ \A p \in Profiles, t \in Tabs :
       <<p, t>> \notin out => Owned(s.tab[p][t], Own(s, p, t))

-----------------------------------------------------------------------------
(* Tokens.                                                                 *)

\* A token is free when nothing out, and no slot, has it.
LEMMA FreeMeans ==
  ASSUME NEW s, NEW r
  PROVE  r \in FreeRuns(s) <=>
           /\ r \in Runs
           /\ \A u \in s.tasks : u.id # r /\ u.lane # r
           /\ \A p \in Profiles, t \in Tabs :
                s.tab[p][t].state.run # r /\ s.tab[p][t].lent.state.run # r
<1> DEFINE out == UNION {{task.id, task.lane} : task \in s.tasks}
           shown == UNION {TabRuns(s.tab[p][t]) : p \in Profiles, t \in Tabs}
<1>1. r \in out <=> \E u \in s.tasks : r = u.id \/ r = u.lane
  OBVIOUS
<1>2. r \in shown <=> \E p \in Profiles, t \in Tabs : r \in TabRuns(s.tab[p][t])
  OBVIOUS
<1>3. \A p \in Profiles, t \in Tabs :
        r \in TabRuns(s.tab[p][t]) <=>
          r = s.tab[p][t].state.run \/ r = s.tab[p][t].lent.state.run
  BY DEF TabRuns
<1>4. r \in FreeRuns(s) <=> r \in Runs /\ r \notin out /\ r \notin shown
  BY DEF FreeRuns, RunsInUse
<1> HIDE DEF out, shown
<1> QED
  BY <1>1, <1>2, <1>3, <1>4

\* Tokens picked are free, and differ.
LEMMA FreshRunsFree ==
  ASSUME NEW s, NEW n \in Nat, Cardinality(FreeRuns(s)) >= n
  PROVE  FreshRuns(s, n) \in Injection(1..n, FreeRuns(s))
<1> DEFINE free == FreeRuns(s)
<1>1. free \in SUBSET Runs /\ IsFiniteSet(free)
  BY RunsAssumption, FS_Subset DEF FreeRuns
<1>2. PICK f : f \in Injection(1..n, free)
  BY <1>1, InjectionFits
<1>3. f \in [1..n -> Runs]
  BY <1>1, <1>2 DEF Injection
<1>4. FreshRuns(s, n) = CHOOSE g \in [1..n -> Runs] : Cardinality(free) >= n => g \in Injection(1..n, free)
  BY DEF FreshRuns
<1>5. Cardinality(free) >= n
  OBVIOUS
<1> HIDE DEF free
<1>6. FreshRuns(s, n) \in Injection(1..n, free)
  BY <1>2, <1>3, <1>4, <1>5
<1> QED
  BY <1>6 DEF free

LEMMA FreshRunFree ==
  ASSUME NEW s, FreeRuns(s) # {}
  PROVE  FreshRun(s) \in FreeRuns(s)
<1>1. IsFiniteSet(FreeRuns(s)) /\ Cardinality(FreeRuns(s)) \in Nat
  BY RunsAssumption, FS_Subset, FS_CardinalityType DEF FreeRuns
<1>2. Cardinality(FreeRuns(s)) >= 1
  BY <1>1, FS_EmptySet
<1>3. FreshRuns(s, 1) \in Injection(1..1, FreeRuns(s))
  BY <1>2, FreshRunsFree
<1> QED
  BY <1>3 DEF FreshRun, Injection

LEMMA RoomFree ==
  ASSUME NEW s, NEW m \in Nat, m >= 1, Cardinality(FreeRuns(s)) >= m
  PROVE  FreeRuns(s) # {}
BY FS_EmptySet

-----------------------------------------------------------------------------
(* Sessions.                                                               *)

LEMMA TaskParts ==
  ASSUME NEW s \in Session, NEW u \in s.tasks
  PROVE  /\ u.id \in Runs /\ u.id # NoRun /\ u.lane \in Runs \cup {NoRun}
         /\ u.live \in BOOLEAN /\ u.job \in Job /\ u.job.start \in Sent
         /\ u.profile \in Profiles /\ u.tab \in Tabs
BY RunsAssumption DEF Session, Task, Job, NoRun

\* A tab replaced by one on the same run, or on none.
LEMMA TabAccounted ==
  ASSUME NEW s \in Session, NEW p \in Profiles, NEW t \in Tabs, NEW tb,
         Accounted(s, {<<p, t>>}) \/ Accounted(s, {}),
         tb.state.run = s.tab[p][t].state.run \/ tb.state.run = NoRun,
         Owned(tb, Own(s, p, t))
  PROVE  Accounted([s EXCEPT !.tab[p][t] = tb], {})
<1> DEFINE r == [s EXCEPT !.tab[p][t] = tb]
<1>1. \A q \in Profiles, u \in Tabs :
        r.tab[q][u] = IF q = p /\ u = t THEN tb ELSE s.tab[q][u]
  BY DEF Session
<1>2. r.tasks = s.tasks
  BY DEF Session
<1>3. \A u \in s.tasks : u.id # NoRun
  BY TaskParts
<1> HIDE DEF r
<1>4. Ids(r)
  BY <1>1, <1>2, <1>3 DEF Accounted, Ids
<1>5. \A q \in Profiles, u \in Tabs : Owned(r.tab[q][u], Own(r, q, u))
  <2>1. SUFFICES ASSUME NEW q \in Profiles, NEW u \in Tabs
                 PROVE  Owned(r.tab[q][u], Own(r, q, u))
    OBVIOUS
  <2>2. Own(r, q, u) = Own(s, q, u)
    BY <1>2 DEF Own
  <2>3. CASE q = p /\ u = t
    BY <1>1, <2>2, <2>3
  <2>4. CASE ~(q = p /\ u = t)
    BY <1>1, <2>2, <2>4 DEF Accounted
  <2> QED
    BY <2>3, <2>4
<1>6. Accounted(r, {})
  BY <1>4, <1>5 DEF Accounted
<1> QED
  BY <1>6 DEF r

\* Sessions told apart by nothing accounted for.
LEMMA SameAccounted ==
  ASSUME NEW s, NEW r, NEW out, Accounted(s, out), r.tab = s.tab, r.tasks = s.tasks
  PROVE  Accounted(r, out) /\ FreeRuns(r) = FreeRuns(s)
BY DEF Accounted, Ids, Own, FreeRuns, RunsInUse

\* A tab replaced by one with the same tokens leaves as many free.
LEMMA SameFree ==
  ASSUME NEW s \in Session, NEW p \in Profiles, NEW t \in Tabs, NEW tb,
         tb.state.run = s.tab[p][t].state.run \/ tb.state.run = NoRun,
         tb.lent.state.run = s.tab[p][t].lent.state.run \/ tb.lent.state.run = NoRun
  PROVE  FreeRuns(s) \subseteq FreeRuns([s EXCEPT !.tab[p][t] = tb])
<1> DEFINE r == [s EXCEPT !.tab[p][t] = tb]
<1>1. \A q \in Profiles, u \in Tabs :
        r.tab[q][u] = IF q = p /\ u = t THEN tb ELSE s.tab[q][u]
  BY DEF Session
<1>2. r.tasks = s.tasks
  BY DEF Session
<1> HIDE DEF r
<1>3. \A x \in FreeRuns(s) : x \in FreeRuns(r)
  <2>1. SUFFICES ASSUME NEW x \in FreeRuns(s) PROVE x \in FreeRuns(r)
    OBVIOUS
  <2>2. x # NoRun /\ x \in Runs
    BY RunsAssumption, FreeMeans DEF NoRun
  <2>3. \A q \in Profiles, u \in Tabs :
          r.tab[q][u].state.run # x /\ r.tab[q][u].lent.state.run # x
    <3>1. \A q \in Profiles, u \in Tabs :
            s.tab[q][u].state.run # x /\ s.tab[q][u].lent.state.run # x
      BY FreeMeans
    <3>2. tb.state.run # x /\ tb.lent.state.run # x
      BY <2>2, <3>1
    <3>3. SUFFICES ASSUME NEW q \in Profiles, NEW u \in Tabs
                   PROVE  r.tab[q][u].state.run # x /\ r.tab[q][u].lent.state.run # x
      OBVIOUS
    <3>4. r.tab[q][u] = tb \/ r.tab[q][u] = s.tab[q][u]
      BY <1>1
    <3> QED
      BY <3>1, <3>2, <3>4
  <2> QED
    BY <1>2, <2>2, <2>3, FreeMeans
<1> QED
  BY <1>3 DEF r

-----------------------------------------------------------------------------
(* Results and where they are.                                             *)

\* A lane is looked up by the first entry of its statement.
LEMMA LaneIsFirst ==
  ASSUME NEW queue \in Queue, NEW start
  PROVE  /\ Lane(queue, start) # 0 => /\ Lane(queue, start) \in DOMAIN queue.done
                                      /\ IsFirst(queue.done, Lane(queue, start))
                                      /\ queue.done[Lane(queue, start)].start = start
         /\ \A i \in DOMAIN queue.done :
              IsFirst(queue.done, i) /\ queue.done[i].start = start => Lane(queue, start) = i
<1> DEFINE at == EntriesOf(queue.done, start)
<1>1. at \in SUBSET DOMAIN queue.done
  BY DEF EntriesOf
<1>2. at \in SUBSET Nat /\ IsFiniteSet(at)
  <2> HIDE DEF at
  <2> QED
    BY <1>1, Positions
<1>3. Lane(queue, start) = IF at = {} THEN 0 ELSE Min(at)
  BY DEF Lane
<1>4. at # {} => Min(at) \in at /\ \A j \in at : Min(at) <= j
  <2> HIDE DEF at
  <2> QED
    BY <1>2, MinMember
<1>5. \A i : i \in at <=> i \in DOMAIN queue.done /\ queue.done[i].start = start
  BY DEF EntriesOf
<1> HIDE DEF at
<1>6. Lane(queue, start) # 0 => Lane(queue, start) \in at /\ \A j \in at : Lane(queue, start) <= j
  BY <1>3, <1>4
<1>7. Lane(queue, start) # 0 => /\ Lane(queue, start) \in DOMAIN queue.done
                                /\ IsFirst(queue.done, Lane(queue, start))
                                /\ queue.done[Lane(queue, start)].start = start
  BY <1>5, <1>6 DEF IsFirst
<1>8. ASSUME NEW i \in DOMAIN queue.done, IsFirst(queue.done, i), queue.done[i].start = start
      PROVE  Lane(queue, start) = i
  <2>1. i \in at /\ Lane(queue, start) = Min(at) /\ Min(at) \in at /\ Min(at) <= i
    BY <1>3, <1>4, <1>5, <1>8
  <2>2. i <= Lane(queue, start) /\ Lane(queue, start) <= i
    BY <1>5, <1>8, <2>1 DEF IsFirst
  <2>3. i \in Nat /\ Lane(queue, start) \in Nat
    BY <1>2, <2>1
  <2> QED
    BY <2>2, <2>3
<1> QED
  BY <1>7, <1>8

\* Results taken out of done, or marked, leave what is out as it was.
LEMMA Thinned ==
  ASSUME NEW done, NEW left, DOMAIN done \in SUBSET Nat, DOMAIN left \in SUBSET Nat,
         NEW m \in [DOMAIN left -> DOMAIN done],
         \A k, l \in DOMAIN left : k < l => m[k] < m[l],
         \A k \in DOMAIN left : /\ left[k].start = done[m[k]].start
                                /\ left[k].state.kind = done[m[k]].state.kind
                                /\ left[k].state.run = done[m[k]].state.run
  PROVE  /\ \A run, own : Backed(done, run, own) => Backed(left, run, own)
         /\ \A u : /\ InEntry(done, u)
                   /\ \A i \in DOMAIN done :
                        IsRunning(done[i].state) /\ done[i].start = u.job.start =>
                          \E k \in DOMAIN left : m[k] = i
                   => InEntry(left, u)
         /\ AllBare(done) => AllBare(left)
<1>1. \A k \in DOMAIN left :
        /\ m[k] \in DOMAIN done
        /\ Out(left[k].state) <=> Out(done[m[k]].state)
        /\ IsRunning(left[k].state) <=> IsRunning(done[m[k]].state)
  BY DEF Out, IsRunning
<1>2. ASSUME NEW k \in DOMAIN left, IsFirst(done, m[k])
      PROVE  IsFirst(left, k)
  <2>1. SUFFICES ASSUME NEW j \in DOMAIN left, left[j].start = left[k].start
                 PROVE  k <= j
    BY DEF IsFirst
  <2>2. m[k] <= m[j] /\ m[j] \in Nat /\ m[k] \in Nat
    BY <1>1, <1>2, <2>1 DEF IsFirst
  <2>3. ~(j < k)
    BY <2>2
  <2> QED
    BY <2>3
<1>3. ASSUME NEW run, NEW own, Backed(done, run, own)
      PROVE  Backed(left, run, own)
  <2>1. SUFFICES ASSUME NEW k \in DOMAIN left
                 PROVE  /\ Out(left[k].state) => IsFirst(left, k)
                        /\ IsRunning(left[k].state) =>
                             \E u \in own : /\ u.id = left[k].state.run /\ u.lane = run
                                            /\ u.job.start = left[k].start
    BY DEF Backed
  <2>2. Out(left[k].state) => IsFirst(left, k)
    BY <1>1, <1>2, <1>3 DEF Backed
  <2>3. IsRunning(left[k].state) =>
          \E u \in own : /\ u.id = left[k].state.run /\ u.lane = run
                         /\ u.job.start = left[k].start
    BY <1>1, <1>3 DEF Backed
  <2> QED
    BY <2>2, <2>3
<1>4. ASSUME NEW u, InEntry(done, u),
             \A i \in DOMAIN done :
               IsRunning(done[i].state) /\ done[i].start = u.job.start =>
                 \E k \in DOMAIN left : m[k] = i
      PROVE  InEntry(left, u)
  <2>1. PICK i \in DOMAIN done : /\ IsFirst(done, i) /\ done[i].start = u.job.start
                                 /\ IsRunning(done[i].state) /\ done[i].state.run = u.id
    BY <1>4 DEF InEntry
  <2>2. PICK k \in DOMAIN left : m[k] = i
    BY <1>4, <2>1
  <2>3. IsFirst(left, k)
    BY <1>2, <2>1, <2>2
  <2>4. /\ left[k].start = u.job.start /\ IsRunning(left[k].state) /\ left[k].state.run = u.id
    BY <1>1, <2>1, <2>2
  <2> QED
    BY <2>3, <2>4 DEF InEntry
<1>5. AllBare(done) => AllBare(left)
  BY <1>1 DEF AllBare, Bare
<1> QED
  BY <1>3, <1>4, <1>5

\* The positions kept are taken in order, and all of them.
LEMMA NthRises ==
  ASSUME NEW at \in SUBSET Nat, IsFiniteSet(at)
  PROVE  /\ \A k, l \in 1..Cardinality(at) : k < l => Nth(at, k) < Nth(at, l)
         /\ \A i \in at : \E k \in 1..Cardinality(at) : Nth(at, k) = i
<1> DEFINE below(i) == {j \in at : j < i}
<1>1. /\ Cardinality(at) \in Nat
      /\ \A i \in Nat : /\ IsFiniteSet(below(i)) /\ Cardinality(below(i)) \in Nat
                        /\ below(i) \subseteq at
  <2>1. \A i \in Nat : below(i) \subseteq at
    OBVIOUS
  <2>2. \A i \in Nat : IsFiniteSet(below(i))
    <3>1. SUFFICES ASSUME NEW i \in Nat PROVE IsFiniteSet(below(i))
      OBVIOUS
    <3> QED
      BY <2>1, FS_Subset
  <2> HIDE DEF below
  <2> QED
    BY <2>1, <2>2, FS_CardinalityType
<1>2. \A k \in 1..Cardinality(at) : Nth(at, k) \in at /\ Cardinality(below(Nth(at, k))) = k - 1
  BY NthMember
<1>3. ASSUME NEW i \in at, NEW j \in at, i < j
      PROVE  Cardinality(below(i)) < Cardinality(below(j))
  <2>1. below(i) \subseteq below(j) /\ i \in below(j) /\ i \notin below(i)
    <3>1. i \in Nat /\ j \in Nat /\ ~(i < i)
      BY <1>3
    <3>2. \A k \in at : k \in Nat /\ (k < i => k < j)
      BY <1>3, <3>1
    <3> QED
      BY <1>3, <3>1, <3>2
  <2> HIDE DEF below
  <2>2. i \in Nat /\ j \in Nat
    BY <1>3
  <2> DEFINE a == below(i)
             b == below(j)
  <2>3. IsFiniteSet(b) /\ a \in SUBSET b /\ a # b
    BY <1>1, <2>1, <2>2
  <2>4. Cardinality(a) \in Nat /\ Cardinality(b) \in Nat
    BY <1>1, <2>2
  <2> HIDE DEF a, b
  <2>5. Cardinality(a) <= Cardinality(b) /\ Cardinality(a) # Cardinality(b)
    BY <2>3, FS_Subset
  <2>6. Cardinality(a) < Cardinality(b)
    BY <2>4, <2>5
  <2> QED
    BY <2>6 DEF a, b
<1>4. ASSUME NEW k \in 1..Cardinality(at), NEW l \in 1..Cardinality(at), k < l
      PROVE  Nth(at, k) < Nth(at, l)
  <2> HIDE DEF below
  <2>1. /\ Nth(at, k) \in at /\ Nth(at, l) \in at
        /\ Cardinality(below(Nth(at, k))) = k - 1 /\ Cardinality(below(Nth(at, l))) = l - 1
    BY <1>2
  <2>2. PICK i, j : i = Nth(at, k) /\ j = Nth(at, l)
    OBVIOUS
  <2>3. i \in Nat /\ j \in Nat /\ k \in Nat /\ l \in Nat /\ k - 1 < l - 1
    <3>1. \A a, b \in 1..Cardinality(at) : a < b => a \in Nat /\ b \in Nat /\ a - 1 < b - 1
      BY <1>1
    <3> QED
      BY <1>4, <2>1, <2>2, <3>1
  <2>4. ~(j < i)
    <3>1. ASSUME j < i PROVE FALSE
      <4>1. Cardinality(below(j)) < Cardinality(below(i))
        BY <1>3, <2>1, <2>2, <3>1
      <4>2. l - 1 < k - 1
        BY <2>1, <2>2, <4>1
      <4> QED
        BY <2>3, <4>2
    <3> QED
      BY <3>1
  <2>5. i # j
    <3>1. ASSUME i = j PROVE FALSE
      <4>1. k - 1 = l - 1
        BY <2>1, <2>2, <3>1
      <4> QED
        BY <2>3, <4>1
    <3> QED
      BY <3>1
  <2>6. i < j
    BY <2>3, <2>4, <2>5
  <2> QED
    BY <2>2, <2>6
<1>5. ASSUME NEW i \in at
      PROVE  \E k \in 1..Cardinality(at) : Nth(at, k) = i
  <2>1. below(i) \subseteq at /\ i \notin below(i)
    OBVIOUS
  <2> DEFINE a == below(i)
             c == Cardinality(a)
  <2>2. i \in Nat /\ IsFiniteSet(a) /\ c \in Nat /\ a \in SUBSET at /\ a # at
    BY <1>1, <1>5, <2>1
  <2>3. c < Cardinality(at)
    <3> HIDE DEF a
    <3>1. c <= Cardinality(at) /\ c # Cardinality(at)
      BY <2>2, FS_Subset
    <3> HIDE DEF c
    <3> QED
      BY <1>1, <2>2, <3>1
  <2>4. PICK k \in 1..Cardinality(at) : k - 1 = c
    <3> HIDE DEF c
    <3>1. c + 1 \in 1..Cardinality(at) /\ (c + 1) - 1 = c
      BY <1>1, <2>2, <2>3
    <3> QED
      BY <3>1
  <2>5. PICK j : j = Nth(at, k)
    OBVIOUS
  <2>6. j \in at /\ j \in Nat /\ Cardinality(below(j)) = Cardinality(below(i))
    BY <1>2, <2>4, <2>5
  <2>7. Cardinality(below(i)) \in Nat /\ ~(Cardinality(below(i)) < Cardinality(below(i)))
    BY <1>1, <2>2
  <2> HIDE DEF below, a, c
  <2>8. ~(j < i) /\ ~(i < j)
    BY <1>3, <1>5, <2>6, <2>7
  <2>9. j = i
    BY <2>2, <2>6, <2>8
  <2> QED
    BY <2>5, <2>9
<1> QED
  BY <1>4, <1>5

\* Kept does so.
LEMMA KeptThins ==
  ASSUME NEW queue \in Queue, NEW at \in SUBSET DOMAIN queue.done
  PROVE  LET left == Kept(queue.done, at)
         IN  /\ \A run, own : Backed(queue.done, run, own) => Backed(left, run, own)
             /\ \A u : /\ InEntry(queue.done, u)
                       /\ \A i \in DOMAIN queue.done :
                            IsRunning(queue.done[i].state) /\ queue.done[i].start = u.job.start
                              => i \in at
                       => InEntry(left, u)
             /\ AllBare(queue.done) => AllBare(left)
             /\ \A k \in DOMAIN left : \E i \in at : left[k] = queue.done[i]
             /\ \A i \in at : \E k \in DOMAIN left : left[k] = queue.done[i]
<1> DEFINE done == queue.done
           left == Kept(done, at)
           m == [k \in 1..Cardinality(at) |-> Nth(at, k)]
<1>1. at \in SUBSET Nat /\ IsFiniteSet(at) /\ Cardinality(at) \in Nat
  BY Positions, FS_CardinalityType
<1>2. \A k \in 1..Cardinality(at) : Nth(at, k) \in at
  BY <1>1, NthMember
<1>3. DOMAIN left = 1..Cardinality(at) /\ \A k \in DOMAIN left : left[k] = done[m[k]]
  BY DEF Kept
<1>4. m \in [DOMAIN left -> DOMAIN done]
  BY <1>2, <1>3
<1>5. \A k, l \in DOMAIN left : k < l => m[k] < m[l]
  BY <1>1, <1>3, NthRises
<1>6. \A i \in at : \E k \in DOMAIN left : m[k] = i
  BY <1>1, <1>3, NthRises
<1>7. DOMAIN done \in SUBSET Nat /\ DOMAIN left \in SUBSET Nat
  BY <1>3, QueueParts
<1>8. \A k \in DOMAIN left : m[k] \in at
  BY <1>2, <1>3
<1> HIDE DEF left, m, done
<1>9. /\ \A run, own : Backed(done, run, own) => Backed(left, run, own)
      /\ \A u : /\ InEntry(done, u)
                /\ \A i \in DOMAIN done :
                     IsRunning(done[i].state) /\ done[i].start = u.job.start =>
                       \E k \in DOMAIN left : m[k] = i
                => InEntry(left, u)
      /\ AllBare(done) => AllBare(left)
  BY <1>3, <1>4, <1>5, <1>7, Thinned
<1>10. \A u : /\ InEntry(done, u)
              /\ \A i \in DOMAIN done :
                   IsRunning(done[i].state) /\ done[i].start = u.job.start => i \in at
              => InEntry(left, u)
  BY <1>6, <1>9
<1>11. /\ \A k \in DOMAIN left : \E i \in at : left[k] = done[i]
       /\ \A i \in at : \E k \in DOMAIN left : left[k] = done[i]
  BY <1>3, <1>6, <1>8
<1> QED
  BY <1>9, <1>10, <1>11 DEF left, done

\* Results put in beside a statement's own.
LEMMA BesidesParts ==
  ASSUME NEW S, NEW done \in Seq(S), NEW further \in Seq(S), NEW at \in 1..Len(done) + 1
  PROVE  LET all == Besides(done, at, further)
         IN  /\ all \in Seq(S) /\ Len(all) = Len(done) + Len(further)
             /\ \A k \in 1..Len(all) : k < at => k \in 1..Len(done) /\ all[k] = done[k]
             /\ \A k \in 1..Len(all) : at <= k /\ k < at + Len(further) =>
                  k - at + 1 \in 1..Len(further) /\ all[k] = further[k - at + 1]
             /\ \A k \in 1..Len(all) : at + Len(further) <= k =>
                  k - Len(further) \in 1..Len(done) /\ all[k] = done[k - Len(further)]
<1>1. Len(done) \in Nat /\ Len(further) \in Nat /\ at \in Nat
  BY LenProperties
<1> DEFINE a == SubSeq(done, 1, at - 1)
           c == SubSeq(done, at, Len(done))
<1>2. a \in Seq(S) /\ Len(a) = at - 1 /\ \A k \in 1..at - 1 : a[k] = done[k]
  <2>1. \A k \in 1..at - 1 : done[k] \in S
    BY <1>1, ElementOfSeq
  <2>2. 1..at - 1 \subseteq 1..Len(done)
    BY <1>1
  <2> QED
    BY <1>1, <2>1, <2>2, SubSeqProperties
<1>3. c \in Seq(S) /\ Len(c) = Len(done) - at + 1
      /\ \A k \in 1..Len(done) - at + 1 : c[k] = done[at + k - 1]
  <2>1. \A k \in at..Len(done) : done[k] \in S
    BY <1>1, ElementOfSeq
  <2> QED
    BY <1>1, <2>1, SubSeqProperties
<1> HIDE DEF a, c
<1> DEFINE b == a \o further
<1>4. b \in Seq(S) /\ Len(b) = at - 1 + Len(further)
      /\ \A k \in 1..at - 1 + Len(further) :
           b[k] = IF k <= at - 1 THEN a[k] ELSE further[k - (at - 1)]
  <2>1. /\ b \in Seq(S) /\ Len(b) = Len(a) + Len(further)
        /\ \A k \in 1..Len(a) + Len(further) :
             b[k] = IF k <= Len(a) THEN a[k] ELSE further[k - Len(a)]
    BY <1>2, ConcatProperties
  <2> QED
    BY <1>2, <2>1
<1>5. b \o c \in Seq(S) /\ Len(b \o c) = Len(done) + Len(further)
      /\ \A k \in 1..Len(done) + Len(further) :
           (b \o c)[k] = IF k <= at - 1 + Len(further) THEN b[k] ELSE c[k - (at - 1 + Len(further))]
  <2> HIDE DEF b
  <2>1. /\ b \o c \in Seq(S) /\ Len(b \o c) = Len(b) + Len(c)
        /\ \A k \in 1..Len(b) + Len(c) :
             (b \o c)[k] = IF k <= Len(b) THEN b[k] ELSE c[k - Len(b)]
    BY <1>3, <1>4, ConcatProperties
  <2>2. Len(b) + Len(c) = Len(done) + Len(further)
    BY <1>1, <1>3, <1>4
  <2> QED
    BY <1>4, <2>1, <2>2
<1>6. Besides(done, at, further) = b \o c
  BY DEF Besides, a, b, c
<1> HIDE DEF b
<1> DEFINE all == b \o c
<1> HIDE DEF all
<1>7. /\ all \in Seq(S) /\ Len(all) = Len(done) + Len(further)
      /\ \A k \in 1..Len(all) : all[k] = IF k <= at - 1 + Len(further) THEN b[k] ELSE c[k - (at - 1 + Len(further))]
  BY <1>5 DEF all
<1>8. \A k \in 1..Len(all) : k < at => k \in 1..Len(done) /\ all[k] = done[k]
  <2>1. SUFFICES ASSUME NEW k \in 1..Len(all), k < at
                 PROVE  k \in 1..Len(done) /\ all[k] = done[k]
    OBVIOUS
  <2>2. /\ k \in 1..Len(done) /\ k \in 1..at - 1 /\ k \in 1..at - 1 + Len(further)
        /\ k <= at - 1 /\ k <= at - 1 + Len(further)
    BY <1>1, <1>7, <2>1
  <2>3. all[k] = b[k] /\ b[k] = a[k] /\ a[k] = done[k]
    BY <1>2, <1>4, <1>7, <2>2
  <2> QED
    BY <2>2, <2>3
<1>9. \A k \in 1..Len(all) : at <= k /\ k < at + Len(further) =>
        k - at + 1 \in 1..Len(further) /\ all[k] = further[k - at + 1]
  <2>1. SUFFICES ASSUME NEW k \in 1..Len(all), at <= k, k < at + Len(further)
                 PROVE  k - at + 1 \in 1..Len(further) /\ all[k] = further[k - at + 1]
    OBVIOUS
  <2>2. k - (at - 1) = k - at + 1 /\ k - at + 1 \in 1..Len(further)
    BY <1>1, <1>7, <2>1
  <2>3. all[k] = b[k] /\ b[k] = further[k - (at - 1)]
    BY <1>1, <1>4, <1>7, <2>1
  <2> QED
    BY <2>2, <2>3
<1>10. \A k \in 1..Len(all) : at + Len(further) <= k =>
         k - Len(further) \in 1..Len(done) /\ all[k] = done[k - Len(further)]
  <2>1. SUFFICES ASSUME NEW k \in 1..Len(all), at + Len(further) <= k
                 PROVE  k - Len(further) \in 1..Len(done) /\ all[k] = done[k - Len(further)]
    OBVIOUS
  <2> DEFINE i == k - (at - 1 + Len(further))
  <2>2. i \in 1..Len(done) - at + 1 /\ at + i - 1 = k - Len(further)
        /\ k - Len(further) \in 1..Len(done)
    BY <1>1, <1>7, <2>1
  <2>3. all[k] = c[i]
    BY <1>1, <1>7, <2>1
  <2> HIDE DEF i
  <2>4. c[i] = done[at + i - 1]
    BY <1>3, <2>2
  <2> QED
    BY <2>2, <2>3, <2>4
<1> QED
  BY <1>6, <1>7, <1>8, <1>9, <1>10 DEF all

-----------------------------------------------------------------------------
(* Tabs.                                                                   *)

Alike(a, b) == a.kind = b.kind /\ a.run = b.run

\* A tab written with what it is on left alone.
LEMMA QuietTab ==
  ASSUME NEW tb, NEW own, NEW new, Owned(tb, own),
         Alike(tb.state, new.state), new.lent = tb.lent, AllBare(new.queue.done),
         AllIn(tb.queue) => AllIn(new.queue), Lanes(tb, own) => Lanes(new, own)
  PROVE  Owned(new, own)
<1>1. /\ IsRunning(new.state) <=> IsRunning(tb.state)
      /\ new.state.run = tb.state.run
      /\ Bare(tb.state) => Bare(new.state)
  BY DEF Alike, IsRunning, Bare
<1>2. Plainly(new)
  BY <1>1 DEF Owned, Plainly
<1>3. IsFree(tb, own) => IsFree(new, own)
  BY <1>1 DEF IsFree
<1>4. OnSlot(tb, own) => OnSlot(new, own)
  BY <1>1 DEF OnSlot
<1>5. OnLanes(tb, own) => OnLanes(new, own)
  BY <1>1 DEF OnLanes
<1> QED
  BY <1>2, <1>3, <1>4, <1>5 DEF Owned

\* A tab with its results marked, each of them still in the same run.
LEMMA MarkedTab ==
  ASSUME NEW tb, NEW own, NEW new, Owned(tb, own),
         Alike(tb.state, new.state), new.lent = tb.lent,
         new.queue.awaiting = tb.queue.awaiting, new.queue.remaining = tb.queue.remaining,
         DOMAIN new.queue.done = DOMAIN tb.queue.done,
         DOMAIN tb.queue.done \in SUBSET Nat,
         \A i \in DOMAIN tb.queue.done :
           /\ new.queue.done[i].start = tb.queue.done[i].start
           /\ Alike(tb.queue.done[i].state, new.queue.done[i].state)
  PROVE  Owned(new, own)
<1> DEFINE done == tb.queue.done
           left == new.queue.done
           m == [i \in DOMAIN left |-> i]
<1>1. /\ DOMAIN done \in SUBSET Nat /\ DOMAIN left \in SUBSET Nat
      /\ m \in [DOMAIN left -> DOMAIN done]
      /\ \A k, l \in DOMAIN left : k < l => m[k] < m[l]
      /\ \A k \in DOMAIN left : m[k] = k
  OBVIOUS
<1>2. \A k \in DOMAIN left : /\ left[k].start = done[m[k]].start
                             /\ left[k].state.kind = done[m[k]].state.kind
                             /\ left[k].state.run = done[m[k]].state.run
  BY DEF Alike
<1>3. DOMAIN left = DOMAIN done
  OBVIOUS
<1> HIDE DEF m, done, left
<1>4. /\ \A run, all : Backed(done, run, all) => Backed(left, run, all)
      /\ \A u : /\ InEntry(done, u)
                /\ \A i \in DOMAIN done :
                     IsRunning(done[i].state) /\ done[i].start = u.job.start =>
                       \E k \in DOMAIN left : m[k] = i
                => InEntry(left, u)
      /\ AllBare(done) => AllBare(left)
  BY <1>1, <1>2, Thinned
<1>5. \A i \in DOMAIN done : \E k \in DOMAIN left : m[k] = i
  BY <1>1, <1>3
<1>6. \A u : InEntry(done, u) => InEntry(left, u)
  BY <1>4, <1>5
<1>7. AllBare(left)
  BY <1>4 DEF Owned, Plainly, done
<1>8. Lanes(tb, own) => Lanes(new, own)
  <2>1. /\ IsRunning(new.state) <=> IsRunning(tb.state)
        /\ new.state.run = tb.state.run
    BY DEF Alike, IsRunning
  <2>2. /\ Backed(tb.queue.done, tb.state.run, own) => Backed(new.queue.done, new.state.run, own)
        /\ \A u : InEntry(tb.queue.done, u) => InEntry(new.queue.done, u)
    BY <1>4, <1>6, <2>1 DEF done, left
  <2> QED
    BY <2>1, <2>2 DEF Lanes
<1>9. AllIn(tb.queue) => AllIn(new.queue)
  BY DEF AllIn, AtOnce, Alike, Out
<1> QED
  BY <1>7, <1>8, <1>9, QuietTab DEF left

\* A queue with nothing out or waiting has no lane of it left.
LEMMA NothingOut ==
  ASSUME NEW tb, NEW own, Lanes(tb, own), ~AtOnce(tb.queue)
  PROVE  Still(own)
BY DEF Lanes, InEntry, AtOnce, Out, IsRunning, Still

\* A queue with nothing waiting, and something of it out, has a lane of it left.
LEMMA SomethingOut ==
  ASSUME NEW tb, NEW own, Lanes(tb, own), AtOnce(tb.queue), WaitingIn(tb.queue.done) = {}
  PROVE  OnLanes(tb, own)
<1>1. PICK i \in DOMAIN tb.queue.done : Out(tb.queue.done[i].state)
  BY DEF AtOnce
<1>2. IsRunning(tb.queue.done[i].state)
  BY <1>1 DEF Out, IsRunning, WaitingIn
<1> QED
  BY <1>2 DEF Lanes, Backed, OnLanes

LEMMA EndedIsBare ==
  ASSUME NEW kind \in Kinds \ {"Running"}
  PROVE  ~IsRunning(Ended(kind)) /\ Ended(kind).run = NoRun /\ Bare(Ended(kind))
BY DEF Ended, IsRunning, Bare

\* A tab on nothing, with nothing out but lanes of connections that are gone.
LEMMA FreeOwned ==
  ASSUME NEW tb, NEW own, ~IsRunning(tb.state), tb.state.run = NoRun, Still(own),
         AllIn(tb.queue),
         AllBare(tb.queue.done), ~IsRunning(tb.lent.state), tb.lent.state.run = NoRun
  PROVE  Owned(tb, own)
BY DEF Owned, Plainly, IsFree, Bare

\* The tab handed back shows a result that is in, and lends nothing more.
LEMMA HandBackParts ==
  ASSUME NEW tb \in Tab, ~AtOnce(tb.queue)
  PROVE  /\ ~IsRunning(HandBack(tb).state)
         /\ AllBare(tb.queue.done) => HandBack(tb).state.run = NoRun
         /\ HandBack(tb).lent = tb.lent /\ HandBack(tb).queue \in {NoQueue, tb.queue}
<1> DEFINE done == tb.queue.done
           starts == {done[i].start : i \in DOMAIN done}
           at == EntriesOf(done, Max(starts))
           last == done[Min(at)]
           taken == IF done = <<>>
                    THEN [tb EXCEPT !.state = Ended("Idle")]
                    ELSE [tb EXCEPT
                            !.state = last.state, !.grid = last.grid, !.ran = last.start,
                            !.last = IF last.state.kind \in {"Complete", "Stopped"}
                                     THEN last.start ELSE @]
           back == HandBack(tb)
<1>1. back = IF Len(done) < 2 THEN [taken EXCEPT !.queue = NoQueue] ELSE taken
  BY Zenon DEF HandBack
<1>2. done # <<>> => Min(at) \in DOMAIN done
  <2>1. SUFFICES ASSUME done # <<>> PROVE Min(at) \in DOMAIN done
    OBVIOUS
  <2>2. tb.queue \in Queue /\ DOMAIN done = 1..Len(done) /\ Len(done) \in Nat /\ done \in Seq(Finished)
    BY TabParts, QueueParts
  <2>3. Len(done) > 0
    BY <2>1, <2>2, EmptySeq
  <2>4. 1 \in DOMAIN done
    BY <2>2, <2>3
  <2>5. IsFiniteSet(starts) /\ starts \in SUBSET Nat /\ starts # {}
    <3>1. \A i \in DOMAIN done : done[i].start \in Nat
      <4>1. \A i \in DOMAIN done : done[i] \in Finished
        BY <2>2, QueueParts
      <4>2. Sent \subseteq Nat
        BY StatementsAssumption DEF Sent, Batch
      <4> HIDE DEF done
      <4> QED
        BY <4>1, <4>2 DEF Finished
    <3>2. starts \in SUBSET Nat /\ starts # {}
      BY <2>4, <3>1
    <3>3. IsFiniteSet(DOMAIN done)
      BY <2>2, FS_Interval
    <3>4. [i \in DOMAIN done |-> done[i].start] \in Surjection(DOMAIN done, starts)
      BY DEF Surjection
    <3>5. IsFiniteSet(starts)
      <4> DEFINE f == [i \in DOMAIN done |-> done[i].start]
      <4>1. f \in Surjection(DOMAIN done, starts)
        BY <3>4
      <4> HIDE DEF f, starts, done
      <4> QED
        BY <3>3, <4>1, FS_Surjection
    <3> QED
      BY <3>2, <3>5
  <2>6. Max(starts) \in starts
    <3> HIDE DEF starts
    <3> QED
      BY <2>5, MaxMember
  <2>7. at # {} /\ at \in SUBSET DOMAIN done
    BY <2>6 DEF EntriesOf
  <2>8. Min(at) \in at
    <3> HIDE DEF at, done
    <3>1. at \in SUBSET Nat /\ IsFiniteSet(at)
      BY <2>2, <2>7, Positions DEF done
    <3> QED
      BY <2>7, <3>1, MinMember
  <2> QED
    BY <2>7, <2>8
<1>3. done # <<>> =>
        ~IsRunning(last.state) /\ (AllBare(tb.queue.done) => last.state.run = NoRun)
  <2> HIDE DEF last, at
  <2>1. \A i \in DOMAIN done :
          ~IsRunning(done[i].state) /\ (AllBare(tb.queue.done) => done[i].state.run = NoRun)
    BY DEF AllBare, Bare, AtOnce, Out, IsRunning
  <2> QED
    BY <1>2, <2>1 DEF last
<1>4. ~IsRunning(Ended("Idle")) /\ Ended("Idle").run = NoRun
  BY DEF Ended, IsRunning
<1>5. /\ ~IsRunning(taken.state) /\ (AllBare(tb.queue.done) => taken.state.run = NoRun)
      /\ taken.lent = tb.lent /\ taken.queue = tb.queue
  <2> HIDE DEF last, done
  <2>1. CASE done = <<>>
    BY <1>4, <2>1 DEF Tab
  <2>2. CASE done # <<>>
    BY <1>3, <2>2 DEF Tab
  <2> QED
    BY <2>1, <2>2
<1>6. [taken EXCEPT !.queue = NoQueue].queue = NoQueue
      /\ [taken EXCEPT !.queue = NoQueue].state = taken.state
      /\ [taken EXCEPT !.queue = NoQueue].lent = taken.lent
  <2>1. CASE done = <<>>
    <3> HIDE DEF last, done, back
    <3> QED
      BY <2>1 DEF Tab
  <2>2. CASE done # <<>>
    <3> HIDE DEF last, done, back
    <3> QED
      BY <2>2 DEF Tab
  <2> QED
    BY <2>1, <2>2
<1>7. /\ ~IsRunning(back.state) /\ (AllBare(tb.queue.done) => back.state.run = NoRun)
      /\ back.lent = tb.lent /\ back.queue \in {NoQueue, tb.queue}
  <2> HIDE DEF taken, back, done
  <2> QED
    BY <1>1, <1>5, <1>6
<1> QED
  BY <1>7 DEF back

\* The tab handed back is free.
LEMMA HandBackOwned ==
  ASSUME NEW tb \in Tab, NEW own, Lanes(tb, own), Plainly(tb), ~AtOnce(tb.queue)
  PROVE  Owned(HandBack(tb), own) /\ HandBack(tb).state.run = NoRun
<1> DEFINE back == HandBack(tb)
<1>1. /\ ~IsRunning(back.state) /\ back.state.run = NoRun
      /\ back.lent = tb.lent /\ back.queue \in {NoQueue, tb.queue}
  BY HandBackParts DEF Plainly
<1>2. AllBare(NoQueue.done) /\ AllBare(tb.queue.done)
  BY DEF NoQueue, AllBare, Plainly
<1>3. Still(own) /\ AllIn(NoQueue) /\ AllIn(tb.queue)
  BY NothingOut DEF AllIn, AtOnce, NoQueue
<1> HIDE DEF back
<1>4. Owned(back, own)
  BY <1>1, <1>2, <1>3, FreeOwned DEF Plainly
<1> QED
  BY <1>1, <1>4 DEF back

\* A slot given back, with no run in it.
LEMMA GiveBackOwned ==
  ASSUME NEW tb \in Tab, NEW own, Plainly(tb), ~IsRunning(tb.state), Still(own),
         AllIn(tb.queue)
  PROVE  /\ Owned(GiveBack(tb), own)
         /\ GiveBack(tb).state.run = NoRun /\ GiveBack(tb).lent.state.run = NoRun
<1>1. tb.state.run = NoRun
  BY DEF Plainly, Bare
<1>2. CASE tb.lent = NoLoan
  BY <1>1, <1>2, FreeOwned DEF GiveBack, Plainly
<1>3. CASE tb.lent # NoLoan
  <2> DEFINE left == IF Out(tb.state) THEN Ended("Failed") ELSE tb.state
             done == [i \in DOMAIN tb.queue.done |->
                        IF SlotEntry(tb) # {} /\ i = Min(SlotEntry(tb))
                        THEN [tb.queue.done[i] EXCEPT !.state = left]
                        ELSE tb.queue.done[i]]
             back == GiveBack(tb)
  <2>1. back = [tb EXCEPT !.lent = NoLoan, !.grid = tb.lent.grid,
                          !.state = tb.lent.state, !.queue.done = done]
    BY <1>3 DEF GiveBack
  <2>2. Bare(left) /\ ~Out(left)
    BY <1>1 DEF Ended, Bare, Out
  <2>3. \A i \in DOMAIN tb.queue.done :
          [tb.queue.done[i] EXCEPT !.state = left].state = left
    BY TabParts, QueueParts DEF Finished
  <2>4. AllBare(done) /\ ((\E i \in DOMAIN done : Out(done[i].state)) => AtOnce(tb.queue))
    <3>1. AllBare(tb.queue.done)
      BY DEF Plainly
    <3> HIDE DEF left
    <3>2. ASSUME NEW i \in DOMAIN tb.queue.done
          PROVE  Bare(done[i].state) /\ (Out(done[i].state) => Out(tb.queue.done[i].state))
      BY <2>2, <2>3, <3>1 DEF AllBare
    <3> QED
      BY <3>2 DEF AllBare, AtOnce
  <2>5. back.lent = NoLoan /\ back.state = tb.lent.state /\ back.queue.done = done
    <3>1. "done" \in DOMAIN tb.queue
      BY TabParts DEF Queue
    <3> HIDE DEF done, back
    <3> QED
      BY <2>1, <3>1 DEF Tab
  <2>6. ~IsRunning(NoLoan.state) /\ NoLoan.state.run = NoRun
    BY DEF NoLoan, Ended, IsRunning
  <2> HIDE DEF done, back
  <2>7. AllIn(back.queue)
    BY <2>4, <2>5 DEF AllIn, AtOnce
  <2>8. Owned(back, own)
    BY <2>4, <2>5, <2>6, <2>7, FreeOwned DEF Plainly
  <2>9. back.state.run = NoRun /\ back.lent.state.run = NoRun
    BY <2>5, <2>6 DEF Plainly
  <2> QED
    BY <2>8, <2>9 DEF back
<1> QED
  BY <1>2, <1>3

-----------------------------------------------------------------------------
(* Results that land in the strip.                                         *)

\* Results put in beside those there, by where each of those then is.
Widens(done, all, start, f) ==
  /\ DOMAIN done \in SUBSET Nat /\ DOMAIN all \in SUBSET Nat
  /\ f \in [DOMAIN done -> DOMAIN all]
  /\ \A i, j \in DOMAIN done : i <= j => f[i] <= f[j]
  /\ \A i \in DOMAIN done : all[f[i]] = done[i]
  /\ \A k \in DOMAIN all : \/ \E i \in DOMAIN done : f[i] = k
                           \/ all[k].start = start /\ all[k].state = Ended("Complete")

\* They leave what is out as it was, when they are of a statement none of whose
\* own is.
LEMMA Widened ==
  ASSUME NEW done, NEW all, NEW start, NEW f, Widens(done, all, start, f),
         \A i \in DOMAIN done : done[i].start = start => ~Out(done[i].state)
  PROVE  /\ \A run, own : Backed(done, run, own) => Backed(all, run, own)
         /\ \A u : InEntry(done, u) => InEntry(all, u)
         /\ AllBare(done) => AllBare(all)
<1>1. /\ DOMAIN done \in SUBSET Nat /\ DOMAIN all \in SUBSET Nat
      /\ f \in [DOMAIN done -> DOMAIN all]
      /\ \A i, j \in DOMAIN done : i <= j => f[i] <= f[j]
      /\ \A i \in DOMAIN done : all[f[i]] = done[i]
      /\ \A k \in DOMAIN all : \/ \E i \in DOMAIN done : f[i] = k
                               \/ all[k].start = start /\ all[k].state = Ended("Complete")
  BY DEF Widens
<1>2. ~Out(Ended("Complete")) /\ ~IsRunning(Ended("Complete")) /\ Bare(Ended("Complete"))
  BY DEF Ended, Out, IsRunning, Bare
<1>3. ASSUME NEW i \in DOMAIN done, IsFirst(done, i), Out(done[i].state)
      PROVE  IsFirst(all, f[i])
  <2>1. SUFFICES ASSUME NEW k \in DOMAIN all, all[k].start = all[f[i]].start
                 PROVE  f[i] <= k
    BY DEF IsFirst
  <2>2. all[k].start = done[i].start /\ done[i].start # start
    BY <1>1, <1>3, <2>1
  <2>3. PICK j \in DOMAIN done : f[j] = k
    BY <1>1, <2>2
  <2>4. done[j].start = done[i].start
    BY <1>1, <2>2, <2>3
  <2>5. i <= j
    BY <1>3, <2>4 DEF IsFirst
  <2> QED
    BY <1>1, <2>3, <2>5
<1>4. ASSUME NEW run, NEW own, Backed(done, run, own)
      PROVE  Backed(all, run, own)
  <2>1. SUFFICES ASSUME NEW k \in DOMAIN all, Out(all[k].state)
                 PROVE  /\ IsFirst(all, k)
                        /\ IsRunning(all[k].state) =>
                             \E u \in own : /\ u.id = all[k].state.run /\ u.lane = run
                                            /\ u.job.start = all[k].start
    BY DEF Backed, Out, IsRunning
  <2>2. PICK i \in DOMAIN done : f[i] = k
    BY <1>1, <1>2, <2>1
  <2>3. all[k] = done[i] /\ Out(done[i].state)
    BY <1>1, <2>1, <2>2
  <2> QED
    BY <1>3, <1>4, <2>2, <2>3 DEF Backed
<1>5. ASSUME NEW u, InEntry(done, u)
      PROVE  InEntry(all, u)
  <2>1. PICK i \in DOMAIN done : /\ IsFirst(done, i) /\ done[i].start = u.job.start
                                 /\ IsRunning(done[i].state) /\ done[i].state.run = u.id
    BY <1>5 DEF InEntry
  <2>2. IsFirst(all, f[i]) /\ f[i] \in DOMAIN all
    BY <1>1, <1>3, <2>1 DEF Out, IsRunning
  <2> QED
    BY <1>1, <2>1, <2>2 DEF InEntry
<1>6. AllBare(done) => AllBare(all)
  BY <1>1, <1>2 DEF AllBare
<1> QED
  BY <1>4, <1>5, <1>6

\* What a submission's further sets make of a queue.
LEMMA LandSetsParts ==
  ASSUME NEW queue \in Queue, NEW at \in 1..Len(queue.done) + 1,
         NEW start \in Sent, NEW sets \in Nat \ {0}
  PROVE  LET new == LandSets(queue, at, start, sets)
         IN  /\ new.remaining = queue.remaining /\ new.awaiting = queue.awaiting
             /\ \E f : Widens(queue.done, new.done, start, f)
<1> DEFINE taken == Shown(queue, sets)
           further == [k \in 1..taken |->
             [start |-> start, set |-> k + 1, state |-> Ended("Complete"),
              grid |-> queue.spare[Len(queue.spare) + 1 - k]]]
           done == queue.done
           all == Besides(done, at, further)
           new == LandSets(queue, at, start, sets)
           f == [i \in DOMAIN done |-> IF i < at THEN i ELSE i + taken]
<1>1. taken \in Nat /\ taken <= Len(queue.spare)
  BY ShownType
<1>2. further \in Seq(Finished) /\ Len(further) = taken
  <2>1. ASSUME NEW k \in 1..taken
        PROVE  queue.spare[Len(queue.spare) + 1 - k] \in Grids
    <3>1. queue.spare \in Seq(Grids) /\ Len(queue.spare) \in Nat
      BY QueueParts
    <3> HIDE DEF taken
    <3>2. Len(queue.spare) + 1 - k \in 1..Len(queue.spare)
      BY <1>1, <3>1
    <3> QED
      BY <3>1, <3>2, ElementOfSeq
  <2>2. Ended("Complete") \in State
    BY EndedType DEF Kinds
  <2> HIDE DEF taken
  <2>3. further \in [1..taken -> Finished]
    BY <1>1, <2>1, <2>2 DEF Finished
  <2> HIDE DEF further
  <2> QED
    BY <1>1, <2>3, SeqOfFunction
<1>3. \A k \in 1..taken : further[k].start = start /\ further[k].state = Ended("Complete")
  OBVIOUS
<1>4. done \in Seq(Finished) /\ DOMAIN done = 1..Len(done) /\ Len(done) \in Nat /\ at \in Nat
  BY QueueParts
<1>5. new.remaining = queue.remaining /\ new.awaiting = queue.awaiting /\ new.done = all
  <2> DEFINE showing == IF queue.showing >= at THEN queue.showing + taken ELSE queue.showing
             spare == SubSeq(queue.spare, 1, Len(queue.spare) - taken)
  <2>1. new = [queue EXCEPT !.done = all, !.showing = showing, !.spare = spare]
    BY DEF LandSets
  <2> HIDE DEF new, all, showing, spare
  <2> QED
    BY <2>1 DEF Queue
<1> HIDE DEF further, taken, new
<1>6. /\ all \in Seq(Finished) /\ Len(all) = Len(done) + taken
      /\ \A k \in 1..Len(all) : k < at => k \in 1..Len(done) /\ all[k] = done[k]
      /\ \A k \in 1..Len(all) : at <= k /\ k < at + taken =>
           k - at + 1 \in 1..taken /\ all[k] = further[k - at + 1]
      /\ \A k \in 1..Len(all) : at + taken <= k =>
           k - taken \in 1..Len(done) /\ all[k] = done[k - taken]
  <2> HIDE DEF done
  <2>1. /\ all \in Seq(Finished) /\ Len(all) = Len(done) + Len(further)
        /\ \A k \in 1..Len(all) : k < at => k \in 1..Len(done) /\ all[k] = done[k]
        /\ \A k \in 1..Len(all) : at <= k /\ k < at + Len(further) =>
             k - at + 1 \in 1..Len(further) /\ all[k] = further[k - at + 1]
        /\ \A k \in 1..Len(all) : at + Len(further) <= k =>
             k - Len(further) \in 1..Len(done) /\ all[k] = done[k - Len(further)]
    <3>1. at \in 1..Len(done) + 1
      BY DEF done
    <3>2. all = Besides(done, at, further)
      OBVIOUS
    <3>3. done \in Seq(Finished) /\ further \in Seq(Finished)
      BY <1>2, <1>4
    <3> HIDE DEF all, f
    <3>4. \A a \in 1..Len(done) + 1 : \A b : b = Besides(done, a, further) =>
            /\ b \in Seq(Finished) /\ Len(b) = Len(done) + Len(further)
            /\ \A k \in 1..Len(b) : k < a => k \in 1..Len(done) /\ b[k] = done[k]
            /\ \A k \in 1..Len(b) : a <= k /\ k < a + Len(further) =>
                 k - a + 1 \in 1..Len(further) /\ b[k] = further[k - a + 1]
            /\ \A k \in 1..Len(b) : a + Len(further) <= k =>
                 k - Len(further) \in 1..Len(done) /\ b[k] = done[k - Len(further)]
      BY <3>3, BesidesParts
    <3> QED
      BY <3>1, <3>2, <3>4
  <2> HIDE DEF all
  <2> QED
    BY <1>2, <2>1
<1> HIDE DEF all, done
<1>7. DOMAIN all = 1..Len(all) /\ Len(all) \in Nat
  BY <1>6, LenProperties
<1>8. f \in [DOMAIN done -> DOMAIN all]
  BY <1>1, <1>4, <1>6, <1>7
<1>9. \A i, j \in DOMAIN done : i <= j => f[i] <= f[j]
  BY <1>1, <1>4
<1>10. \A i \in DOMAIN done : all[f[i]] = done[i]
  <2>1. SUFFICES ASSUME NEW i \in DOMAIN done PROVE all[f[i]] = done[i]
    OBVIOUS
  <2>2. CASE i < at
    <3>1. f[i] = i /\ i \in 1..Len(all)
      BY <1>8, <1>7, <2>2
    <3> QED
      BY <1>6, <2>2, <3>1
  <2>3. CASE ~(i < at)
    <3>1. f[i] = i + taken /\ i + taken \in 1..Len(all)
      BY <1>8, <1>7, <2>3
    <3>2. at + taken <= i + taken /\ (i + taken) - taken = i
      BY <1>1, <1>4, <2>3
    <3> QED
      BY <1>6, <3>1, <3>2
  <2> QED
    BY <2>2, <2>3
<1>11. ASSUME NEW k \in DOMAIN all
       PROVE  \/ \E i \in DOMAIN done : f[i] = k
              \/ all[k].start = start /\ all[k].state = Ended("Complete")
  <2>1. k \in 1..Len(all) /\ k \in Nat
    BY <1>7, <1>11
  <2>2. CASE k < at
    BY <1>4, <1>6, <2>1, <2>2
  <2>3. CASE at <= k /\ k < at + taken
    BY <1>3, <1>6, <2>1, <2>3
  <2>4. CASE at + taken <= k
    <3>1. k - taken \in DOMAIN done
      BY <1>4, <1>6, <2>1, <2>4
    <3>2. ~(k - taken < at) /\ (k - taken) + taken = k
      BY <1>1, <1>4, <2>1, <2>4
    <3> QED
      BY <3>1, <3>2
  <2> QED
    BY <1>1, <1>4, <2>1, <2>2, <2>3, <2>4
<1> HIDE DEF f
<1>12. Widens(done, all, start, f)
  BY <1>4, <1>7, <1>8, <1>9, <1>10, <1>11 DEF Widens
<1> QED
  BY <1>5, <1>12 DEF new, done

LEMMA WithSetsRest ==
  ASSUME NEW tb \in Tab, NEW start, NEW before
  PROVE  /\ WithSets(tb, start, before).state = tb.state
         /\ WithSets(tb, start, before).lent = tb.lent
         /\ WithSets(tb, start, before).queue = tb.queue
         /\ WithSets(tb, start, before).ran = tb.ran
BY DEF WithSets, Tab

\* A lane has landed, and its further sets beside it: the others are as they
\* were.
LEMMA LaneLandedOwned ==
  ASSUME NEW tb \in Tab, NEW own, NEW start \in Sent, NEW sets \in Nat \ {0},
         Plainly(tb), Lanes(tb, own),
         \A i \in DOMAIN tb.queue.done :
           tb.queue.done[i].start = start => ~Out(tb.queue.done[i].state)
  PROVE  LET landed == LaneLanded(tb, start, sets)
         IN  /\ Plainly(landed) /\ Lanes(landed, own)
             /\ landed.state = tb.state /\ landed.lent = tb.lent
             /\ landed.queue = LandSets(tb.queue, Lane(tb.queue, start) + 1, start, sets)
<1> DEFINE at == Lane(tb.queue, start) + 1
           queue == LandSets(tb.queue, at, start, sets)
           moved == [tb EXCEPT !.queue = queue]
           landed == LaneLanded(tb, start, sets)
<1>1. tb.queue \in Queue /\ Len(tb.queue.done) \in Nat
  BY TabParts, QueueParts
<1>2. at \in 1..Len(tb.queue.done) + 1
  BY <1>1, LaneType
<1>3. queue \in Queue
  <2> HIDE DEF at
  <2> QED
    BY <1>1, <1>2, LandSetsType
<1>4. moved \in Tab /\ moved.state = tb.state /\ moved.lent = tb.lent /\ moved.queue = queue
  <2> HIDE DEF queue
  <2> QED
    BY <1>3 DEF Tab
<1>5. landed = WithSets(moved, start, tb.queue)
  BY DEF LaneLanded
<1> HIDE DEF moved, landed
<1>6. landed.state = tb.state /\ landed.lent = tb.lent /\ landed.queue = queue
  BY <1>4, <1>5, WithSetsRest
<1>7. /\ queue.remaining = tb.queue.remaining /\ queue.awaiting = tb.queue.awaiting
      /\ \E f : Widens(tb.queue.done, queue.done, start, f)
  <2> HIDE DEF at
  <2> QED
    BY <1>1, <1>2, LandSetsParts
<1>8. landed.queue = LandSets(tb.queue, at, start, sets)
  BY <1>6
<1> HIDE DEF queue
<1>9. PICK f : Widens(tb.queue.done, queue.done, start, f)
  BY <1>7
<1>10. /\ \A run, us : Backed(tb.queue.done, run, us) => Backed(queue.done, run, us)
       /\ \A u : InEntry(tb.queue.done, u) => InEntry(queue.done, u)
       /\ AllBare(tb.queue.done) => AllBare(queue.done)
  BY <1>9, Widened
<1>11. Plainly(landed)
  BY <1>6, <1>10 DEF Plainly
<1>12. Lanes(landed, own)
  BY <1>6, <1>7, <1>10 DEF Lanes
<1> QED
  BY <1>6, <1>8, <1>11, <1>12 DEF landed

\* A tab with a lane's result written in its entry.
Writes(tb, new, start, kind) ==
  /\ new.state = tb.state /\ new.lent = tb.lent
  /\ new.queue.awaiting = tb.queue.awaiting /\ new.queue.remaining = tb.queue.remaining
  /\ new.queue.done = [tb.queue.done EXCEPT ![Lane(tb.queue, start)] =
                         [@ EXCEPT !.state = Ended(kind)]]

\* A result written in its lane's own entry leaves the other lanes.
LEMMA EntryEnded ==
  ASSUME NEW tb \in Tab, NEW own, NEW u \in own, NEW new, NEW kind \in Kinds \ {"Idle", "Running"},
         Plainly(tb), Lanes(tb, own), u.live, \A v \in own : v.id = u.id => v = u,
         Writes(tb, new, u.job.start, kind)
  PROVE  /\ Plainly(new) /\ Lanes(new, own \ {u})
         /\ \A i \in DOMAIN new.queue.done :
              new.queue.done[i].start = u.job.start => ~Out(new.queue.done[i].state)
<1> DEFINE done == tb.queue.done
           left == new.queue.done
<1>1. /\ new.state = tb.state /\ new.lent = tb.lent
      /\ new.queue.awaiting = tb.queue.awaiting /\ new.queue.remaining = tb.queue.remaining
      /\ left = [done EXCEPT ![Lane(tb.queue, u.job.start)] = [@ EXCEPT !.state = Ended(kind)]]
  BY DEF Writes
<1>2. tb.queue \in Queue /\ \A i \in DOMAIN done : done[i] \in Finished
  BY TabParts, QueueParts
<1>3. PICK at \in DOMAIN done : /\ IsFirst(done, at) /\ done[at].start = u.job.start
                                /\ IsRunning(done[at].state) /\ done[at].state.run = u.id
  BY DEF Lanes, InEntry
<1>4. Lane(tb.queue, u.job.start) = at
  BY <1>2, <1>3, LaneIsFirst
<1>5. /\ DOMAIN left = DOMAIN done
      /\ \A i \in DOMAIN done : left[i].start = done[i].start
      /\ \A i \in DOMAIN done : i # at => left[i] = done[i]
      /\ left[at].state = Ended(kind)
  BY <1>1, <1>2, <1>3, <1>4 DEF Finished
<1>6. ~Out(Ended(kind)) /\ ~IsRunning(Ended(kind)) /\ Bare(Ended(kind))
  BY DEF Ended, Out, IsRunning, Bare
<1>7. Backed(done, tb.state.run, own) /\ AllBare(done)
  BY DEF Lanes, Plainly
<1>8. \A i \in DOMAIN done : IsFirst(done, i) <=> IsFirst(left, i)
  <2> HIDE DEF done, left
  <2> QED
    BY <1>5 DEF IsFirst
<1>9. \A i \in DOMAIN done : done[i].start = u.job.start /\ Out(done[i].state) => i = at
  <2>1. SUFFICES ASSUME NEW i \in DOMAIN done, done[i].start = u.job.start, Out(done[i].state)
                 PROVE  i = at
    OBVIOUS
  <2>2. IsFirst(done, i)
    BY <1>7, <2>1 DEF Backed
  <2> HIDE DEF done
  <2>3. i <= at /\ at <= i
    BY <1>3, <2>1, <2>2 DEF IsFirst
  <2>4. i \in Nat /\ at \in Nat
    BY <1>2, QueueParts DEF done
  <2> QED
    BY <2>3, <2>4
<1>10. \A i \in DOMAIN left : left[i].start = u.job.start => ~Out(left[i].state)
  BY <1>5, <1>6, <1>9
<1>11. Plainly(new)
  <2>1. AllBare(left)
    BY <1>5, <1>6, <1>7 DEF AllBare
  <2> QED
    BY <1>1, <2>1 DEF Plainly
<1>12. Backed(left, tb.state.run, own \ {u})
  <2>1. SUFFICES ASSUME NEW i \in DOMAIN left, Out(left[i].state)
                 PROVE  /\ IsFirst(left, i)
                        /\ IsRunning(left[i].state) =>
                             \E v \in own \ {u} :
                               /\ v.id = left[i].state.run /\ v.lane = tb.state.run
                               /\ v.job.start = left[i].start
    BY DEF Backed, Out, IsRunning
  <2>2. i # at /\ left[i] = done[i] /\ i \in DOMAIN done
    BY <1>5, <1>6, <2>1
  <2>3. IsFirst(left, i)
    BY <1>7, <1>8, <2>1, <2>2 DEF Backed
  <2>4. ASSUME IsRunning(left[i].state)
        PROVE  \E v \in own \ {u} :
                 /\ v.id = left[i].state.run /\ v.lane = tb.state.run
                 /\ v.job.start = left[i].start
    <3>1. IsRunning(done[i].state)
      BY <2>2, <2>4
    <3>2. PICK v \in own : /\ v.id = done[i].state.run /\ v.lane = tb.state.run
                           /\ v.job.start = done[i].start
      BY <1>7, <2>2, <3>1 DEF Backed
    <3>3. v # u
      BY <1>10, <2>1, <2>2, <3>2
    <3> QED
      BY <2>2, <3>2, <3>3
  <2> QED
    BY <2>3, <2>4
<1>13. ASSUME NEW v \in own \ {u}, v.live
       PROVE  InEntry(left, v)
  <2>1. PICK i \in DOMAIN done : /\ IsFirst(done, i) /\ done[i].start = v.job.start
                                 /\ IsRunning(done[i].state) /\ done[i].state.run = v.id
    BY <1>13 DEF Lanes, InEntry
  <2>2. i # at
    BY <1>3, <1>13, <2>1
  <2>3. left[i] = done[i] /\ IsFirst(left, i) /\ i \in DOMAIN left
    BY <1>5, <1>8, <2>1, <2>2
  <2> QED
    BY <2>1, <2>3 DEF InEntry
<1> HIDE DEF done, left
<1>14. Lanes(new, own \ {u})
  BY <1>1, <1>12, <1>13 DEF Lanes, left
<1> QED
  BY <1>10, <1>11, <1>14 DEF left

=============================================================================
