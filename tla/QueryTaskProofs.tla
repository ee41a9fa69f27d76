-------------------------- MODULE QueryTaskProofs ---------------------------
(***************************************************************************)
(* That a tab which shows a statement running has one out, and that what   *)
(* comes back finds the tab waiting for it: for every buffer, every number *)
(* of connections, tabs, grids and tokens, and whatever the user does.     *)
(*                                                                         *)
(* Behind both is what a tab can be on.  It is free; or one statement is   *)
(* out in its slot; or the lanes of a queue run at once are out, each      *)
(* looked up by its statement.  Besides, there may be lanes of connections *)
(* that are gone, which no longer find it.  A handler is shown to keep     *)
(* this of the tab it writes, and tokens to tell statements apart, so that *)
(* no other tab can tell.                                                  *)
(*                                                                         *)
(* And the slot, lent to an earlier result so that a batch can be run      *)
(* there and its rows read again, always comes back: while it is lent, the *)
(* run it was lent for is out.  Most handlers neither lend a slot nor take *)
(* a run back (Keeps).  The run a slot was lent for is gone between the    *)
(* landing that removes it and the step of the same handler that follows   *)
(* it up, so a session is sound but for the tabs named (Sound).            *)
(***************************************************************************)
EXTENDS QueryRunsProofs

-----------------------------------------------------------------------------
(* Sending.                                                                *)

\* What goes out under tokens of its own is told from what is out.
Joins(s, r, more) ==
  /\ r.tasks = s.tasks \cup more
  /\ \A u \in more : u.id \in FreeRuns(s)
  /\ \A u, v \in more : u.id = v.id => u = v
  /\ \A u \in more, v \in s.tasks \cup more :
       /\ u.lane # v.id
       /\ (u.lane # NoRun /\ u.lane = v.lane /\ u.profile = v.profile /\ u.tab = v.tab)
            => u.live = v.live
  /\ \A p \in Profiles, t \in Tabs : \A u \in r.tasks :
       u.id = r.tab[p][t].state.run => u.profile = p /\ u.tab = t /\ u.lane = NoRun

\* Statements sent under free tokens are told apart from those that were out.
LEMMA IdsAdded ==
  ASSUME NEW s \in Session, NEW r, NEW more, Ids(s), Joins(s, r, more)
  PROVE  Ids(r)
<1>1. \A u \in more, v \in s.tasks : v.id # u.id /\ v.lane # u.id
  BY FreeMeans DEF Joins
<1>2. \A u, v \in r.tasks : u.id = v.id => u = v
  BY <1>1 DEF Ids, Joins
<1>3. \A u, v \in r.tasks : u.lane # v.id
  BY <1>1 DEF Ids, Joins
<1>4. \A u, v \in r.tasks :
        (u.lane # NoRun /\ u.lane = v.lane /\ u.profile = v.profile /\ u.tab = v.tab)
          => u.live = v.live
  <2>1. SUFFICES ASSUME NEW u \in r.tasks, NEW v \in r.tasks,
                        u.lane # NoRun, u.lane = v.lane, u.profile = v.profile, u.tab = v.tab
                 PROVE  u.live = v.live
    OBVIOUS
  <2>2. CASE u \in more
    BY <2>1, <2>2 DEF Joins
  <2>3. CASE v \in more
    BY <2>1, <2>3 DEF Joins
  <2>4. CASE u \in s.tasks /\ v \in s.tasks
    BY <2>1, <2>4 DEF Ids
  <2> QED
    BY <2>2, <2>3, <2>4 DEF Joins
<1> QED
  BY <1>2, <1>3, <1>4 DEF Ids, Joins

LEMMA FreeToken ==
  ASSUME NEW s \in Session, NEW run \in FreeRuns(s)
  PROVE  run \in Runs /\ run # NoRun
BY FreeMeans, RunsAssumption DEF NoRun

\* The slot of a tab on nothing is free.
LEMMA NotBusyFree ==
  ASSUME NEW tb, NEW own, Owned(tb, own), ~IsRunning(tb.state)
  PROVE  Plainly(tb) /\ Still(own) /\ tb.state.run = NoRun /\ AllIn(tb.queue)
BY DEF Owned, IsFree, OnSlot, OnLanes, Lanes, Plainly, Bare

\* A slot lent, before its run is sent.
LEMMA LendPlain ==
  ASSUME NEW tb \in Tab, NEW index, Plainly(tb), ~IsRunning(tb.state), tb.state.run = NoRun
  PROVE  /\ Lend(tb, index) \in Tab /\ Lend(tb, index).queue = tb.queue
         /\ ~IsRunning(Lend(tb, index).lent.state) /\ Lend(tb, index).lent.state.run = NoRun
<1>1. Lend(tb, index) \in Tab
  BY LendType
<1>2. CASE Lend(tb, index) = tb
  BY <1>1, <1>2 DEF Plainly
<1>3. CASE Lend(tb, index) = [tb EXCEPT !.lent = [grid |-> tb.grid, state |-> tb.state],
                                        !.grid = tb.queue.done[index].grid,
                                        !.state = tb.queue.done[index].state]
  <2>1. /\ Lend(tb, index).lent = [grid |-> tb.grid, state |-> tb.state]
        /\ Lend(tb, index).queue = tb.queue
    BY <1>3 DEF Tab
  <2> QED
    BY <1>1, <2>1
<1> QED
  BY <1>2, <1>3 DEF Lend

\* A tab on nothing whose slot a statement goes out on.
LEMMA SendAccounted ==
  ASSUME NEW s \in Session, NEW p \in Profiles, NEW t \in Tabs, NEW job \in Job,
         Accounted(s, {}), ~Busy(s, p, t), FreeRuns(s) # {}
  PROVE  Accounted(Send(s, p, t, job), {})
<1> DEFINE run == FreshRun(s)
           old == s.tab[p][t]
           lent == IF job.refresh = "Earlier" THEN Lend(old, job.index) ELSE old
           rows == IF job.explain THEN lent.rows
                                  ELSE [lent.rows EXCEPT ![lent.grid] = Empty]
           sent == [lent EXCEPT !.state = Running(run), !.ran = job.from, !.rows = rows]
           task == [id |-> run, profile |-> p, tab |-> t, live |-> TRUE,
                    lane |-> NoRun, job |-> job, grid |-> lent.grid]
           r == [s EXCEPT !.tab[p][t] = sent, !.tasks = @ \cup {task}]
<1>1. r = Send(s, p, t, job)
  BY DEF Send
<1>2. run \in FreeRuns(s) /\ run \in Runs /\ run # NoRun
  <2> HIDE DEF run
  <2>1. run \in FreeRuns(s)
    BY FreshRunFree DEF run
  <2> QED
    BY <2>1, FreeToken
<1>3. old \in Tab
  BY SessionParts
<1>4. /\ Plainly(old) /\ Still(Own(s, p, t)) /\ AllIn(old.queue)
      /\ old.state.run = NoRun /\ ~IsRunning(old.state)
  BY NotBusyFree DEF Accounted, Busy
<1>5. /\ lent \in Tab /\ lent.queue = old.queue
      /\ ~IsRunning(lent.lent.state) /\ lent.lent.state.run = NoRun
  <2> HIDE DEF old
  <2> QED
    BY <1>3, <1>4, LendPlain DEF Plainly
<1>6. /\ sent.state = Running(run) /\ sent.lent = lent.lent /\ sent.queue = lent.queue
  <2> HIDE DEF lent, rows, run
  <2> QED
    BY <1>5 DEF Tab
<1>7. /\ \A q \in Profiles, u \in Tabs :
           r.tab[q][u] = IF q = p /\ u = t THEN sent ELSE s.tab[q][u]
      /\ r.tasks = s.tasks \cup {task}
  <2> HIDE DEF sent, task
  <2> QED
    BY DEF Session
<1>8. task.id = run /\ task.lane = NoRun /\ task.profile = p /\ task.tab = t /\ task.live = TRUE
  OBVIOUS
<1>9. IsRunning(sent.state) /\ sent.state.run = run
  BY <1>6 DEF Running, IsRunning
<1> HIDE DEF r, sent, task, lent, run, old
<1>10. \A v \in s.tasks : v.id # run /\ v.id # NoRun
  BY <1>2, FreeMeans, TaskParts
<1>11. \A q \in Profiles, x \in Tabs : s.tab[q][x].state.run # run
  BY <1>2, FreeMeans
<1>12. \A q \in Profiles, x \in Tabs : \A u \in r.tasks :
         u.id = r.tab[q][x].state.run => u.profile = q /\ u.tab = x /\ u.lane = NoRun
  <2>1. SUFFICES ASSUME NEW q \in Profiles, NEW x \in Tabs, NEW u \in r.tasks,
                        u.id = r.tab[q][x].state.run
                 PROVE  u.profile = q /\ u.tab = x /\ u.lane = NoRun
    OBVIOUS
  <2>2. CASE u = task
    <3>1. q = p /\ x = t
      BY <1>7, <1>8, <1>11, <2>1, <2>2
    <3> QED
      BY <1>8, <2>2, <3>1
  <2>3. CASE u \in s.tasks
    <3>1. ~(q = p /\ x = t)
      BY <1>7, <1>9, <1>10, <2>1, <2>3
    <3>2. u.id = s.tab[q][x].state.run
      BY <1>7, <2>1, <3>1
    <3> QED
      BY <2>3, <3>2 DEF Accounted, Ids
  <2> QED
    BY <1>7, <2>2, <2>3
<1>13. Ids(r)
  <2>1. Joins(s, r, {task})
    BY <1>2, <1>7, <1>8, <1>10, <1>12 DEF Joins
  <2> QED
    BY <2>1, IdsAdded DEF Accounted
<1>14. Owned(sent, Own(s, p, t) \cup {task})
  <2>1. Plainly(sent)
    BY <1>4, <1>5, <1>6, <1>9 DEF Plainly, Bare
  <2>2. Still((Own(s, p, t) \cup {task}) \ {task})
    BY <1>4 DEF Still
  <2>3. OnSlot(sent, Own(s, p, t) \cup {task})
    BY <1>4, <1>5, <1>6, <1>8, <1>9, <2>2 DEF OnSlot
  <2> QED
    BY <2>1, <2>3 DEF Owned
<1>15. \A q \in Profiles, u \in Tabs : Owned(r.tab[q][u], Own(r, q, u))
  <2>1. SUFFICES ASSUME NEW q \in Profiles, NEW u \in Tabs
                 PROVE  Owned(r.tab[q][u], Own(r, q, u))
    OBVIOUS
  <2>2. CASE q = p /\ u = t
    <3>1. Own(r, q, u) = Own(s, p, t) \cup {task}
      BY <1>7, <1>8, <2>2 DEF Own
    <3> QED
      BY <1>7, <1>14, <2>2, <3>1
  <2>3. CASE ~(q = p /\ u = t)
    <3>1. Own(r, q, u) = Own(s, q, u)
      BY <1>7, <1>8, <2>3 DEF Own
    <3> QED
      BY <1>7, <2>3, <3>1 DEF Accounted
  <2> QED
    BY <2>2, <2>3
<1>16. Accounted(r, {})
  BY <1>13, <1>15 DEF Accounted
<1> QED
  BY <1>1, <1>16

LEMMA ExecuteUncheckedAccounted ==
  ASSUME NEW s \in Session, NEW p \in Profiles, NEW t \in Tabs, NEW job \in Job,
         Accounted(s, {}), FreeRuns(s) # {}
  PROVE  Accounted(ExecuteUnchecked(s, p, t, job), {})
<1>1. CASE Busy(s, p, t)
  BY <1>1 DEF ExecuteUnchecked
<1>2. CASE ~Busy(s, p, t) /\ s.conn[p] # "Connected"
  <2> DEFINE tb == s.tab[p][t]
             failed == [tb EXCEPT !.state = Ended("Failed")]
  <2>1. tb \in Tab
    BY SessionParts
  <2>2. Plainly(tb) /\ Still(Own(s, p, t)) /\ AllIn(tb.queue)
    BY <1>2, NotBusyFree DEF Accounted, Busy
  <2>3. [s EXCEPT !.tab[p][t].state = Ended("Failed")] = [s EXCEPT !.tab[p][t] = failed]
    BY DEF Session
  <2>4. failed.state = Ended("Failed") /\ failed.lent = tb.lent /\ failed.queue = tb.queue
    <3> HIDE DEF tb
    <3> QED
      BY <2>1 DEF Tab
  <2>5. ~IsRunning(Ended("Failed")) /\ Ended("Failed").run = NoRun
    BY DEF Ended, IsRunning
  <2> HIDE DEF failed, tb
  <2>6. Owned(failed, Own(s, p, t))
    BY <2>2, <2>4, <2>5, FreeOwned DEF Plainly
  <2>7. Accounted([s EXCEPT !.tab[p][t] = failed], {})
    BY <2>4, <2>5, <2>6, TabAccounted
  <2> QED
    BY <1>2, <2>3, <2>7 DEF ExecuteUnchecked
<1>3. CASE ~Busy(s, p, t) /\ s.conn[p] = "Connected"
  BY <1>3, SendAccounted DEF ExecuteUnchecked
<1> QED
  BY <1>1, <1>2, <1>3

LEMMA ExecuteAndThenAccounted ==
  ASSUME NEW s \in Session, NEW p \in Profiles, NEW t \in Tabs, NEW job \in Job,
         Accounted(s, {}), FreeRuns(s) # {}
  PROVE  Accounted(ExecuteAndThen(s, p, t, job), {})
<1> DEFINE asked == [s EXCEPT !.prompt[p] = {[tab |-> t, job |-> job]}]
<1>1. asked.tab = s.tab /\ asked.tasks = s.tasks
  BY DEF Session
<1>2. Accounted(asked, {})
  <2> HIDE DEF asked
  <2> QED
    BY <1>1, SameAccounted
<1> HIDE DEF asked
<1> QED
  BY <1>2, ExecuteUncheckedAccounted DEF ExecuteAndThen, asked

-----------------------------------------------------------------------------
(* A queue run at once.                                                    *)

RankIn(at, i) == Cardinality({j \in at : j <= i})

\* The lanes that start_lane starts.
Started(done, n) == {i \in WaitingIn(done) : RankIn(WaitingIn(done), i) <= n}

\* Each of them is given a token of its own.
LEMMA RankInjective ==
  ASSUME NEW at \in SUBSET Nat, IsFiniteSet(at)
  PROVE  /\ Cardinality(at) \in Nat
         /\ \A i \in at : RankIn(at, i) \in 1..Cardinality(at)
         /\ \A i, j \in at : RankIn(at, i) = RankIn(at, j) => i = j
<1> DEFINE upTo(i) == {j \in at : j <= i}
<1>1. Cardinality(at) \in Nat
  BY FS_CardinalityType
<1>2. ASSUME NEW i \in at
      PROVE  /\ upTo(i) \in SUBSET at /\ IsFiniteSet(upTo(i)) /\ i \in upTo(i)
             /\ Cardinality(upTo(i)) \in Nat
  <2>1. i \in Nat /\ i <= i
    BY <1>2
  <2>2. upTo(i) \in SUBSET at /\ i \in upTo(i)
    BY <1>2, <2>1
  <2> HIDE DEF upTo
  <2> QED
    BY <2>2, FS_Subset, FS_CardinalityType
<1>3. \A i : RankIn(at, i) = Cardinality(upTo(i))
  BY DEF RankIn
<1>4. ASSUME NEW i \in at
      PROVE  RankIn(at, i) \in 1..Cardinality(at)
  <2> HIDE DEF upTo
  <2>1. Cardinality(upTo(i)) <= Cardinality(at)
    BY <1>2, <1>4, FS_Subset
  <2>2. Cardinality(upTo(i)) # 0
    BY <1>2, <1>4, FS_EmptySet
  <2> QED
    BY <1>1, <1>2, <1>3, <1>4, <2>1, <2>2
<1>5. ASSUME NEW i \in at, NEW j \in at, i < j
      PROVE  RankIn(at, i) # RankIn(at, j)
  <2>1. i \in Nat /\ j \in Nat /\ ~(j <= i)
    BY <1>5
  <2>2. \A k \in at : k \in Nat /\ (k <= i => k <= j)
    BY <1>5, <2>1
  <2>3. upTo(i) \in SUBSET upTo(j) /\ j \notin upTo(i)
    BY <2>1, <2>2
  <2> HIDE DEF upTo
  <2>4. upTo(i) # upTo(j)
    BY <1>2, <1>5, <2>3
  <2>5. Cardinality(upTo(i)) # Cardinality(upTo(j))
    BY <1>2, <1>5, <2>3, <2>4, FS_Subset
  <2> QED
    BY <1>3, <2>5
<1>6. \A i, j \in at : RankIn(at, i) = RankIn(at, j) => i = j
  <2>1. SUFFICES ASSUME NEW i \in at, NEW j \in at, i # j
                 PROVE  RankIn(at, i) # RankIn(at, j)
    OBVIOUS
  <2>2. i \in Nat /\ j \in Nat
    OBVIOUS
  <2>3. i < j \/ j < i
    BY <2>1, <2>2
  <2> QED
    BY <1>5, <2>3
<1> QED
  BY <1>1, <1>4, <1>6

\* No more lanes start than were asked for, nor than there are.
LEMMA StartedCount ==
  ASSUME NEW queue \in Queue, NEW n \in Nat \ {0}
  PROVE  LET at == Started(queue.done, n)
         IN  /\ at \in SUBSET DOMAIN queue.done /\ at \in SUBSET WaitingIn(queue.done)
             /\ Cardinality(at) \in Nat
             /\ Cardinality(at) <= n /\ Cardinality(at) <= Len(queue.done)
             /\ WaitingIn(queue.done) # {} => at # {}
<1> DEFINE waiting == WaitingIn(queue.done)
           at == Started(queue.done, n)
<1>1. waiting \in SUBSET DOMAIN queue.done /\ at \in SUBSET waiting
  BY DEF WaitingIn, Started
<1>2. waiting \in SUBSET Nat /\ IsFiniteSet(waiting)
  <2> HIDE DEF waiting
  <2> QED
    BY <1>1, Positions
<1>3. IsFiniteSet(at) /\ Cardinality(at) \in Nat
  <2> HIDE DEF waiting, at
  <2> QED
    BY <1>1, <1>2, FS_Subset, FS_CardinalityType
<1>4. \A i : i \in at <=> i \in waiting /\ RankIn(waiting, i) <= n
  BY DEF Started
<1> HIDE DEF waiting, at
<1>5. Cardinality(at) <= n
  <2> DEFINE f == [i \in at |-> RankIn(waiting, i)]
  <2>1. \A i \in at : RankIn(waiting, i) \in 1..n
    BY <1>1, <1>2, <1>4, RankInjective
  <2>2. \A i, j \in at : f[i] = f[j] => i = j
    BY <1>1, <1>2, RankInjective
  <2>3. f \in Injection(at, 1..n)
    BY <2>1, <2>2 DEF Injection, IsInjective
  <2>4. IsFiniteSet(1..n) /\ Cardinality(1..n) = n
    BY FS_Interval
  <2> HIDE DEF f
  <2> QED
    BY <2>3, <2>4, FS_Injection
<1>6. Cardinality(at) <= Len(queue.done)
  <2>1. DOMAIN queue.done = 1..Len(queue.done) /\ Len(queue.done) \in Nat
    BY QueueParts
  <2>2. IsFiniteSet(DOMAIN queue.done) /\ Cardinality(DOMAIN queue.done) = Len(queue.done)
    BY <2>1, FS_Interval
  <2>3. at \in SUBSET DOMAIN queue.done
    BY <1>1
  <2> QED
    BY <2>2, <2>3, FS_Subset
<1>7. ASSUME waiting # {}
      PROVE  at # {}
  <2>1. Min(waiting) \in waiting /\ \A j \in waiting : Min(waiting) <= j
    BY <1>2, <1>7, MinMember
  <2>2. PICK i \in waiting : \A j \in waiting : i <= j
    BY <2>1
  <2>3. {j \in waiting : j <= i} = {i}
    <3>1. \A j \in waiting : i \in Nat /\ j \in Nat
      BY <1>2, <2>2
    <3>2. \A j \in waiting : j <= i => j = i
      BY <2>2, <3>1
    <3>3. i <= i
      BY <2>2, <3>1
    <3> QED
      BY <3>2, <3>3
  <2>4. RankIn(waiting, i) = 1
    BY <2>3, FS_Singleton DEF RankIn
  <2> QED
    BY <1>4, <2>4
<1>8. at \in SUBSET DOMAIN queue.done
  BY <1>1
<1> QED
  BY <1>1, <1>3, <1>5, <1>6, <1>7, <1>8 DEF waiting, at

\* Entries at go out under the tokens run...
Starts(old, new, at, run) ==
  /\ new.state = old.state /\ new.lent = old.lent
  /\ new.queue.awaiting = old.queue.awaiting
  /\ new.queue.remaining = old.queue.remaining
  /\ DOMAIN new.queue.done = DOMAIN old.queue.done
  /\ \A i \in DOMAIN old.queue.done :
       /\ new.queue.done[i].start = old.queue.done[i].start
       /\ i \in at => new.queue.done[i].state = Running(run[i])
       /\ i \notin at => new.queue.done[i].state = old.queue.done[i].state

\* ... which are those of the statements more.
Carries(old, at, run, more) ==
  /\ \A u \in more : \E i \in at : /\ u.id = run[i] /\ u.lane = old.state.run
                                  /\ u.job.start = old.queue.done[i].start
  /\ \A i \in at : \E u \in more : /\ u.id = run[i] /\ u.lane = old.state.run
                                  /\ u.job.start = old.queue.done[i].start

\* The tab is on the lanes started, with those it had.
LEMMA LanesStarted ==
  ASSUME NEW old, NEW own, Plainly(old), Lanes(old, own), old.state.run # NoRun,
         NEW at \in SUBSET WaitingIn(old.queue.done), at # {},
         NEW new, NEW run, NEW more, Starts(old, new, at, run), Carries(old, at, run, more)
  PROVE  Owned(new, own \cup more)
<1> DEFINE done == old.queue.done
           next == new.queue.done
           all == own \cup more
<1>1. /\ \A i : IsRunning(Running(run[i])) /\ Running(run[i]).run = run[i]
      /\ \A i : Bare(Running(run[i]))
  BY DEF Running, IsRunning, Bare
<1>2. at \in SUBSET DOMAIN done /\ \A i \in at : Out(done[i].state) /\ ~IsRunning(done[i].state)
  BY DEF WaitingIn, Out, IsRunning
<1>3. \A i \in DOMAIN done : Out(next[i].state) <=> Out(done[i].state)
  BY <1>1, <1>2 DEF Out, IsRunning, Starts
<1>4. \A i \in DOMAIN done : IsFirst(done, i) <=> IsFirst(next, i)
  <2>1. DOMAIN next = DOMAIN done /\ \A i \in DOMAIN done : next[i].start = done[i].start
    BY DEF Starts
  <2> HIDE DEF done, next
  <2> QED
    BY <2>1 DEF IsFirst
<1>5. Backed(done, old.state.run, own) /\ AllBare(done)
  BY DEF Lanes, Plainly
<1>6. AllBare(next)
  BY <1>1, <1>5 DEF AllBare, Starts
<1>7. Backed(next, old.state.run, all)
  <2>1. SUFFICES ASSUME NEW i \in DOMAIN next
                 PROVE  /\ Out(next[i].state) => IsFirst(next, i)
                        /\ IsRunning(next[i].state) =>
                             \E u \in all : /\ u.id = next[i].state.run /\ u.lane = old.state.run
                                            /\ u.job.start = next[i].start
    BY DEF Backed
  <2>2. i \in DOMAIN done /\ next[i].start = done[i].start
    BY DEF Starts
  <2>3. Out(next[i].state) => IsFirst(next, i)
    <3>1. Out(done[i].state) => IsFirst(done, i)
      BY <1>5, <2>2 DEF Backed
    <3> QED
      BY <1>3, <1>4, <2>2, <3>1
  <2>4. CASE i \in at
    <3>1. next[i].state.run = run[i]
      BY <1>1, <2>2, <2>4 DEF Starts
    <3>2. \E u \in more : /\ u.id = run[i] /\ u.lane = old.state.run
                           /\ u.job.start = done[i].start
      BY <2>4 DEF Carries
    <3> QED
      BY <2>3, <2>2, <3>1, <3>2
  <2>5. CASE i \notin at
    <3>1. next[i].state = done[i].state
      BY <2>2, <2>5 DEF Starts
    <3>2. IsRunning(done[i].state) =>
            \E u \in own : /\ u.id = done[i].state.run /\ u.lane = old.state.run
                           /\ u.job.start = done[i].start
      BY <1>5, <2>2 DEF Backed
    <3> QED
      BY <2>3, <2>2, <3>1, <3>2
  <2> QED
    BY <2>4, <2>5
<1>8. ASSUME NEW u \in all
      PROVE  /\ u.lane # NoRun
             /\ u.live => u.lane = old.state.run /\ InEntry(next, u)
  <2>1. CASE u \in more
    <3>1. PICK i \in at : /\ u.id = run[i] /\ u.lane = old.state.run
                          /\ u.job.start = done[i].start
      BY <2>1 DEF Carries
    <3>2. IsFirst(next, i) /\ i \in DOMAIN next
      BY <1>2, <1>4, <1>5, <3>1 DEF Backed, Starts
    <3>3. next[i].state = Running(run[i]) /\ next[i].start = done[i].start
      BY <1>2, <3>1 DEF Starts
    <3>4. InEntry(next, u)
      BY <1>1, <3>1, <3>2, <3>3 DEF InEntry
    <3> QED
      BY <3>1, <3>4
  <2>2. CASE u \in own
    <3>1. u.lane # NoRun /\ (u.live => u.lane = old.state.run /\ InEntry(done, u))
      BY <2>2 DEF Lanes
    <3>2. ASSUME InEntry(done, u) PROVE InEntry(next, u)
      <4>1. PICK i \in DOMAIN done : /\ IsFirst(done, i) /\ done[i].start = u.job.start
                                     /\ IsRunning(done[i].state) /\ done[i].state.run = u.id
        BY <3>2 DEF InEntry
      <4>2. i \notin at /\ next[i].state = done[i].state /\ next[i].start = done[i].start
        BY <1>2, <4>1 DEF Starts
      <4>3. i \in DOMAIN next
        BY <4>1 DEF Starts
      <4> QED
        BY <1>4, <4>1, <4>2, <4>3 DEF InEntry
    <3> QED
      BY <3>1, <3>2
  <2> QED
    BY <2>1, <2>2
<1>9. Lanes(new, all)
  <2>1. IsRunning(new.state) /\ new.state.run = old.state.run
        /\ ~new.queue.awaiting /\ new.queue.remaining = <<>>
    BY DEF Lanes, Starts
  <2> HIDE DEF all, done, next
  <2> QED
    BY <1>7, <1>8, <2>1 DEF Lanes, next
<1>10. Plainly(new)
  BY <1>6 DEF Plainly, Starts
<1>11. \E u \in all : u.lane = new.state.run
  BY DEF Carries, Starts
<1> QED
  BY <1>9, <1>10, <1>11 DEF Owned, OnLanes

\* Lanes of a tab, each live and under a free token.
FreshLanes(s, p, t, more) ==
  /\ \A u \in more : /\ u.id \in FreeRuns(s) /\ u.profile = p /\ u.tab = t
                    /\ u.live = TRUE /\ u.lane = s.tab[p][t].state.run
  /\ \A u, v \in more : u.id = v.id => u = v

\* A session with a tab replaced and more statements out.
Sends(s, r, p, t, new, more) ==
  /\ \A q \in Profiles, x \in Tabs :
       r.tab[q][x] = IF q = p /\ x = t THEN new ELSE s.tab[q][x]
  /\ r.tasks = s.tasks \cup more

\* ... in a session.
LEMMA LanesAdded ==
  ASSUME NEW s \in Session, NEW p \in Profiles, NEW t \in Tabs, NEW new, NEW more, NEW r,
         Accounted(s, {<<p, t>>}), new.state = s.tab[p][t].state,
         Lanes(s.tab[p][t], Own(s, p, t)), Owned(new, Own(s, p, t) \cup more),
         \A u \in Own(s, p, t) : u.lane = s.tab[p][t].state.run => u.live = TRUE,
         FreshLanes(s, p, t, more), Sends(s, r, p, t, new, more)
  PROVE  Accounted(r, {})
<1> DEFINE own == Own(s, p, t)
           run == s.tab[p][t].state.run
<1>1. \A v \in s.tasks : v.id # run
  <2>1. SUFFICES ASSUME NEW v \in s.tasks, v.id = run
                 PROVE  FALSE
    OBVIOUS
  <2>2. v \in own /\ v.lane = NoRun
    BY <2>1 DEF Accounted, Ids, Own
  <2> QED
    BY <2>2 DEF Lanes
<1>2. \A u \in more : u.id # run
  BY FreeMeans DEF FreshLanes
<1>3. \A q \in Profiles, x \in Tabs : r.tab[q][x].state.run = s.tab[q][x].state.run
  BY DEF Sends
<1>4. Joins(s, r, more)
  <2>1. \A u \in more, v \in s.tasks \cup more : u.lane # v.id
    BY <1>1, <1>2 DEF FreshLanes
  <2>2. ASSUME NEW u \in more, NEW v \in s.tasks \cup more,
               u.lane = v.lane, u.profile = v.profile, u.tab = v.tab
        PROVE  u.live = v.live
    <3>1. CASE v \in more
      BY <3>1 DEF FreshLanes
    <3>2. CASE v \in s.tasks
      BY <2>2, <3>2 DEF Own, FreshLanes
    <3> QED
      BY <2>2, <3>1, <3>2
  <2>3. ASSUME NEW q \in Profiles, NEW x \in Tabs, NEW u \in r.tasks,
               u.id = r.tab[q][x].state.run
        PROVE  u.profile = q /\ u.tab = x /\ u.lane = NoRun
    <3>1. CASE u \in more
      BY <1>3, <2>3, <3>1, FreeMeans DEF FreshLanes
    <3>2. CASE u \in s.tasks
      <4>1. u.id = s.tab[q][x].state.run
        BY <1>3, <2>3
      <4> QED
        BY <3>2, <4>1 DEF Accounted, Ids
    <3> QED
      BY <2>3, <3>1, <3>2 DEF Sends
  <2> QED
    BY <2>1, <2>2, <2>3 DEF Joins, FreshLanes, Sends
<1>5. Ids(r)
  BY <1>4, IdsAdded DEF Accounted
<1>6. ASSUME NEW q \in Profiles, NEW x \in Tabs
      PROVE  Owned(r.tab[q][x], Own(r, q, x))
  <2>1. CASE q = p /\ x = t
    <3>1. Own(r, q, x) = own \cup more
      BY <2>1 DEF Own, FreshLanes, Sends
    <3> QED
      BY <2>1, <3>1 DEF Sends
  <2>2. CASE ~(q = p /\ x = t)
    <3>1. Own(r, q, x) = Own(s, q, x)
      BY <2>2 DEF Own, FreshLanes, Sends
    <3> QED
      BY <2>2, <3>1 DEF Accounted, Sends
  <2> QED
    BY <2>1, <2>2
<1> QED
  BY <1>5, <1>6 DEF Accounted

\* A tab running its queue at once, with whatever of it has been taken back
\* already accounted for.
Ready(s, p, t) ==
  LET tb == s.tab[p][t]
  IN  /\ Accounted(s, {<<p, t>>}) /\ Plainly(tb) /\ Lanes(tb, Own(s, p, t))
      /\ tb.state.run # NoRun
      /\ \A u \in Own(s, p, t) : u.lane = tb.state.run => u.live = TRUE

\* Lanes that start are out under tokens of their own.
LEMMA StartLanesAccounted ==
  ASSUME NEW s \in Session, NEW p \in Profiles, NEW t \in Tabs, Ready(s, p, t),
         NEW at \in SUBSET WaitingIn(s.tab[p][t].queue.done), at # {},
         Cardinality(FreeRuns(s)) >= Cardinality(at)
  PROVE  Accounted(StartLanes(s, p, t, at), {})
<1> DEFINE tb == s.tab[p][t]
           n == Cardinality(at)
           fresh == FreshRuns(s, n)
           run == [i \in at |-> fresh[RankIn(at, i)]]
           grids == {tb.queue.done[i].grid : i \in at}
           lane(i) == [id |-> fresh[RankIn(at, i)], profile |-> p, tab |-> t, live |-> TRUE,
                       lane |-> tb.state.run, job |-> Ask(tb.queue.done[i].start, Batch),
                       grid |-> tb.queue.done[i].grid]
           more == {lane(i) : i \in at}
           done == [i \in DOMAIN tb.queue.done |->
                      IF i \in at
                      THEN [tb.queue.done[i] EXCEPT !.state = Running(fresh[RankIn(at, i)])]
                      ELSE tb.queue.done[i]]
           rows == [g \in Grids |-> IF g \in grids THEN Empty ELSE tb.rows[g]]
           new == [tb EXCEPT !.queue.done = done, !.rows = rows]
           r == [s EXCEPT !.tab[p][t] = new, !.tasks = @ \cup more]
<1>1. r = StartLanes(s, p, t, at)
  BY DEF StartLanes, RankIn
<1>2. tb \in Tab /\ tb.queue \in Queue /\ \A i \in DOMAIN tb.queue.done : tb.queue.done[i] \in Finished
  BY SessionParts, TabParts, QueueParts
<1>3. at \in SUBSET DOMAIN tb.queue.done
  BY DEF WaitingIn
<1>4. /\ at \in SUBSET Nat /\ IsFiniteSet(at) /\ n \in Nat
      /\ \A i \in at : RankIn(at, i) \in 1..n
      /\ \A i, j \in at : RankIn(at, i) = RankIn(at, j) => i = j
  <2> HIDE DEF tb
  <2> QED
    BY <1>2, <1>3, Positions, RankInjective
<1>5. fresh \in Injection(1..n, FreeRuns(s))
  BY <1>4, FreshRunsFree
<1> HIDE DEF fresh, n
<1>6. /\ \A i \in at : run[i] = fresh[RankIn(at, i)] /\ run[i] \in FreeRuns(s)
      /\ \A i, j \in at : run[i] = run[j] => i = j
  BY <1>4, <1>5 DEF Injection, IsInjective
<1>7. new.state = tb.state /\ new.lent = tb.lent /\ new.queue = [tb.queue EXCEPT !.done = done]
  <2> HIDE DEF tb, done, rows
  <2> QED
    BY <1>2 DEF Tab
<1>8. /\ new.queue.done = done /\ new.queue.awaiting = tb.queue.awaiting
      /\ new.queue.remaining = tb.queue.remaining
  <2> HIDE DEF tb, done, new
  <2> QED
    BY <1>2, <1>7 DEF Queue
<1>9. Starts(tb, new, at, run)
  <2>1. /\ DOMAIN done = DOMAIN tb.queue.done
        /\ \A i \in DOMAIN tb.queue.done :
             /\ done[i].start = tb.queue.done[i].start
             /\ i \in at => done[i].state = Running(run[i])
             /\ i \notin at => done[i].state = tb.queue.done[i].state
    <3> HIDE DEF tb
    <3> QED
      BY <1>2, <1>6 DEF Finished
  <2> HIDE DEF done, new, tb, run
  <2> QED
    BY <1>7, <1>8, <2>1 DEF Starts
<1>10. \A i \in at : /\ lane(i).id = run[i] /\ lane(i).profile = p /\ lane(i).tab = t
                     /\ lane(i).live = TRUE /\ lane(i).lane = tb.state.run
                     /\ lane(i).job.start = tb.queue.done[i].start
  <2>1. \A start, from : Ask(start, from).start = start
    BY DEF Ask
  <2> HIDE DEF tb
  <2> QED
    BY <1>6, <2>1
<1>11. Carries(tb, at, run, more)
  <2> HIDE DEF lane, run, tb
  <2> QED
    BY <1>10 DEF Carries
<1>12. /\ \A u \in more : /\ u.id \in FreeRuns(s) /\ u.profile = p /\ u.tab = t
                          /\ u.live = TRUE /\ u.lane = tb.state.run
       /\ \A u, v \in more : u.id = v.id => u = v
  <2> HIDE DEF lane, run, tb
  <2> QED
    BY <1>6, <1>10
<1>13. /\ \A q \in Profiles, x \in Tabs :
            r.tab[q][x] = IF q = p /\ x = t THEN new ELSE s.tab[q][x]
       /\ r.tasks = s.tasks \cup more
  <2> HIDE DEF new, more
  <2> QED
    BY DEF Session
<1>14. Owned(new, Own(s, p, t) \cup more)
  <2> HIDE DEF new, more, run
  <2> QED
    BY <1>9, <1>11, LanesStarted DEF Ready
<1>15. Accounted(r, {})
  <2>1. FreshLanes(s, p, t, more) /\ Sends(s, r, p, t, new, more)
    BY <1>12, <1>13 DEF FreshLanes, Sends
  <2> HIDE DEF r, new, more
  <2> QED
    BY <1>7, <1>14, <2>1, LanesAdded DEF Ready
<1> QED
  BY <1>1, <1>15

\* Without a connection nothing goes out.
LEMMA FailLanesAccounted ==
  ASSUME NEW s \in Session, NEW p \in Profiles, NEW t \in Tabs, Ready(s, p, t)
  PROVE  Accounted(FailLanes(s, p, t), {})
<1> DEFINE tb == s.tab[p][t]
           own == Own(s, p, t)
           failed == LanesFailed(tb)
           done == [i \in DOMAIN tb.queue.done |->
                      IF tb.queue.done[i].state.kind = "Idle"
                      THEN [tb.queue.done[i] EXCEPT !.state = Ended("Failed")]
                      ELSE tb.queue.done[i]]
           left == IF AtOnce(failed.queue) THEN failed ELSE HandBack(failed)
<1>1. tb \in Tab /\ tb.queue \in Queue /\ \A i \in DOMAIN tb.queue.done : tb.queue.done[i] \in Finished
  BY SessionParts, TabParts, QueueParts
<1>2. failed \in Tab /\ failed.lent = tb.lent
  BY <1>1, LanesFailedType
<1>3. failed = [tb EXCEPT !.queue = [tb.queue EXCEPT !.done = done]]
  BY <1>1 DEF LanesFailed, Tab, Queue
<1>4. /\ failed.state = tb.state
      /\ failed.queue.done = done /\ failed.queue.awaiting = tb.queue.awaiting
      /\ failed.queue.remaining = tb.queue.remaining
  <2> HIDE DEF tb, done, failed
  <2> QED
    BY <1>1, <1>3 DEF Tab, Queue
<1>5. Plainly(tb) /\ Lanes(tb, own)
  BY DEF Ready
<1>6. Bare(Ended("Failed")) /\ ~Out(Ended("Failed")) /\ ~IsRunning(Ended("Failed"))
  BY DEF Ended, Bare, Out, IsRunning
<1>7. /\ DOMAIN done = DOMAIN tb.queue.done
      /\ \A i \in DOMAIN done :
           /\ done[i].start = tb.queue.done[i].start
           /\ \/ done[i].state = Ended("Failed") /\ ~IsRunning(tb.queue.done[i].state)
              \/ done[i].state = tb.queue.done[i].state /\ done[i].state.kind # "Idle"
  <2> HIDE DEF tb
  <2> QED
    BY <1>1 DEF Finished, IsRunning
<1> HIDE DEF done, failed, tb, own
<1>8. AllBare(done)
  BY <1>5, <1>6, <1>7 DEF AllBare, Plainly
<1>9. \A i \in DOMAIN done : IsFirst(done, i) <=> IsFirst(tb.queue.done, i)
  BY <1>7 DEF IsFirst
<1>10. Backed(done, tb.state.run, own)
  <2>1. SUFFICES ASSUME NEW i \in DOMAIN done, Out(done[i].state)
                 PROVE  /\ IsFirst(done, i)
                        /\ IsRunning(done[i].state) =>
                             \E u \in own : /\ u.id = done[i].state.run /\ u.lane = tb.state.run
                                            /\ u.job.start = done[i].start
    BY DEF Backed, Out, IsRunning
  <2>2. done[i].state = tb.queue.done[i].state /\ done[i].start = tb.queue.done[i].start
        /\ i \in DOMAIN tb.queue.done
    BY <1>6, <1>7, <2>1
  <2>3. Backed(tb.queue.done, tb.state.run, own)
    BY <1>5 DEF Lanes
  <2> QED
    BY <1>9, <2>1, <2>2, <2>3 DEF Backed
<1>11. \A u : InEntry(tb.queue.done, u) => InEntry(done, u)
  <2>1. SUFFICES ASSUME NEW u, InEntry(tb.queue.done, u)
                 PROVE  InEntry(done, u)
    OBVIOUS
  <2>2. PICK i \in DOMAIN tb.queue.done :
           /\ IsFirst(tb.queue.done, i) /\ tb.queue.done[i].start = u.job.start
           /\ IsRunning(tb.queue.done[i].state) /\ tb.queue.done[i].state.run = u.id
    BY <2>1 DEF InEntry
  <2>3. i \in DOMAIN done /\ done[i].state = tb.queue.done[i].state
        /\ done[i].start = tb.queue.done[i].start
    BY <1>7, <2>2
  <2> QED
    BY <1>9, <2>2, <2>3 DEF InEntry
<1>12. Plainly(failed) /\ Lanes(failed, own)
  BY <1>2, <1>4, <1>5, <1>8, <1>10, <1>11 DEF Plainly, Lanes
<1>13. WaitingIn(failed.queue.done) = {}
  BY <1>4, <1>7 DEF WaitingIn, Ended
<1>14. Owned(left, own) /\ (left.state.run = tb.state.run \/ left.state.run = NoRun)
  <2>1. CASE AtOnce(failed.queue)
    BY <1>4, <1>12, <1>13, <2>1, SomethingOut DEF Owned
  <2>2. CASE ~AtOnce(failed.queue)
    BY <1>2, <1>12, <2>2, HandBackOwned
  <2> QED
    BY <2>1, <2>2
<1>15. FailLanes(s, p, t) = [s EXCEPT !.tab[p][t] = left]
  BY DEF FailLanes, LanesFailed, failed, tb
<1> HIDE DEF left
<1>16. Accounted([s EXCEPT !.tab[p][t] = left], {})
  BY <1>14, TabAccounted DEF tb, own, Ready
<1> QED
  BY <1>15, <1>16

\* start_lane, whatever the connection.
LEMMA StartWaitingAccounted ==
  ASSUME NEW s \in Session, NEW p \in Profiles, NEW t \in Tabs, NEW n \in Nat \ {0},
         Ready(s, p, t), AtOnce(s.tab[p][t].queue),
         Cardinality(FreeRuns(s)) >= Cardinality(Started(s.tab[p][t].queue.done, n))
  PROVE  Accounted(StartWaiting(s, p, t, n), {})
<1> DEFINE tb == s.tab[p][t]
           waiting == WaitingIn(tb.queue.done)
           at == Started(tb.queue.done, n)
<1>1. tb.queue \in Queue
  BY SessionParts, TabParts
<1>2. Busy(s, p, t)
  BY DEF Ready, Lanes, Busy
<1>3. StartWaiting(s, p, t, n) =
        IF waiting = {} THEN s
        ELSE IF s.conn[p] # "Connected" THEN FailLanes(s, p, t)
        ELSE StartLanes(s, p, t, at)
  BY <1>2 DEF StartWaiting, Started, RankIn
<1>4. CASE waiting = {}
  <2>1. Owned(tb, Own(s, p, t))
    BY <1>4, SomethingOut DEF Ready, Owned
  <2>2. Accounted(s, {})
    BY <2>1 DEF Ready, Accounted
  <2> QED
    BY <1>3, <1>4, <2>2
<1>5. CASE waiting # {}
  <2>1. at \in SUBSET waiting /\ at # {}
    BY <1>1, <1>5, StartedCount
  <2> HIDE DEF at
  <2>2. Accounted(StartLanes(s, p, t, at), {})
    BY <2>1, StartLanesAccounted DEF at
  <2> QED
    BY <1>3, <1>5, <2>2, FailLanesAccounted
<1> QED
  BY <1>4, <1>5

\* A tab replaced by one on the same run, on none, or on a token of its own.
LEMMA OutAccounted ==
  ASSUME NEW s \in Session, NEW p \in Profiles, NEW t \in Tabs, NEW tb,
         Accounted(s, {<<p, t>>}) \/ Accounted(s, {}),
         \/ tb.state.run = s.tab[p][t].state.run
         \/ tb.state.run = NoRun
         \/ tb.state.run \in FreeRuns(s)
  PROVE  /\ Accounted([s EXCEPT !.tab[p][t] = tb], {<<p, t>>})
         /\ Own([s EXCEPT !.tab[p][t] = tb], p, t) = Own(s, p, t)
         /\ [s EXCEPT !.tab[p][t] = tb].tab[p][t] = tb
<1> DEFINE r == [s EXCEPT !.tab[p][t] = tb]
<1>1. \A q \in Profiles, u \in Tabs :
        r.tab[q][u] = IF q = p /\ u = t THEN tb ELSE s.tab[q][u]
  BY DEF Session
<1>2. r.tasks = s.tasks
  BY DEF Session
<1>3. \A u \in s.tasks : u.id # NoRun /\ u.id \notin FreeRuns(s)
  BY TaskParts, FreeMeans
<1> HIDE DEF r
<1>4. \A q \in Profiles, x \in Tabs : \A u \in r.tasks :
        u.id = r.tab[q][x].state.run => u.profile = q /\ u.tab = x /\ u.lane = NoRun
  <2>1. SUFFICES ASSUME NEW q \in Profiles, NEW x \in Tabs, NEW u \in s.tasks,
                        u.id = r.tab[q][x].state.run
                 PROVE  u.profile = q /\ u.tab = x /\ u.lane = NoRun
    BY <1>2
  <2>2. u.id = s.tab[q][x].state.run
    BY <1>1, <1>3, <2>1
  <2> QED
    BY <2>2 DEF Accounted, Ids
<1>5. Ids(r)
  BY <1>2, <1>4 DEF Accounted, Ids
<1>6. \A q \in Profiles, u \in Tabs : Own(r, q, u) = Own(s, q, u)
  BY <1>2 DEF Own
<1>7. ASSUME NEW q \in Profiles, NEW u \in Tabs, <<q, u>> \notin {<<p, t>>}
      PROVE  Owned(r.tab[q][u], Own(r, q, u))
  <2>1. r.tab[q][u] = s.tab[q][u]
    BY <1>1, <1>7
  <2>2. Owned(s.tab[q][u], Own(s, q, u))
    BY <1>7 DEF Accounted
  <2> QED
    BY <1>6, <2>1, <2>2
<1>8. Accounted(r, {<<p, t>>})
  BY <1>5, <1>7 DEF Accounted
<1> QED
  BY <1>1, <1>6, <1>8 DEF r

LEMMA FreeCount ==
  ASSUME NEW s
  PROVE  /\ IsFiniteSet(FreeRuns(s)) /\ Cardinality(FreeRuns(s)) \in Nat
         /\ FreeRuns(s) # {} => Cardinality(FreeRuns(s)) >= 1
<1>1. IsFiniteSet(FreeRuns(s)) /\ Cardinality(FreeRuns(s)) \in Nat
  BY RunsAssumption, FS_Subset, FS_CardinalityType DEF FreeRuns
<1> QED
  BY <1>1, FS_EmptySet

\* A lane that has landed lets the next out, or the tab go.
LEMMA LandLaneAccounted ==
  ASSUME NEW s \in Session, NEW p \in Profiles, NEW t \in Tabs, NEW start \in Sent,
         NEW sets \in Nat \ {0}, Ready(s, p, t), FreeRuns(s) # {},
         \A i \in DOMAIN s.tab[p][t].queue.done :
           s.tab[p][t].queue.done[i].start = start => ~Out(s.tab[p][t].queue.done[i].state)
  PROVE  Accounted(LandLane(s, p, t, start, sets), {})
<1> DEFINE tb == s.tab[p][t]
           own == Own(s, p, t)
           landed == LaneLanded(tb, start, sets)
           r == [s EXCEPT !.tab[p][t] = landed]
<1>1. tb \in Tab /\ landed \in Tab
  BY SessionParts, LaneLandedType
<1>2. /\ Plainly(landed) /\ Lanes(landed, own)
      /\ landed.state = tb.state /\ landed.lent = tb.lent
      /\ landed.queue = LandSets(tb.queue, Lane(tb.queue, start) + 1, start, sets)
  <2> HIDE DEF tb, own, landed
  <2>1. Plainly(tb) /\ Lanes(tb, own)
    BY DEF Ready, tb, own
  <2>2. \A i \in DOMAIN tb.queue.done :
          tb.queue.done[i].start = start => ~Out(tb.queue.done[i].state)
    BY DEF tb
  <2> QED
    BY <1>1, <2>1, <2>2, LaneLandedOwned DEF landed
<1>3. LandLane(s, p, t, start, sets) =
        IF AtOnce(landed.queue) THEN StartWaiting(r, p, t, 1)
        ELSE [s EXCEPT !.tab[p][t] = HandBack(landed)]
  BY <1>2 DEF LandLane, LaneLanded
<1> HIDE DEF landed
<1>4. r \in Session /\ r.tab[p][t] = landed
  BY <1>1, TabReplaced
<1>5. Accounted(s, {<<p, t>>})
  BY DEF Ready
<1>6. CASE AtOnce(landed.queue)
  <2>1. Accounted(r, {<<p, t>>}) /\ Own(r, p, t) = own
    <3> HIDE DEF own, r
    <3> QED
      BY <1>2, <1>5, OutAccounted DEF own, r
  <2>2. Ready(r, p, t)
    <3>1. landed.state.run # NoRun /\ \A u \in own : u.lane = landed.state.run => u.live = TRUE
      BY <1>2 DEF Ready
    <3> HIDE DEF own, r
    <3> QED
      BY <1>2, <1>4, <2>1, <3>1 DEF Ready
  <2>3. FreeRuns(r) # {}
    BY <1>2, SameFree
  <2>4. /\ Cardinality(FreeRuns(r)) \in Nat
        /\ Cardinality(FreeRuns(r)) >= 1
    <3> HIDE DEF r
    <3> QED
      BY <2>3, FreeCount
  <2>5. /\ Cardinality(Started(landed.queue.done, 1)) \in Nat
        /\ Cardinality(Started(landed.queue.done, 1)) <= 1
    <3>1. landed.queue \in Queue
      BY <1>1, TabParts
    <3> DEFINE n == 1
    <3>2. n \in Nat \ {0}
      OBVIOUS
    <3> HIDE DEF n
    <3>3. /\ Cardinality(Started(landed.queue.done, n)) \in Nat
          /\ Cardinality(Started(landed.queue.done, n)) <= n
      BY <3>1, <3>2, StartedCount
    <3> QED
      BY <3>3 DEF n
  <2>6. Cardinality(FreeRuns(r)) >= Cardinality(Started(r.tab[p][t].queue.done, 1))
    <3> HIDE DEF r
    <3> QED
      BY <1>4, <2>4, <2>5
  <2> HIDE DEF r
  <2>7. Accounted(StartWaiting(r, p, t, 1), {})
    BY <1>4, <1>6, <2>2, <2>6, StartWaitingAccounted
  <2> QED
    BY <1>3, <1>6, <2>7
<1>7. CASE ~AtOnce(landed.queue)
  <2>1. Owned(HandBack(landed), own) /\ HandBack(landed).state.run = NoRun
    BY <1>1, <1>2, <1>7, HandBackOwned
  <2>2. Accounted([s EXCEPT !.tab[p][t] = HandBack(landed)], {})
    BY <1>5, <2>1, TabAccounted
  <2> QED
    BY <1>3, <1>7, <2>2
<1> QED
  BY <1>6, <1>7

-----------------------------------------------------------------------------
(* A queue run in turn.                                                    *)

LEMMA WidensBare ==
  ASSUME NEW done, NEW all, NEW start, NEW f, Widens(done, all, start, f), AllBare(done)
  PROVE  AllBare(all)
<1>1. Bare(Ended("Complete"))
  BY EndedIsBare DEF Kinds
<1> QED
  BY <1>1 DEF Widens, AllBare

LEMMA WidensOut ==
  ASSUME NEW done, NEW all, NEW start, NEW f, Widens(done, all, start, f),
         NEW i \in DOMAIN all, Out(all[i].state)
  PROVE  \E j \in DOMAIN done : Out(done[j].state)
BY DEF Widens, Ended, Out

\* A tab in the same run that is on no lanes, whatever has become of its queue.
LEMMA InTurnAccounted ==
  ASSUME NEW s \in Session, NEW p \in Profiles, NEW t \in Tabs, NEW tb,
         Accounted(s, {}), ~Lanes(s.tab[p][t], Own(s, p, t)),
         tb.state = s.tab[p][t].state, tb.lent = s.tab[p][t].lent, AllBare(tb.queue.done),
         AllIn(s.tab[p][t].queue) => AllIn(tb.queue)
  PROVE  /\ Accounted([s EXCEPT !.tab[p][t] = tb], {})
         /\ FreeRuns(s) \subseteq FreeRuns([s EXCEPT !.tab[p][t] = tb])
<1>1. Owned(s.tab[p][t], Own(s, p, t))
  BY DEF Accounted
<1>2. Alike(s.tab[p][t].state, tb.state)
  BY DEF Alike
<1>3. Owned(tb, Own(s, p, t))
  BY <1>1, <1>2, QuietTab
<1> QED
  BY <1>3, TabAccounted, SameFree

\* A queue run in turn has no lanes.
LEMMA InTurn ==
  ASSUME NEW tb, NEW own, tb.queue.awaiting \/ tb.queue.remaining # <<>>
  PROVE  ~Lanes(tb, own)
BY DEF Lanes

\* The next statement of a queue goes out in the slot.
LEMMA SendNextStatementAccounted ==
  ASSUME NEW s \in Session, NEW p \in Profiles, NEW t \in Tabs,
         Accounted(s, {}), FreeRuns(s) # {}
  PROVE  Accounted(SendNextStatement(s, p, t), {})
<1> DEFINE tb == s.tab[p][t]
           next == tb.queue.remaining[1]
           popped == Popped(tb)
           r == [s EXCEPT !.tab[p][t] = popped]
<1>1. CASE tb.queue.remaining = <<>>
  BY <1>1 DEF SendNextStatement
<1>2. CASE tb.queue.remaining # <<>>
  <2>1. tb \in Tab /\ tb.queue \in Queue
    BY SessionParts, TabParts
  <2>2. next \in Sent /\ popped \in Tab /\ popped.lent = tb.lent
    BY <1>2, <2>1, PoppedType
  <2>3. popped.state = tb.state /\ popped.queue.done = tb.queue.done
    <3> DEFINE grid == IF tb.queue.spare # <<>> THEN Last(tb.queue.spare) ELSE tb.grid
               showing == IF tb.queue.showing >= Len(tb.queue.done)
                          THEN Len(tb.queue.done) + 1 ELSE tb.queue.showing
               queue == [tb.queue EXCEPT !.remaining = Tail(@), !.awaiting = TRUE,
                           !.showing = showing, !.spare = SparesLeft(tb.queue)]
    <3>1. popped = [tb EXCEPT !.grid = grid, !.queue = queue]
      BY DEF Popped
    <3>2. queue.done = tb.queue.done
      <4> HIDE DEF tb, showing
      <4> QED
        BY <2>1 DEF Queue
    <3> HIDE DEF popped, tb, grid, queue
    <3> QED
      BY <2>1, <3>1, <3>2 DEF Tab
  <2>4. AllBare(popped.queue.done)
    BY <2>3 DEF Accounted, Owned, Plainly
  <2>5. ~Lanes(tb, Own(s, p, t))
    BY <1>2, InTurn
  <2>6. SendNextStatement(s, p, t) = ExecuteAndThen(r, p, t, Ask(next, next))
    BY <1>2 DEF SendNextStatement, Popped
  <2>7. Ask(next, next) \in Job
    BY <2>2, AskType
  <2> HIDE DEF popped
  <2>8. r \in Session
    BY <2>2, TabReplaced
  <2>9. Accounted(r, {}) /\ FreeRuns(s) \subseteq FreeRuns(r)
    <3>1. AllIn(tb.queue) => AllIn(popped.queue)
      BY <2>3 DEF AllIn, AtOnce
    <3> QED
      BY <2>2, <2>3, <2>4, <2>5, <3>1, InTurnAccounted
  <2> HIDE DEF r, next
  <2>10. FreeRuns(r) # {}
    BY <2>9
  <2> QED
    BY <2>6, <2>7, <2>8, <2>9, <2>10, ExecuteAndThenAccounted
<1> QED
  BY <1>1, <1>2

\* What a statement that lands in its queue makes of the tab.
LEMMA AdvancedParts ==
  ASSUME NEW tb \in Tab, NEW sets \in Nat \ {0}
  PROVE  LET new == Advanced(tb, sets)
             done == Append(tb.queue.done,
                            [start |-> tb.ran, set |-> 1, state |-> tb.state, grid |-> tb.grid])
         IN  /\ new.state = tb.state /\ new.lent = tb.lent /\ new.ran = tb.ran
             /\ new.queue.remaining = tb.queue.remaining /\ ~new.queue.awaiting
             /\ new.queue.done \in Seq(Finished) /\ done \in Seq(Finished)
             /\ \E f : Widens(done, new.queue.done, tb.ran, f)
<1> DEFINE entry == [start |-> tb.ran, set |-> 1, state |-> tb.state, grid |-> tb.grid]
           following == tb.queue.showing > Len(tb.queue.done)
           done == Append(tb.queue.done, entry)
           pushed == [tb.queue EXCEPT !.awaiting = FALSE, !.done = done]
           at == Len(pushed.done) + 1
           queue == LandSets(pushed, at, tb.ran, sets)
           showing == IF following THEN Len(queue.done) ELSE queue.showing
           moved == [queue EXCEPT !.showing = showing]
           landed == [tb EXCEPT !.queue = moved]
<1>1. tb.queue \in Queue /\ tb.ran \in Sent /\ tb.queue.done \in Seq(Finished)
  BY TabParts, QueueParts
<1>2. entry \in Finished
  BY TabParts DEF Finished
<1>3. done \in Seq(Finished)
  <2> HIDE DEF entry
  <2> QED
    BY <1>1, <1>2, AppendProperties
<1>4. /\ pushed \in Queue /\ pushed.done = done
      /\ pushed.remaining = tb.queue.remaining /\ ~pushed.awaiting
  <2> HIDE DEF done
  <2> QED
    BY <1>1, <1>3 DEF Queue
<1>5. at \in 1..Len(pushed.done) + 1
  <2>1. Len(pushed.done) \in Nat
    <3> HIDE DEF pushed
    <3> QED
      BY <1>4, QueueParts
  <2> HIDE DEF pushed
  <2> QED
    BY <2>1
<1>6. /\ queue \in Queue
      /\ queue.remaining = tb.queue.remaining /\ ~queue.awaiting
      /\ \E f : Widens(done, queue.done, tb.ran, f)
  <2> HIDE DEF pushed, at, done
  <2>1. queue \in Queue
    BY <1>1, <1>4, <1>5, LandSetsType
  <2>2. /\ queue.remaining = pushed.remaining /\ queue.awaiting = pushed.awaiting
        /\ \E f : Widens(pushed.done, queue.done, tb.ran, f)
    BY <1>1, <1>4, <1>5, LandSetsParts
  <2> HIDE DEF queue
  <2> QED
    BY <1>4, <2>1, <2>2
<1>7. /\ moved \in Queue /\ moved.done = queue.done
      /\ moved.remaining = queue.remaining /\ moved.awaiting = queue.awaiting
  <2>1. showing \in Nat
    <3> HIDE DEF queue, following
    <3> QED
      BY <1>6, QueueParts
  <2> HIDE DEF queue, showing
  <2> QED
    BY <1>6, <2>1 DEF Queue
<1>8. /\ landed \in Tab /\ landed.lent = tb.lent /\ landed.state = tb.state
      /\ landed.queue = moved /\ landed.ran = tb.ran
  <2> HIDE DEF moved
  <2> QED
    BY <1>7 DEF Tab
<1>9. Advanced(tb, sets) = WithSets(landed, tb.ran, tb.queue)
  BY DEF Advanced
<1>10. queue.done \in Seq(Finished)
  <2> HIDE DEF queue
  <2> QED
    BY <1>6, QueueParts
<1> HIDE DEF landed, moved, queue
<1>11. /\ Advanced(tb, sets).state = tb.state /\ Advanced(tb, sets).lent = tb.lent
       /\ Advanced(tb, sets).ran = tb.ran /\ Advanced(tb, sets).queue = moved
  BY <1>8, <1>9, WithSetsRest
<1> QED
  BY <1>3, <1>6, <1>7, <1>10, <1>11 DEF done, entry

\* A statement that has landed joins the strip as it is.
LEMMA AdvancedRest ==
  ASSUME NEW tb \in Tab, NEW sets \in Nat \ {0}, Bare(tb.state), AllBare(tb.queue.done)
  PROVE  /\ Advanced(tb, sets).state = tb.state
         /\ Advanced(tb, sets).lent = tb.lent
         /\ AllBare(Advanced(tb, sets).queue.done)
         /\ ~Out(tb.state) => (AtOnce(Advanced(tb, sets).queue) => AtOnce(tb.queue))
<1> DEFINE entry == [start |-> tb.ran, set |-> 1, state |-> tb.state, grid |-> tb.grid]
           done == Append(tb.queue.done, entry)
           new == Advanced(tb, sets)
<1>1. tb.queue.done \in Seq(Finished) /\ entry \in Finished /\ entry.state = tb.state
  BY TabParts, QueueParts DEF Finished
<1>2. /\ new.state = tb.state /\ new.lent = tb.lent
      /\ \E f : Widens(done, new.queue.done, tb.ran, f)
  BY AdvancedParts
<1> HIDE DEF new
<1>3. /\ AllBare(done)
      /\ \A i \in DOMAIN done : Out(done[i].state) => Out(tb.state) \/ AtOnce(tb.queue)
  <2> HIDE DEF entry
  <2>1. /\ done \in Seq(Finished) /\ Len(done) = Len(tb.queue.done) + 1
        /\ \A i \in 1..Len(tb.queue.done) : done[i] = tb.queue.done[i]
        /\ done[Len(tb.queue.done) + 1] = entry
    BY <1>1, AppendProperties
  <2>2. DOMAIN done = 1..Len(done) /\ DOMAIN tb.queue.done = 1..Len(tb.queue.done)
        /\ Len(tb.queue.done) \in Nat
    <3> HIDE DEF done
    <3> QED
      BY <1>1, <2>1, LenProperties
  <2> HIDE DEF done
  <2>3. ASSUME NEW i \in DOMAIN done
        PROVE  /\ Bare(done[i].state)
               /\ Out(done[i].state) => Out(tb.state) \/ AtOnce(tb.queue)
    <3>1. i \in DOMAIN tb.queue.done \/ i = Len(tb.queue.done) + 1
      BY <2>1, <2>2
    <3> QED
      BY <1>1, <2>1, <2>2, <3>1 DEF AllBare, AtOnce
  <2> QED
    BY <2>1, <2>3 DEF AllBare
<1> HIDE DEF done
<1>4. /\ AllBare(new.queue.done)
      /\ AtOnce(new.queue) => Out(tb.state) \/ AtOnce(tb.queue)
  <2>1. \A i \in DOMAIN new.queue.done :
          Out(new.queue.done[i].state) => \E j \in DOMAIN done : Out(done[j].state)
    BY <1>2, WidensOut
  <2> QED
    BY <1>2, <1>3, <2>1, WidensBare DEF AtOnce
<1> QED
  BY <1>2, <1>4 DEF new

\* A statement lands in its queue, and the tab is free or on the next.  The tab
\* of the profile in front may be another than the one it was sent from.
LEMMA AdvanceQueueAccounted ==
  ASSUME NEW s \in Session, NEW p \in Profiles, NEW t \in Tabs, NEW sets \in Nat \ {0},
         Accounted(s, {}), FreeRuns(s) # {},
         Single => ~Out(s.tab[p][t].state)
  PROVE  Accounted(AdvanceQueue(s, p, t, sets), {})
<1> DEFINE tb == s.tab[p][t]
           landed == Advanced(tb, sets)
           next == QueueLanded(s, p, t, sets)
           bare == [landed EXCEPT !.queue = NoQueue]
<1>1. CASE ~tb.queue.awaiting
  BY <1>1 DEF AdvanceQueue, Awaits
<1>2. CASE tb.queue.awaiting
  <2>1. tb \in Tab /\ landed \in Tab
    BY SessionParts, AdvancedType
  <2>2. Owned(tb, Own(s, p, t)) /\ ~Lanes(tb, Own(s, p, t))
    BY <1>2, InTurn DEF Accounted
  <2>3. /\ landed.state = tb.state /\ landed.lent = tb.lent /\ AllBare(landed.queue.done)
        /\ AllIn(tb.queue) => AllIn(landed.queue)
    <3>1. Single => ~Out(tb.state)
      OBVIOUS
    <3> HIDE DEF tb
    <3> QED
      BY <2>1, <2>2, <3>1, AdvancedRest DEF Owned, Plainly, AllIn
  <2>4. next = [s EXCEPT !.tab[p][t] = landed]
    BY DEF QueueLanded
  <2> HIDE DEF landed, next
  <2>5. next \in Session /\ next.tab[p][t] = landed
    BY <2>1, <2>4, TabReplaced
  <2>6. Accounted(next, {}) /\ FreeRuns(next) # {}
    BY <2>2, <2>3, <2>4, InTurnAccounted
  <2>7. Accounted(SendNextStatement(next, p, t), {})
    BY <2>5, <2>6, SendNextStatementAccounted
  <2>8. Accounted([next EXCEPT !.failure[p] = {t}], {})
    <3>1. /\ [next EXCEPT !.failure[p] = {t}].tab = next.tab
          /\ [next EXCEPT !.failure[p] = {t}].tasks = next.tasks
      BY <2>5 DEF Session
    <3> QED
      BY <2>6, <3>1, SameAccounted
  <2>9. Accounted([next EXCEPT !.tab[p][t].queue = NoQueue], {})
    <3>1. [next EXCEPT !.tab[p][t].queue = NoQueue] = [s EXCEPT !.tab[p][t] = bare]
      BY <2>1, <2>4 DEF Session
    <3>2. bare.state = tb.state /\ bare.lent = tb.lent /\ bare.queue = NoQueue
      BY <2>1, <2>3 DEF Tab
    <3>3. AllBare(NoQueue.done) /\ AllIn(NoQueue)
      BY DEF NoQueue, AllBare, AllIn, AtOnce
    <3> HIDE DEF bare
    <3>4. Accounted([s EXCEPT !.tab[p][t] = bare], {})
      BY <2>2, <3>2, <3>3, InTurnAccounted
    <3> QED
      BY <3>1, <3>4
  <2>10. AdvanceQueue(s, p, t, sets) \in
          {s, next, SendNextStatement(next, p, t), [next EXCEPT !.failure[p] = {t}],
           [next EXCEPT !.tab[p][t].queue = NoQueue]}
    BY AdvanceQueueForms DEF next
  <2> QED
    BY <2>6, <2>7, <2>8, <2>9, <2>10
<1> QED
  BY <1>1, <1>2

\* Statements that wait are let go of, those that are out are not.
LEMMA RestDropped ==
  ASSUME NEW tb \in Tab, NEW own, Owned(tb, own), NEW new,
         new.state = tb.state, new.lent = tb.lent,
         new.queue.awaiting = tb.queue.awaiting, new.queue.remaining = <<>>,
         new.queue.done = Kept(tb.queue.done, DOMAIN tb.queue.done \ WaitingIn(tb.queue.done))
  PROVE  Owned(new, own)
<1> DEFINE done == tb.queue.done
           at == DOMAIN done \ WaitingIn(done)
           left == Kept(done, at)
<1>1. tb.queue \in Queue
  BY TabParts
<1>2. at \in SUBSET DOMAIN done
  OBVIOUS
<1>3. \A i \in DOMAIN done : IsRunning(done[i].state) => i \in at
  BY DEF WaitingIn, IsRunning
<1> HIDE DEF at
<1>4. /\ \A run, us : Backed(done, run, us) => Backed(left, run, us)
      /\ \A u : /\ InEntry(done, u)
                /\ \A i \in DOMAIN done :
                     IsRunning(done[i].state) /\ done[i].start = u.job.start => i \in at
                => InEntry(left, u)
      /\ AllBare(done) => AllBare(left)
      /\ \A k \in DOMAIN left : \E i \in at : left[k] = done[i]
  BY <1>1, <1>2, KeptThins
<1>5. \A u : InEntry(done, u) => InEntry(left, u)
  BY <1>3, <1>4
<1>6. new.queue.done = left
  BY DEF at
<1> HIDE DEF left, done
<1>7. AllBare(new.queue.done)
  BY <1>4, <1>6 DEF Owned, Plainly, done
<1>8. Lanes(tb, own) => Lanes(new, own)
  BY <1>4, <1>5, <1>6 DEF Lanes, done
<1>9. Alike(tb.state, new.state)
  BY DEF Alike
<1>10. AllIn(tb.queue) => AllIn(new.queue)
  BY <1>2, <1>4, <1>6 DEF AllIn, AtOnce, done
<1> QED
  BY <1>7, <1>8, <1>9, <1>10, QuietTab

\* What is unsent goes, what is out stays.
LEMMA DropRestOfQueueAccounted ==
  ASSUME NEW s \in Session, NEW p \in Profiles, NEW t \in Tabs, Accounted(s, {})
  PROVE  LET r == DropRestOfQueue(s, p, t)
         IN  /\ Accounted(r, {}) /\ r.tasks = s.tasks
             /\ r.tab[p][t].state = s.tab[p][t].state
<1> DEFINE tb == s.tab[p][t]
           done == Kept(tb.queue.done, DOMAIN tb.queue.done \ WaitingIn(tb.queue.done))
           queue == [tb.queue EXCEPT !.remaining = <<>>, !.done = done]
           dropped == [tb EXCEPT !.queue = queue]
           asked == s.failure[p] \ {t}
           r == DropRestOfQueue(s, p, t)
           r1 == [s EXCEPT !.tab[p][t] = dropped]
<1>1. tb \in Tab /\ tb.queue \in Queue
  BY SessionParts, TabParts
<1>2. r = [r1 EXCEPT !.failure[p] = asked]
  <2>1. r = [s EXCEPT !.failure[p] = asked, !.tab[p][t].queue = queue]
    BY DEF DropRestOfQueue
  <2> HIDE DEF queue, asked, r
  <2> QED
    BY <2>1 DEF Session
<1>3. /\ queue.done = done /\ queue.remaining = <<>> /\ queue.awaiting = tb.queue.awaiting
  <2> HIDE DEF tb, done
  <2> QED
    BY <1>1 DEF Queue
<1>4. dropped.queue = queue /\ dropped.state = tb.state /\ dropped.lent = tb.lent
  <2> HIDE DEF tb, queue
  <2> QED
    BY <1>1 DEF Tab
<1> HIDE DEF dropped, queue
<1>5. Owned(tb, Own(s, p, t))
  BY DEF Accounted
<1>6. Owned(dropped, Own(s, p, t))
  <2> HIDE DEF tb
  <2> QED
    BY <1>1, <1>3, <1>4, <1>5, RestDropped
<1>7. Accounted(r1, {})
  BY <1>4, <1>6, TabAccounted
<1>8. r1.tasks = s.tasks /\ r1.tab[p][t] = dropped
  BY DEF Session
<1>9. r.tab = r1.tab /\ r.tasks = r1.tasks
  <2>1. r1.tab = r1.tab /\ DOMAIN r1 = DOMAIN s /\ {"tab", "tasks"} \subseteq DOMAIN s
        /\ r1 \in [DOMAIN s -> UNION {{r1[x]} : x \in DOMAIN s}]
    BY DEF Session
  <2> HIDE DEF r1, r, asked
  <2> QED
    BY <1>2, <2>1
<1> HIDE DEF r1, r
<1>10. Accounted(r, {})
  BY <1>7, <1>9, SameAccounted
<1> QED
  BY <1>4, <1>8, <1>9, <1>10 DEF r

LEMMA ReleaseQueueAccounted ==
  ASSUME NEW s \in Session, NEW p \in Profiles, NEW t \in Tabs, Accounted(s, {})
  PROVE  LET r == ReleaseQueue(s, p, t)
         IN  /\ Accounted(r, {}) /\ r.tasks = s.tasks
             /\ r.tab[p][t].state = s.tab[p][t].state
<1> DEFINE tb == s.tab[p][t]
           queue == Clamped([tb.queue EXCEPT !.awaiting = FALSE])
           released == [tb EXCEPT !.queue = queue]
           r == [s EXCEPT !.tab[p][t] = released]
<1>1. tb \in Tab /\ tb.queue \in Queue
  BY SessionParts, TabParts
<1>2. CASE tb.queue.awaiting
  <2>1. queue.done = tb.queue.done
    <3> HIDE DEF tb
    <3> QED
      BY <1>1 DEF Clamped, Queue
  <2>2. ReleaseQueue(s, p, t) = r
    <3>1. [s EXCEPT !.tab[p][t].queue = queue] = r
      <4> HIDE DEF queue
      <4> QED
        BY DEF Session
    <3> QED
      BY <1>2, <3>1 DEF ReleaseQueue
  <2>3. released.queue = queue /\ released.state = tb.state /\ released.lent = tb.lent
    <3> HIDE DEF tb, queue
    <3> QED
      BY <1>1 DEF Tab
  <2>4. AllBare(released.queue.done)
    BY <2>1, <2>3 DEF Accounted, Owned, Plainly
  <2>5. ~Lanes(tb, Own(s, p, t))
    BY <1>2, InTurn
  <2> HIDE DEF released
  <2>6. Accounted(r, {})
    <3>1. AllIn(tb.queue) => AllIn(released.queue)
      BY <2>1, <2>3 DEF AllIn, AtOnce
    <3> QED
      BY <2>3, <2>4, <2>5, <3>1, InTurnAccounted
  <2>7. r.tasks = s.tasks /\ r.tab[p][t] = released
    BY DEF Session
  <2> QED
    BY <2>2, <2>3, <2>6, <2>7
<1>3. CASE ~tb.queue.awaiting
  BY <1>3 DEF ReleaseQueue
<1> QED
  BY <1>2, <1>3

LEMMA StopQueueOnAccounted ==
  ASSUME NEW s \in Session, NEW p \in Profiles, NEW t \in Tabs, Accounted(s, {})
  PROVE  LET r == StopQueueOn(s, p, t)
         IN  /\ Accounted(r, {}) /\ r.tasks = s.tasks
             /\ r.tab[p][t].state = s.tab[p][t].state
<1> DEFINE r1 == DropRestOfQueue(s, p, t)
<1>1. r1 \in Session /\ Accounted(r1, {}) /\ r1.tasks = s.tasks
      /\ r1.tab[p][t].state = s.tab[p][t].state
  BY DropRestOfQueueType, DropRestOfQueueAccounted
<1>2. StopQueueOn(s, p, t) = ReleaseQueue(r1, p, t)
  BY DEF StopQueueOn
<1> HIDE DEF r1
<1> QED
  BY <1>1, <1>2, ReleaseQueueAccounted

-----------------------------------------------------------------------------
(* Statements come back.                                                   *)

\* A session with a statement taken back, whose tab is still to follow.
Takes(n, s, u) == s.tab = n.tab /\ s.tasks = n.tasks \ {u}

\* A statement back, before the tab it was of is written.
LEMMA TaskGone ==
  ASSUME NEW n \in Session, NEW s, NEW u \in n.tasks, Accounted(n, {}), Takes(n, s, u)
  PROVE  /\ Accounted(s, {<<u.profile, u.tab>>})
         /\ Own(s, u.profile, u.tab) = Own(n, u.profile, u.tab) \ {u}
         /\ (\A p \in Profiles, t \in Tabs : n.tab[p][t].state.run # u.id)
              => u.id \in FreeRuns(s)
<1>1. Ids(n)
  BY DEF Accounted
<1>2. Ids(s)
  BY <1>1 DEF Ids, Takes
<1>3. \A p \in Profiles, t \in Tabs :
        <<p, t>> # <<u.profile, u.tab>> => Own(s, p, t) = Own(n, p, t)
  BY DEF Own, Takes
<1>4. Accounted(s, {<<u.profile, u.tab>>})
  BY <1>2, <1>3 DEF Accounted, Takes
<1>5. Own(s, u.profile, u.tab) = Own(n, u.profile, u.tab) \ {u}
  BY DEF Own, Takes
<1>6. (\A q \in Profiles, x \in Tabs : n.tab[q][x].state.run # u.id) => u.id \in FreeRuns(s)
  <2>1. \A v \in s.tasks : v.id # u.id /\ v.lane # u.id
    BY <1>1 DEF Ids, Takes
  <2>2. \A q \in Profiles, x \in Tabs : n.tab[q][x].lent.state.run # u.id
    BY TaskParts DEF Accounted, Owned, Plainly
  <2>3. u.id \in Runs
    BY TaskParts
  <2> QED
    BY <2>1, <2>2, <2>3, FreeMeans DEF Takes
<1> QED
  BY <1>4, <1>5, <1>6

\* The statement in the slot of its tab.
LEMMA SlotTask ==
  ASSUME NEW n \in Session, NEW u \in n.tasks, Accounted(n, {}), u.lane = NoRun
  PROVE  LET tb == n.tab[u.profile][u.tab]
         IN  /\ Plainly(tb) /\ IsRunning(tb.state) /\ tb.state.run = u.id
             /\ Still(Own(n, u.profile, u.tab) \ {u}) /\ AllIn(tb.queue)
<1> DEFINE tb == n.tab[u.profile][u.tab]
           own == Own(n, u.profile, u.tab)
<1>1. u \in own /\ Owned(tb, own)
  BY TaskParts DEF Accounted, Own
<1> HIDE DEF tb, own
<1>2. Plainly(tb) /\ OnSlot(tb, own)
  BY <1>1 DEF Owned, IsFree, Still, OnLanes, Lanes
<1>3. PICK v \in own : v.lane = NoRun /\ v.id = tb.state.run /\ Still(own \ {v})
  BY <1>2 DEF OnSlot
<1>4. u = v
  BY <1>1, <1>3 DEF Still
<1> QED
  BY <1>2, <1>3, <1>4 DEF OnSlot, tb, own

\* A lane of its tab's run.
LEMMA LaneTask ==
  ASSUME NEW n \in Session, NEW u \in n.tasks, Accounted(n, {}), u.lane # NoRun, u.live
  PROVE  LET tb == n.tab[u.profile][u.tab]
             own == Own(n, u.profile, u.tab)
         IN  /\ Plainly(tb) /\ Lanes(tb, own) /\ tb.state.run = u.lane
             /\ HasPlace(tb, u.lane, u.job.start)
             /\ Lane(tb.queue, u.job.start) \in DOMAIN tb.queue.done
             /\ IsRunning(tb.queue.done[Lane(tb.queue, u.job.start)].state)
             /\ tb.queue.done[Lane(tb.queue, u.job.start)].state.run = u.id
             /\ \A v \in own : v.lane = tb.state.run => v.live = TRUE
<1> DEFINE tb == n.tab[u.profile][u.tab]
           own == Own(n, u.profile, u.tab)
<1>1. u \in own /\ Owned(tb, own) /\ tb.queue \in Queue
  BY TaskParts, SessionParts, TabParts DEF Accounted, Own
<1>2. \A v \in own : u.lane = v.lane => v.live = TRUE
  <2>1. \A v \in own : v \in n.tasks /\ v.profile = u.profile /\ v.tab = u.tab
    BY DEF Own
  <2>2. u.live = TRUE
    BY TaskParts
  <2> HIDE DEF own
  <2> QED
    BY <2>1, <2>2 DEF Accounted, Ids
<1> HIDE DEF tb, own
<1>3. Plainly(tb) /\ OnLanes(tb, own)
  <2>1. ~IsFree(tb, own)
    BY <1>1 DEF IsFree, Still
  <2>2. ~OnSlot(tb, own)
    BY <1>1 DEF OnSlot, Still
  <2> QED
    BY <1>1, <2>1, <2>2 DEF Owned
<1>4. u.lane = tb.state.run /\ InEntry(tb.queue.done, u)
  BY <1>1, <1>3 DEF OnLanes, Lanes
<1>5. PICK i \in DOMAIN tb.queue.done :
        /\ IsFirst(tb.queue.done, i) /\ tb.queue.done[i].start = u.job.start
        /\ IsRunning(tb.queue.done[i].state) /\ tb.queue.done[i].state.run = u.id
  BY <1>4 DEF InEntry
<1>6. Lane(tb.queue, u.job.start) = i
  BY <1>1, <1>5, LaneIsFirst
<1>7. i # 0
  BY <1>1, QueueParts
<1>8. HasPlace(tb, u.lane, u.job.start)
  BY <1>3, <1>4, <1>6, <1>7 DEF HasPlace, OnLanes, Lanes
<1> QED
  BY <1>2, <1>3, <1>4, <1>5, <1>6, <1>8 DEF OnLanes, tb, own

LEMMA ShowSlotRest ==
  ASSUME NEW tb \in Tab
  PROVE  LET new == ShowSlot(tb)
         IN  /\ new.state = tb.state /\ new.lent = tb.lent /\ new.ran = tb.ran
             /\ new.queue.done = tb.queue.done /\ new.queue.awaiting = tb.queue.awaiting
             /\ new.queue.remaining = tb.queue.remaining
<1>1. tb.queue \in Queue
  BY TabParts
<1>2. PICK showing : ShowSlot(tb) = [tb EXCEPT !.queue.showing = showing]
  BY DEF ShowSlot
<1> QED
  BY <1>1, <1>2 DEF Tab, Queue

LEMMA WrittenRest ==
  ASSUME NEW tb \in Tab, NEW task \in Task, NEW kind \in Kinds,
         HasPlace(tb, task.lane, task.job.start)
  PROVE  LET new == Written(tb, task, kind)
             stated == WithStateAt(tb, task.lane, task.job.start, Ended(kind))
         IN  /\ new.state = stated.state /\ new.lent = stated.lent /\ new.queue = stated.queue
             /\ new.ran = stated.ran
<1> DEFINE stated == WithStateAt(tb, task.lane, task.job.start, Ended(kind))
<1>1. task.job.start \in Sent
  BY DEF Task, Job
<1>2. stated \in Tab
  BY <1>1, EndedType, WithStateAtType
<1>3. PICK g, row, last : Written(tb, task, kind) = [stated EXCEPT !.rows[g] = row, !.last = last]
  BY DEF Written
<1> HIDE DEF stated
<1>4. /\ [stated EXCEPT !.rows[g] = row, !.last = last].state = stated.state
      /\ [stated EXCEPT !.rows[g] = row, !.last = last].lent = stated.lent
      /\ [stated EXCEPT !.rows[g] = row, !.last = last].queue = stated.queue
      /\ [stated EXCEPT !.rows[g] = row, !.last = last].ran = stated.ran
  BY <1>2 DEF Tab
<1> QED
  BY <1>3, <1>4 DEF stated

\* A result is never one still to come.
LEMMA KindEnds ==
  ASSUME NEW tb, NEW task, NEW outcome
  PROVE  KindOf(tb, task, outcome) \in Kinds \ {"Idle", "Running"}
BY DEF KindOf, Kinds

\* The tab a result has been written in, with a plan brought to be read.
Shows(tb, new) ==
  /\ new.state = tb.state /\ new.lent = tb.lent /\ new.ran = tb.ran
  /\ new.queue.done = tb.queue.done /\ new.queue.awaiting = tb.queue.awaiting
  /\ new.queue.remaining = tb.queue.remaining

\* A result written in a session.
LEMMA WrittenInRest ==
  ASSUME NEW s \in Session, NEW task \in Task, NEW outcome,
         HasPlace(s.tab[task.profile][task.tab], task.lane, task.job.start)
  PROVE  LET tb == s.tab[task.profile][task.tab]
             kind == KindOf(tb, task, outcome)
         IN  \E new \in Tab :
               /\ WrittenIn(s, task, outcome) = [s EXCEPT !.tab[task.profile][task.tab] = new]
               /\ Shows(WithStateAt(tb, task.lane, task.job.start, Ended(kind)), new)
<1> DEFINE p == task.profile
           t == task.tab
           tb == s.tab[p][t]
           kind == KindOf(tb, task, outcome)
           stated == WithStateAt(tb, task.lane, task.job.start, Ended(kind))
           written == Written(tb, task, kind)
           new == IF kind = "Explained" THEN ShowSlot(written) ELSE written
<1>1. p \in Profiles /\ t \in Tabs
  BY DEF Task
<1>2. tb \in Tab
  <2> HIDE DEF p, t
  <2> QED
    BY <1>1, SessionParts
<1>3. kind \in Kinds
  BY KindOfType
<1>4. HasPlace(tb, task.lane, task.job.start)
  OBVIOUS
<1>5. WrittenIn(s, task, outcome) = [s EXCEPT !.tab[p][t] = new]
  BY DEF WrittenIn
<1> HIDE DEF tb, kind, p, t
<1>6. written \in Tab
  BY <1>2, <1>3, <1>4, WrittenType
<1>7. Shows(stated, written)
  BY <1>2, <1>3, <1>4, WrittenRest DEF Shows
<1> HIDE DEF stated, written
<1>8. new \in Tab /\ Shows(stated, new)
  BY <1>6, <1>7, ShowSlotType, ShowSlotRest DEF Shows
<1> HIDE DEF new
<1>9. \E x \in Tab : WrittenIn(s, task, outcome) = [s EXCEPT !.tab[p][t] = x] /\ Shows(stated, x)
  BY <1>5, <1>8
<1> QED
  BY <1>9 DEF stated, kind, tb, p, t

\* A slot on nothing is given back.
LEMMA GivenBackAccounted ==
  ASSUME NEW s \in Session, NEW p \in Profiles, NEW t \in Tabs,
         Accounted(s, {}), ~Busy(s, p, t)
  PROVE  Accounted([s EXCEPT !.tab[p][t] = GiveBack(@)], {})
<1> DEFINE tb == s.tab[p][t]
<1>1. tb \in Tab
  BY SessionParts
<1>2. Plainly(tb) /\ Still(Own(s, p, t)) /\ ~IsRunning(tb.state) /\ AllIn(tb.queue)
  BY NotBusyFree DEF Accounted, Busy
<1> HIDE DEF tb
<1>3. Owned(GiveBack(tb), Own(s, p, t)) /\ GiveBack(tb).state.run = NoRun
  BY <1>1, <1>2, GiveBackOwned
<1>4. [s EXCEPT !.tab[p][t] = GiveBack(@)] = [s EXCEPT !.tab[p][t] = GiveBack(tb)]
  BY DEF tb
<1>5. Accounted([s EXCEPT !.tab[p][t] = GiveBack(tb)], {})
  BY <1>3, TabAccounted
<1> QED
  BY <1>4, <1>5

\* What runs after a batch takes the slot the batch had.
LEMMA FollowUpAccounted ==
  ASSUME NEW s \in Session, NEW p \in Profiles, NEW t \in Tabs, NEW job \in Job,
         NEW succeeded \in BOOLEAN, Accounted(s, {}), ~Busy(s, p, t), FreeRuns(s) # {}
  PROVE  Accounted(FollowUp(s, p, t, job, succeeded), {})
<1> DEFINE back == [s EXCEPT !.tab[p][t] = GiveBack(@)]
           following == [Ask(job.then, Batch) EXCEPT !.refresh = "Return"]
           again == ExecuteAndThen(s, p, t, following)
           over == [again EXCEPT !.tab[p][t] = GiveBack(@)]
           plain == ExecuteAndThen(s, p, t, Ask(job.then, Batch))
<1>1. Ask(job.then, Batch) \in Job
  BY AskType DEF Job, Sent
<1>2. following \in Job
  BY <1>1 DEF Job, Refreshes
<1>3. Accounted(plain, {})
  BY <1>1, ExecuteAndThenAccounted
<1>4. again \in Session /\ Accounted(again, {})
  <2> HIDE DEF following
  <2> QED
    BY <1>2, ExecuteAndThenType, ExecuteAndThenAccounted
<1>5. ~Busy(again, p, t) => Accounted(over, {})
  <2> HIDE DEF again
  <2> QED
    BY <1>4, GivenBackAccounted
<1>6. Accounted(back, {})
  BY GivenBackAccounted
<1>7. \/ FollowUp(s, p, t, job, succeeded) \in {s, back, plain, again}
      \/ FollowUp(s, p, t, job, succeeded) = over /\ ~Busy(again, p, t)
  BY DEF FollowUp
<1> HIDE DEF back, plain, again, over
<1> QED
  BY <1>3, <1>4, <1>5, <1>6, <1>7

LEMMA HeardRest ==
  ASSUME NEW s \in Session, NEW u \in Task, NEW outcome
  PROVE  LET heard == Heard(s, u, outcome)
         IN  /\ heard.tab[u.profile][u.tab].state = s.tab[u.profile][u.tab].state
             /\ heard.tab[u.profile][u.tab].queue.done = s.tab[u.profile][u.tab].queue.done
             /\ \A p \in Profiles, t \in Tabs :
                  <<p, t>> # <<u.profile, u.tab>> => heard.tab[p][t] = s.tab[p][t]
<1> DEFINE p == u.profile
           t == u.tab
           queue == [s.tab[p][t].queue EXCEPT !.remaining = <<>>]
           stopped == [s.tab[p][t] EXCEPT !.queue = queue]
           lost == [s EXCEPT !.conn[p] = "Failed", !.tab[p][t].queue.remaining = <<>>]
<1>1. p \in Profiles /\ t \in Tabs
  BY DEF Task
<1>2. s.tab[p][t] \in Tab /\ s.tab[p][t].queue \in Queue
  <2> HIDE DEF p, t
  <2> QED
    BY <1>1, SessionParts, TabParts
<1>3. queue.done = s.tab[p][t].queue.done
  <2> HIDE DEF p, t
  <2> QED
    BY <1>2 DEF Queue
<1>4. stopped.queue = queue /\ stopped.state = s.tab[p][t].state
  <2> HIDE DEF queue, p, t
  <2> QED
    BY <1>2 DEF Tab
<1>5. lost = [s EXCEPT !.conn[p] = "Failed", !.tab[p][t] = stopped]
  <2> HIDE DEF p, t
  <2> QED
    BY <1>1, <1>2 DEF Session, Tab
<1>6. \A q \in Profiles, x \in Tabs :
        lost.tab[q][x] = IF q = p /\ x = t THEN stopped ELSE s.tab[q][x]
  <2> HIDE DEF lost, stopped, p, t
  <2> QED
    BY <1>1, <1>5 DEF Session, ConnStates
<1>7. Heard(s, u, outcome) = IF outcome = "Lost" THEN lost ELSE s
  BY DEF Heard
<1> HIDE DEF lost, stopped, queue, p, t
<1>8. /\ Heard(s, u, outcome).tab[p][t].state = s.tab[p][t].state
      /\ Heard(s, u, outcome).tab[p][t].queue.done = s.tab[p][t].queue.done
      /\ \A q \in Profiles, x \in Tabs :
           <<q, x>> # <<p, t>> => Heard(s, u, outcome).tab[q][x] = s.tab[q][x]
  BY <1>1, <1>3, <1>4, <1>6, <1>7
<1> QED
  BY <1>8 DEF p, t

\* A statement that was in the slot leaves the tab free, and its token.
LEMMA SlotLanded ==
  ASSUME NEW n \in Session, NEW s \in Session, NEW u \in n.tasks, Accounted(n, {}),
         Takes(n, s, u), u.lane = NoRun, NEW outcome
  PROVE  LET heard == Heard(s, u, outcome)
             landed == WrittenIn(heard, u, outcome)
         IN  /\ heard \in Session
             /\ HasPlace(heard.tab[u.profile][u.tab], u.lane, u.job.start)
             /\ landed \in Session /\ Accounted(landed, {})
             /\ ~Out(landed.tab[u.profile][u.tab].state) /\ FreeRuns(landed) # {}
<1> DEFINE p == u.profile
           t == u.tab
           tb == n.tab[p][t]
           heard == Heard(s, u, outcome)
           landed == WrittenIn(heard, u, outcome)
           kind == KindOf(heard.tab[p][t], u, outcome)
<1>1. u \in Task /\ p \in Profiles /\ t \in Tabs /\ u.id \in Runs /\ u.id # NoRun
  BY TaskParts DEF Session
<1>2. Plainly(tb) /\ tb.state.run = u.id /\ Still(Own(n, p, t) \ {u}) /\ AllIn(tb.queue)
  BY SlotTask
<1>3. /\ Accounted(s, {<<p, t>>}) /\ Own(s, p, t) = Own(n, p, t) \ {u}
      /\ s.tab[p][t] = tb
  BY TaskGone DEF Takes
<1>4. /\ heard \in Session /\ heard.tasks = s.tasks
      /\ \A q \in Profiles, x \in Tabs : heard.tab[q][x].lent = s.tab[q][x].lent
      /\ heard.tab[p][t].state = s.tab[p][t].state
      /\ heard.tab[p][t].queue.done = s.tab[p][t].queue.done
      /\ \A q \in Profiles, x \in Tabs : <<q, x>> # <<p, t>> => heard.tab[q][x] = s.tab[q][x]
  BY <1>1, HeardType, HeardRest
<1>5. HasPlace(heard.tab[p][t], u.lane, u.job.start)
  BY DEF HasPlace
<1>6. kind \in Kinds \ {"Idle", "Running"}
  BY KindEnds
<1>7. PICK new \in Tab : /\ landed = [heard EXCEPT !.tab[p][t] = new]
                         /\ Shows(WithStateAt(heard.tab[p][t], u.lane, u.job.start, Ended(kind)), new)
  <2> HIDE DEF heard
  <2> QED
    BY <1>1, <1>4, <1>5, WrittenInRest
<1> HIDE DEF heard, kind, landed, tb, p, t
<1>8. /\ new.state = Ended(kind) /\ new.lent = tb.lent /\ new.queue.done = tb.queue.done
  <2>1. heard.tab[p][t] \in Tab
    BY <1>1, <1>4, SessionParts
  <2>2. WithStateAt(heard.tab[p][t], u.lane, u.job.start, Ended(kind))
          = [heard.tab[p][t] EXCEPT !.state = Ended(kind)]
    BY DEF WithStateAt
  <2> QED
    BY <1>1, <1>3, <1>4, <1>7, <2>1, <2>2 DEF Shows, Tab
<1>9. ~IsRunning(new.state) /\ ~Out(new.state) /\ new.state.run = NoRun
  BY <1>6, <1>8, EndedIsBare DEF Ended, Out
<1>10. Owned(new, Own(s, p, t))
  <2>1. AllIn(new.queue)
    BY <1>2, <1>8 DEF AllIn, AtOnce
  <2> QED
    BY <1>2, <1>3, <1>8, <1>9, <2>1, FreeOwned DEF Plainly
<1> DEFINE r == [s EXCEPT !.tab[p][t] = new]
<1>11. Accounted(r, {})
  BY <1>1, <1>3, <1>9, <1>10, TabAccounted
<1>12. landed \in Session
  BY <1>1, <1>4, <1>7, TabReplaced
<1>13. /\ \A q \in Profiles, x \in Tabs :
            landed.tab[q][x] = IF q = p /\ x = t THEN new ELSE s.tab[q][x]
       /\ landed.tasks = s.tasks
  BY <1>1, <1>4, <1>7 DEF Session
<1>14. r.tab = landed.tab /\ r.tasks = landed.tasks
  <2>1. /\ r \in Session /\ r.tasks = s.tasks
        /\ \A q \in Profiles, x \in Tabs :
             r.tab[q][x] = IF q = p /\ x = t THEN new ELSE s.tab[q][x]
    BY <1>1 DEF Session
  <2>2. \A q \in Profiles, x \in Tabs : r.tab[q][x] = landed.tab[q][x]
    BY <1>13, <2>1
  <2> HIDE DEF r
  <2>3. r.tab \in [Profiles -> [Tabs -> Tab]] /\ landed.tab \in [Profiles -> [Tabs -> Tab]]
    BY <1>12, <2>1 DEF Session
  <2>4. \A q \in Profiles : r.tab[q] = landed.tab[q]
    BY <2>2, <2>3
  <2> QED
    BY <1>13, <2>1, <2>3, <2>4
<1> HIDE DEF r
<1>15. Accounted(landed, {})
  BY <1>11, <1>14, SameAccounted
<1>16. ~Out(landed.tab[p][t].state)
  BY <1>1, <1>9, <1>13
<1>17. u.id \in FreeRuns(landed)
  <2>1. \A v \in landed.tasks : v.id # u.id /\ v.lane # u.id
    BY <1>13 DEF Accounted, Ids, Takes
  <2>2. ASSUME NEW q \in Profiles, NEW x \in Tabs
        PROVE  landed.tab[q][x].state.run # u.id
    <3>1. CASE q = p /\ x = t
      BY <1>1, <1>9, <1>13, <3>1
    <3>2. CASE ~(q = p /\ x = t)
      <4>1. n.tab[q][x].state.run # u.id
        BY <3>2 DEF Accounted, Ids, p, t
      <4> QED
        BY <1>13, <3>2, <4>1 DEF Takes
    <3> QED
      BY <3>1, <3>2
  <2>3. \A q \in Profiles, x \in Tabs : landed.tab[q][x].lent.state.run # u.id
    BY <1>1, <1>15 DEF Accounted, Owned, Plainly
  <2> QED
    BY <1>1, <2>1, <2>2, <2>3, FreeMeans
<1> QED
  BY <1>4, <1>5, <1>12, <1>15, <1>16, <1>17 DEF p, t, heard, landed

\* A lane that has landed leaves the others of its run, and its token.
LEMMA LaneWritten ==
  ASSUME NEW n \in Session, NEW s \in Session, NEW u \in n.tasks, Accounted(n, {}),
         Takes(n, s, u), u.lane # NoRun, u.live, NEW outcome
  PROVE  LET landed == WrittenIn(s, u, outcome)
             done == landed.tab[u.profile][u.tab].queue.done
         IN  /\ HasPlace(s.tab[u.profile][u.tab], u.lane, u.job.start)
             /\ landed \in Session /\ Ready(landed, u.profile, u.tab)
             /\ \A i \in DOMAIN done : done[i].start = u.job.start => ~Out(done[i].state)
             /\ FreeRuns(landed) # {}
<1> DEFINE p == u.profile
           t == u.tab
           tb == n.tab[p][t]
           own == Own(n, p, t)
           landed == WrittenIn(s, u, outcome)
           kind == KindOf(tb, u, outcome)
           at == Lane(tb.queue, u.job.start)
<1>1. u \in Task /\ p \in Profiles /\ t \in Tabs /\ u \in own
  BY TaskParts DEF Session, Own
<1>2. /\ Plainly(tb) /\ Lanes(tb, own) /\ tb.state.run = u.lane
      /\ HasPlace(tb, u.lane, u.job.start)
      /\ \A v \in own : v.lane = tb.state.run => v.live = TRUE
      /\ at \in DOMAIN tb.queue.done
  BY LaneTask
<1>3. /\ Accounted(s, {<<p, t>>}) /\ Own(s, p, t) = own \ {u} /\ s.tab[p][t] = tb
  BY TaskGone DEF Takes
<1>4. kind \in Kinds \ {"Idle", "Running"}
  BY KindEnds
<1>5. PICK new \in Tab : /\ landed = [s EXCEPT !.tab[p][t] = new]
                         /\ Shows(WithStateAt(tb, u.lane, u.job.start, Ended(kind)), new)
  BY <1>1, <1>2, <1>3, WrittenInRest
<1> HIDE DEF landed, kind, tb, p, t, own
<1>6. tb \in Tab /\ tb.queue \in Queue
  BY <1>1, SessionParts, TabParts DEF tb
<1>7. /\ new.state = tb.state /\ new.lent = tb.lent
      /\ new.queue.awaiting = tb.queue.awaiting /\ new.queue.remaining = tb.queue.remaining
      /\ new.queue.done = [tb.queue.done EXCEPT ![at] = [@ EXCEPT !.state = Ended(kind)]]
  <2>1. WithStateAt(tb, u.lane, u.job.start, Ended(kind))
          = [tb EXCEPT !.queue.done[at].state = Ended(kind)]
    BY DEF WithStateAt
  <2> HIDE DEF at
  <2>2. /\ [tb EXCEPT !.queue.done[at].state = Ended(kind)].state = tb.state
        /\ [tb EXCEPT !.queue.done[at].state = Ended(kind)].lent = tb.lent
        /\ [tb EXCEPT !.queue.done[at].state = Ended(kind)].queue.awaiting = tb.queue.awaiting
        /\ [tb EXCEPT !.queue.done[at].state = Ended(kind)].queue.remaining = tb.queue.remaining
        /\ [tb EXCEPT !.queue.done[at].state = Ended(kind)].queue.done
             = [tb.queue.done EXCEPT ![at] = [@ EXCEPT !.state = Ended(kind)]]
    BY <1>6 DEF Tab, Queue
  <2> QED
    BY <1>5, <2>1, <2>2 DEF Shows
<1>8. \A v \in own : v.id = u.id => v = u
  BY DEF Accounted, Ids, Own, own
<1>9. /\ Plainly(new) /\ Lanes(new, own \ {u})
      /\ \A i \in DOMAIN new.queue.done :
           new.queue.done[i].start = u.job.start => ~Out(new.queue.done[i].state)
  <2>1. Writes(tb, new, u.job.start, kind)
    BY <1>7 DEF Writes
  <2>2. \A k \in Kinds \ {"Idle", "Running"} : \A v \in own : \A x :
          /\ Plainly(tb) /\ Lanes(tb, own) /\ v.live /\ (\A w \in own : w.id = v.id => w = v)
          /\ Writes(tb, x, v.job.start, k)
          => /\ Plainly(x) /\ Lanes(x, own \ {v})
             /\ \A i \in DOMAIN x.queue.done :
                  x.queue.done[i].start = v.job.start => ~Out(x.queue.done[i].state)
    BY <1>6, EntryEnded
  <2> HIDE DEF at
  <2> QED
    BY <1>1, <1>2, <1>4, <1>8, <2>1, <2>2
<1>10. landed \in Session /\ landed.tab[p][t] = new
  BY <1>1, <1>5, TabReplaced
<1>11. /\ Accounted(landed, {<<p, t>>}) /\ Own(landed, p, t) = own \ {u}
       /\ FreeRuns(s) \subseteq FreeRuns(landed)
  <2>1. new.state.run = s.tab[p][t].state.run /\ new.lent.state.run = s.tab[p][t].lent.state.run
    BY <1>3, <1>7
  <2> DEFINE r == [s EXCEPT !.tab[p][t] = new]
  <2>2. Accounted(r, {<<p, t>>}) /\ Own(r, p, t) = Own(s, p, t)
    BY <1>1, <1>3, <2>1, OutAccounted
  <2>3. FreeRuns(s) \subseteq FreeRuns(r)
    BY <1>1, <2>1, SameFree
  <2> QED
    BY <1>3, <1>5, <2>2, <2>3
<1>12. Ready(landed, p, t)
  BY <1>2, <1>7, <1>9, <1>10, <1>11 DEF Ready
<1>13. u.id \in FreeRuns(s)
  <2>1. \A q \in Profiles, x \in Tabs : n.tab[q][x].state.run # u.id
    BY DEF Accounted, Ids
  <2> QED
    BY <2>1, TaskGone
<1> QED
  BY <1>2, <1>3, <1>9, <1>10, <1>11, <1>12, <1>13 DEF p, t, landed

\* A live statement back leaves its tab free, or on what is next.
LEMMA LandLiveAccounted ==
  ASSUME NEW n \in Session, NEW s \in Session, NEW u \in n.tasks, Accounted(n, {}),
         Takes(n, s, u), u.live, NEW outcome, outcome = "Lost" => u.lane = NoRun,
         NEW sets \in Nat \ {0}, front \in Profiles \cup {NoProfile}
  PROVE  Accounted(LandLive(s, u, outcome, sets), {})
<1> DEFINE p == u.profile
           t == u.tab
           heard == Heard(s, u, outcome)
           landed == WrittenIn(heard, u, outcome)
           kind == KindIn(heard, u, outcome)
           rest == IF kind = "Complete" THEN sets ELSE 1
<1>1. /\ p \in Profiles /\ t \in Tabs /\ u.job \in Job /\ u.job.start \in Sent
      /\ rest \in Nat \ {0}
  BY TaskParts
<1>2. LandLive(s, u, outcome, sets) =
        IF ~HasPlace(heard.tab[p][t], u.lane, u.job.start) THEN heard
        ELSE IF u.lane # NoRun THEN LandLane(landed, p, t, u.job.start, rest)
        ELSE IF u.job.refresh = "None"
             THEN IF front = NoProfile THEN landed ELSE AdvanceQueue(landed, front, t, rest)
        ELSE FollowUp(landed, p, t, u.job, kind # "Failed")
  BY LandLiveForms
<1>3. CASE u.lane = NoRun
  <2>1. /\ HasPlace(heard.tab[p][t], u.lane, u.job.start)
        /\ landed \in Session /\ Accounted(landed, {})
        /\ ~Out(landed.tab[p][t].state) /\ FreeRuns(landed) # {}
    BY <1>3, SlotLanded
  <2> HIDE DEF landed, heard, kind, rest, p, t
  <2>2. ASSUME front # NoProfile PROVE Accounted(AdvanceQueue(landed, front, t, rest), {})
    <3>1. Single => ~Out(landed.tab[front][t].state)
      BY <1>1, <2>1, <2>2 DEF Single
    <3> QED
      BY <1>1, <2>1, <2>2, <3>1, AdvanceQueueAccounted
  <2>3. Accounted(FollowUp(landed, p, t, u.job, kind # "Failed"), {})
    <3>1. ~Busy(landed, p, t)
      BY <2>1 DEF Busy, Out, IsRunning
    <3> QED
      BY <1>1, <2>1, <3>1, FollowUpAccounted
  <2> QED
    BY <1>2, <1>3, <2>1, <2>2, <2>3
<1>4. CASE u.lane # NoRun
  <2>1. heard = s
    BY <1>4 DEF Heard
  <2> DEFINE written == WrittenIn(s, u, outcome)
  <2>2. /\ HasPlace(s.tab[p][t], u.lane, u.job.start)
        /\ written \in Session /\ Ready(written, p, t)
        /\ \A i \in DOMAIN written.tab[p][t].queue.done :
             written.tab[p][t].queue.done[i].start = u.job.start
               => ~Out(written.tab[p][t].queue.done[i].state)
        /\ FreeRuns(written) # {}
    BY <1>4, LaneWritten
  <2>3. landed = written
    BY <2>1
  <2> HIDE DEF heard, landed, written, kind, rest, p, t
  <2>4. Accounted(LandLane(written, p, t, u.job.start, rest), {})
    BY <1>1, <2>2, LandLaneAccounted
  <2> QED
    BY <1>2, <1>4, <2>1, <2>2, <2>3, <2>4
<1> QED
  BY <1>3, <1>4

\* A lane of a connection that is gone, on a run that is not its tab's.
LEMMA OtherLane ==
  ASSUME NEW tb, NEW own, Owned(tb, own), NEW u \in own, u.lane # NoRun,
         ~(IsRunning(tb.state) /\ tb.state.run = u.lane)
  PROVE  Owned(tb, own \ {u})
<1>1. CASE IsFree(tb, own)
  BY <1>1 DEF Owned, IsFree, Still
<1>2. CASE OnSlot(tb, own)
  <2>1. PICK v \in own : v.lane = NoRun /\ v.id = tb.state.run /\ Still(own \ {v})
    BY <1>2 DEF OnSlot
  <2>2. v \in own \ {u} /\ Still((own \ {u}) \ {v})
    BY <2>1 DEF Still
  <2>3. OnSlot(tb, own \ {u})
    BY <1>2, <2>1, <2>2 DEF OnSlot
  <2> QED
    BY <2>3 DEF Owned
<1>3. CASE OnLanes(tb, own)
  <2>1. tb.state.run # u.lane
    BY <1>3 DEF OnLanes, Lanes
  <2>2. Backed(tb.queue.done, tb.state.run, own \ {u})
    <3>1. SUFFICES ASSUME NEW i \in DOMAIN tb.queue.done, Out(tb.queue.done[i].state)
                   PROVE  /\ IsFirst(tb.queue.done, i)
                          /\ IsRunning(tb.queue.done[i].state) =>
                               \E v \in own \ {u} :
                                 /\ v.id = tb.queue.done[i].state.run /\ v.lane = tb.state.run
                                 /\ v.job.start = tb.queue.done[i].start
      BY DEF Backed, Out, IsRunning
    <3>2. Backed(tb.queue.done, tb.state.run, own)
      BY <1>3 DEF OnLanes, Lanes
    <3>3. IsFirst(tb.queue.done, i)
      BY <3>1, <3>2 DEF Backed
    <3>4. ASSUME IsRunning(tb.queue.done[i].state)
          PROVE  \E v \in own \ {u} :
                   /\ v.id = tb.queue.done[i].state.run /\ v.lane = tb.state.run
                   /\ v.job.start = tb.queue.done[i].start
      <4>1. PICK v \in own : /\ v.id = tb.queue.done[i].state.run /\ v.lane = tb.state.run
                             /\ v.job.start = tb.queue.done[i].start
        BY <3>2, <3>4 DEF Backed
      <4>2. v # u
        BY <2>1, <4>1
      <4> QED
        BY <4>1, <4>2
    <3> QED
      BY <3>3, <3>4
  <2>3. Lanes(tb, own \ {u})
    BY <1>3, <2>2 DEF OnLanes, Lanes
  <2>4. OnLanes(tb, own \ {u})
    BY <1>3, <2>1, <2>3 DEF OnLanes
  <2> QED
    BY <2>4 DEF Owned
<1> QED
  BY <1>1, <1>2, <1>3 DEF Owned

\* A lane of its tab's run, none of whose others has a connection any more.
LEMMA StaleLane ==
  ASSUME NEW n \in Session, NEW u \in n.tasks, Accounted(n, {}), u.lane # NoRun, ~u.live,
         n.tab[u.profile][u.tab].state.run = u.lane, IsRunning(n.tab[u.profile][u.tab].state)
  PROVE  LET tb == n.tab[u.profile][u.tab]
             own == Own(n, u.profile, u.tab)
         IN  Plainly(tb) /\ Lanes(tb, own) /\ Still(own)
<1> DEFINE tb == n.tab[u.profile][u.tab]
           own == Own(n, u.profile, u.tab)
<1>1. u \in own /\ Owned(tb, own)
  BY TaskParts DEF Accounted, Own
<1>2. \A v \in own : v.lane = u.lane => ~v.live
  <2>1. \A v \in own : v \in n.tasks /\ v.profile = u.profile /\ v.tab = u.tab
    BY DEF Own
  <2> HIDE DEF own
  <2> QED
    BY <2>1 DEF Accounted, Ids
<1>3. \A v \in own : v.id # u.lane
  BY DEF Accounted, Ids, Own
<1>4. tb.state.run = u.lane /\ IsRunning(tb.state)
  OBVIOUS
<1> HIDE DEF tb, own
<1>5. Plainly(tb) /\ OnLanes(tb, own)
  <2>1. ~IsFree(tb, own)
    BY <1>4 DEF IsFree
  <2>2. ~OnSlot(tb, own)
    BY <1>3, <1>4 DEF OnSlot
  <2> QED
    BY <1>1, <2>1, <2>2 DEF Owned
<1>6. Still(own)
  BY <1>2, <1>4, <1>5 DEF OnLanes, Lanes, Still
<1> QED
  BY <1>5, <1>6 DEF OnLanes, tb, own

LEMMA ClampedRest ==
  ASSUME NEW queue \in Queue
  PROVE  /\ Clamped(queue).done = queue.done /\ Clamped(queue).awaiting = queue.awaiting
         /\ Clamped(queue).remaining = queue.remaining
BY DEF Clamped, Queue

\* The queue without a stale lane's entry, and without what has not been sent.
PrunedOf(queue, start) ==
  Clamped([queue EXCEPT !.done = Kept(@, DOMAIN @ \ (EntriesOf(@, start) \cup WaitingIn(@)))])

\* A lane dropped takes its entry, and what waits, and no other lane's.
LEMMA PrunedParts ==
  ASSUME NEW tb \in Tab, NEW own, NEW u \in own, Plainly(tb), Lanes(tb, own)
  PROVE  LET pruned == PrunedOf(tb.queue, u.job.start)
         IN  /\ pruned \in Queue
             /\ pruned.awaiting = tb.queue.awaiting /\ pruned.remaining = tb.queue.remaining
             /\ AllBare(pruned.done) /\ Backed(pruned.done, tb.state.run, own \ {u})
             /\ WaitingIn(pruned.done) = {}
<1> DEFINE done == tb.queue.done
           at == DOMAIN done \ (EntriesOf(done, u.job.start) \cup WaitingIn(done))
           left == Kept(done, at)
           queue == [tb.queue EXCEPT !.done = left]
           pruned == PrunedOf(tb.queue, u.job.start)
<1>1. tb.queue \in Queue
  BY TabParts
<1>2. at \in SUBSET DOMAIN done
  OBVIOUS
<1>3. \A i \in at : done[i].start # u.job.start /\ done[i].state.kind # "Idle"
  BY DEF EntriesOf, WaitingIn
<1>4. pruned = Clamped(queue)
  BY DEF PrunedOf
<1> HIDE DEF at, pruned
<1>5. left \in Seq(Finished)
  BY <1>1, <1>2, KeptType
<1>6. /\ \A run, us : Backed(done, run, us) => Backed(left, run, us)
      /\ AllBare(done) => AllBare(left)
      /\ \A k \in DOMAIN left : \E i \in at : left[k] = done[i]
  BY <1>1, <1>2, KeptThins
<1> HIDE DEF left
<1>7. queue \in Queue /\ queue.done = left
      /\ queue.awaiting = tb.queue.awaiting /\ queue.remaining = tb.queue.remaining
  BY <1>1, <1>5 DEF Queue
<1> HIDE DEF queue
<1>8. /\ pruned \in Queue /\ pruned.done = left
      /\ pruned.awaiting = tb.queue.awaiting /\ pruned.remaining = tb.queue.remaining
  BY <1>4, <1>7, ClampedType, ClampedRest
<1>9. Backed(left, tb.state.run, own)
  BY <1>6 DEF Lanes, done
<1>10. Backed(left, tb.state.run, own \ {u})
  <2>1. SUFFICES ASSUME NEW i \in DOMAIN left, Out(left[i].state)
                 PROVE  /\ IsFirst(left, i)
                        /\ IsRunning(left[i].state) =>
                             \E v \in own \ {u} :
                               /\ v.id = left[i].state.run /\ v.lane = tb.state.run
                               /\ v.job.start = left[i].start
    BY DEF Backed, Out, IsRunning
  <2>2. IsFirst(left, i)
    BY <1>9, <2>1 DEF Backed
  <2>3. ASSUME IsRunning(left[i].state)
        PROVE  \E v \in own \ {u} :
                 /\ v.id = left[i].state.run /\ v.lane = tb.state.run
                 /\ v.job.start = left[i].start
    <3>1. PICK v \in own : /\ v.id = left[i].state.run /\ v.lane = tb.state.run
                           /\ v.job.start = left[i].start
      BY <1>9, <2>3 DEF Backed
    <3>2. v # u
      BY <1>3, <1>6, <3>1
    <3> QED
      BY <3>1, <3>2
  <2> QED
    BY <2>2, <2>3
<1>11. AllBare(left) /\ WaitingIn(left) = {}
  BY <1>3, <1>6 DEF Plainly, WaitingIn, done
<1> QED
  BY <1>8, <1>10, <1>11 DEF pruned

\* The tab let go of, with whatever run it was on over.
IdledOf(tb, pruned) ==
  [tb EXCEPT
     !.queue = IF pruned.awaiting
               THEN Clamped([pruned EXCEPT !.awaiting = FALSE, !.remaining = <<>>])
               ELSE pruned,
     !.state = IF IsRunning(@) THEN Ended("Idle") ELSE @,
     !.rows[tb.grid] = IF @.how = "arriving" THEN Empty ELSE @]

LEMMA IdledOwned ==
  ASSUME NEW tb \in Tab, NEW own, NEW pruned \in Queue, Plainly(tb), Still(own),
         IsRunning(tb.state), AllBare(pruned.done), AllIn(pruned)
  PROVE  /\ Owned(GiveBack(IdledOf(tb, pruned)), own)
         /\ GiveBack(IdledOf(tb, pruned)).state.run = NoRun
<1> DEFINE queue == IF pruned.awaiting
                    THEN Clamped([pruned EXCEPT !.awaiting = FALSE, !.remaining = <<>>])
                    ELSE pruned
           rows == [tb.rows EXCEPT ![tb.grid] = IF @.how = "arriving" THEN Empty ELSE @]
           idled == [tb EXCEPT !.queue = queue, !.state = Ended("Idle"), !.rows = rows]
<1>1. queue \in Queue /\ queue.done = pruned.done
  <2>1. /\ [pruned EXCEPT !.awaiting = FALSE, !.remaining = <<>>] \in Queue
        /\ [pruned EXCEPT !.awaiting = FALSE, !.remaining = <<>>].done = pruned.done
    BY EmptySeq DEF Queue
  <2> QED
    BY <2>1, ClampedType, ClampedRest
<1>2. rows \in [Grids -> Rows]
  BY TabParts, EmptyType
<1>3. Ended("Idle") \in State /\ ~IsRunning(Ended("Idle")) /\ Ended("Idle").run = NoRun
  BY EndedType, EndedIsBare DEF Kinds
<1>4. IdledOf(tb, pruned) = idled
  <2> HIDE DEF queue
  <2> QED
    BY DEF IdledOf, Tab, queue
<1>5. /\ idled \in Tab /\ idled.queue = queue /\ idled.state = Ended("Idle")
      /\ idled.lent = tb.lent
  <2> HIDE DEF queue, rows
  <2> QED
    BY <1>1, <1>2, <1>3 DEF Tab
<1> HIDE DEF idled, queue
<1>6. Plainly(idled) /\ ~IsRunning(idled.state) /\ AllIn(idled.queue)
  BY <1>1, <1>3, <1>5 DEF Plainly, Bare, AllIn, AtOnce
<1> QED
  BY <1>4, <1>5, <1>6, GiveBackOwned

\* A statement of a connection that is gone, back, frees the tab that was on it
\* and no other.
LEMMA DropStaleRunAccounted ==
  ASSUME NEW n \in Session, NEW s \in Session, NEW u \in n.tasks, Accounted(n, {}),
         Takes(n, s, u), ~u.live
  PROVE  Accounted(DropStaleRun(s, u), {})
<1> DEFINE p == u.profile
           t == u.tab
           tb == s.tab[p][t]
           own == Own(n, p, t)
           pruned == IF u.lane # NoRun THEN PrunedOf(tb.queue, u.job.start) ELSE tb.queue
           back == GiveBack(IdledOf(tb, pruned))
           fewer == [tb EXCEPT !.queue = pruned]
<1>1. p \in Profiles /\ t \in Tabs
  BY TaskParts
<1>2. tb \in Tab /\ tb.queue \in Queue
  <2> HIDE DEF p, t
  <2> QED
    BY <1>1, SessionParts, TabParts
<1>3. /\ Accounted(s, {<<p, t>>}) /\ Own(s, p, t) = own \ {u} /\ tb = n.tab[p][t] /\ u \in own
  <2>1. u \in own
    BY <1>1 DEF Own
  <2> QED
    BY <2>1, TaskGone DEF Takes
<1>4. DropStaleRun(s, u) =
        IF u.lane # NoRun /\ ~(IsRunning(tb.state) /\ tb.state.run = u.lane) THEN s
        ELSE IF u.lane # NoRun /\ \E i \in DOMAIN pruned.done : IsRunning(pruned.done[i].state)
        THEN [s EXCEPT !.tab[p][t].queue = pruned]
        ELSE [s EXCEPT !.tab[p][t] = back]
  BY Zenon DEF DropStaleRun, PrunedOf, IdledOf
<1>5. [s EXCEPT !.tab[p][t].queue = pruned] = [s EXCEPT !.tab[p][t] = fewer]
  <2>1. fewer = [s.tab[p][t] EXCEPT !.queue = pruned]
    OBVIOUS
  <2> HIDE DEF pruned, p, t, fewer, tb
  <2> QED
    BY <1>1, <2>1 DEF Session
<1>6. CASE u.lane = NoRun
  <2>1. Plainly(tb) /\ IsRunning(tb.state) /\ Still(own \ {u}) /\ AllIn(tb.queue)
    BY <1>3, <1>6, SlotTask
  <2>2. pruned = tb.queue
    BY <1>6
  <2>3. Owned(back, own \ {u}) /\ back.state.run = NoRun
    <3>1. AllBare(tb.queue.done)
      BY <2>1 DEF Plainly
    <3> HIDE DEF tb, pruned, own, p, t
    <3> QED
      BY <1>2, <2>1, <2>2, <3>1, IdledOwned
  <2> HIDE DEF back, tb, own, p, t
  <2>4. Accounted([s EXCEPT !.tab[p][t] = back], {})
    BY <1>1, <1>3, <2>3, TabAccounted
  <2> QED
    BY <1>4, <1>6, <2>4
<1>7. CASE u.lane # NoRun /\ ~(IsRunning(tb.state) /\ tb.state.run = u.lane)
  <2>1. Owned(tb, own)
    BY <1>1, <1>3 DEF Accounted
  <2>2. Owned(tb, own \ {u})
    <3> HIDE DEF tb, own
    <3> QED
      BY <1>3, <1>7, <2>1, OtherLane
  <2>3. Accounted(s, {})
    BY <1>3, <2>2 DEF Accounted
  <2> QED
    BY <1>4, <1>7, <2>3
<1>8. CASE u.lane # NoRun /\ IsRunning(tb.state) /\ tb.state.run = u.lane
  <2>1. Plainly(tb) /\ Lanes(tb, own) /\ Still(own)
    BY <1>3, <1>8, StaleLane
  <2>2. Still(own \ {u})
    BY <2>1 DEF Still
  <2>3. /\ pruned \in Queue
        /\ pruned.awaiting = tb.queue.awaiting /\ pruned.remaining = tb.queue.remaining
        /\ AllBare(pruned.done) /\ Backed(pruned.done, tb.state.run, own \ {u})
        /\ WaitingIn(pruned.done) = {}
    <3>1. pruned = PrunedOf(tb.queue, u.job.start)
      BY <1>8
    <3> HIDE DEF pruned, tb, own, p, t
    <3> QED
      BY <1>2, <1>3, <2>1, <3>1, PrunedParts
  <2>4. ASSUME \A i \in DOMAIN pruned.done : ~IsRunning(pruned.done[i].state)
        PROVE  Owned(back, own \ {u}) /\ back.state.run = NoRun
    <3>1. AllIn(pruned)
      BY <2>3, <2>4 DEF AllIn, AtOnce, Out, IsRunning, WaitingIn
    <3> HIDE DEF tb, pruned, own, p, t
    <3> QED
      BY <1>2, <1>8, <2>1, <2>2, <2>3, <3>1, IdledOwned
  <2>5. fewer.queue = pruned /\ fewer.state = tb.state /\ fewer.lent = tb.lent
    <3> HIDE DEF tb, pruned
    <3> QED
      BY <1>2 DEF Tab
  <2> HIDE DEF back, fewer, pruned, tb, own, p, t
  <2>6. (\A i \in DOMAIN pruned.done : ~IsRunning(pruned.done[i].state)) =>
          Accounted([s EXCEPT !.tab[p][t] = back], {})
    BY <1>1, <1>3, <2>4, TabAccounted
  <2>7. ASSUME NEW i \in DOMAIN pruned.done, IsRunning(pruned.done[i].state)
        PROVE  Accounted([s EXCEPT !.tab[p][t] = fewer], {})
    <3>1. Plainly(fewer)
      BY <2>1, <2>3, <2>5 DEF Plainly
    <3>2. Lanes(fewer, own \ {u})
      BY <2>1, <2>2, <2>3, <2>5 DEF Lanes, Still
    <3>3. OnLanes(fewer, own \ {u})
      BY <2>3, <2>5, <2>7, <3>2 DEF Backed, OnLanes
    <3>4. Owned(fewer, own \ {u})
      BY <3>1, <3>3 DEF Owned
    <3>5. fewer.state.run = s.tab[p][t].state.run
      BY <2>5 DEF tb
    <3> QED
      BY <1>1, <1>3, <3>4, <3>5, TabAccounted
  <2> QED
    BY <1>4, <1>5, <1>8, <2>6, <2>7
<1> QED
  BY <1>6, <1>7, <1>8

-----------------------------------------------------------------------------
(* The state of the workspace.                                             *)

\* What is known of every state.
OwnedRuns == Accounted(Now, {})

LEMMA SameOwned ==
  ASSUME NEW a, NEW b, NEW own, Owned(a, own),
         b.state = a.state, b.queue = a.queue, b.lent = a.lent
  PROVE  Owned(b, own)
BY DEF Owned, Plainly, IsFree, OnSlot, OnLanes, Lanes

\* The grids let go of at the end of a step are none of this.
LEMMA BecomesOwned ==
  ASSUME TypeOK', NEW s, Accounted(s, {}), Becomes(s)
  PROVE  OwnedRuns'
<1>1. ASSUME NEW p \in Profiles, NEW t \in Tabs
      PROVE  /\ tab'[p][t].state = s.tab[p][t].state /\ tab'[p][t].queue = s.tab[p][t].queue
             /\ tab'[p][t].lent = s.tab[p][t].lent
  <2> DEFINE tb == s.tab[p][t]
             rows == [g \in Grids |-> IF g \in Taken(s, p, t) THEN tb.rows[g] ELSE Empty]
  <2>1. tab'[p][t] = [tb EXCEPT !.rows = rows]
    BY DEF Becomes, Collected
  <2>2. {"lent", "state", "queue"} \subseteq DOMAIN tab'[p][t]
    BY DEF TypeOK, Tab
  <2> HIDE DEF tb, rows
  <2>3. tab'[p][t].lent = tb.lent /\ tab'[p][t].state = tb.state /\ tab'[p][t].queue = tb.queue
    BY <2>1, <2>2
  <2> QED
    BY <2>3 DEF tb
<1>2. tasks' = s.tasks
  BY DEF Becomes
<1>3. Now' = [conn |-> conn', tab |-> tab', prompt |-> prompt', failure |-> failure',
              tasks |-> tasks']
  BY DEF Now
<1> DEFINE r == Now'
<1>4. r.tab = tab' /\ r.tasks = tasks'
  BY <1>3
<1> HIDE DEF r
<1>5. Ids(r)
  BY <1>1, <1>2, <1>4 DEF Accounted, Ids
<1>6. ASSUME NEW p \in Profiles, NEW t \in Tabs
      PROVE  Owned(r.tab[p][t], Own(r, p, t))
  <2>1. Own(r, p, t) = Own(s, p, t)
    BY <1>2, <1>4 DEF Own
  <2>2. Owned(s.tab[p][t], Own(s, p, t))
    BY DEF Accounted
  <2> QED
    BY <1>1, <1>4, <2>1, <2>2, SameOwned
<1>7. Accounted(r, {})
  BY <1>5, <1>6 DEF Accounted
<1> QED
  BY <1>7 DEF OwnedRuns, r

\* A session with a queue replaced on a tab that is on nothing.
LEMMA QueueGivenAccounted ==
  ASSUME NEW s \in Session, NEW p \in Profiles, NEW t \in Tabs, NEW queue \in Queue,
         Accounted(s, {}), ~Busy(s, p, t), AllBare(queue.done), AllIn(queue)
  PROVE  LET r == [s EXCEPT !.tab[p][t].queue = queue]
         IN  r \in Session /\ Accounted(r, {}) /\ FreeRuns(s) \subseteq FreeRuns(r)
<1> DEFINE tb == s.tab[p][t]
           new == [tb EXCEPT !.queue = queue]
<1>1. tb \in Tab
  BY SessionParts
<1>2. [s EXCEPT !.tab[p][t].queue = queue] = [s EXCEPT !.tab[p][t] = new]
  BY DEF Session
<1>3. new \in Tab /\ new.state = tb.state /\ new.lent = tb.lent /\ new.queue = queue
  <2> HIDE DEF tb
  <2> QED
    BY <1>1 DEF Tab
<1>4. ~Lanes(tb, Own(s, p, t))
  BY DEF Lanes, Busy
<1> HIDE DEF new
<1>5. Accounted([s EXCEPT !.tab[p][t] = new], {})
      /\ FreeRuns(s) \subseteq FreeRuns([s EXCEPT !.tab[p][t] = new])
  BY <1>3, <1>4, InTurnAccounted
<1>6. [s EXCEPT !.tab[p][t] = new] \in Session
  BY <1>3, TabReplaced
<1> QED
  BY <1>2, <1>5, <1>6

LEMMA RunQueuedAccounted ==
  ASSUME NEW s \in Session, NEW p \in Profiles, NEW t \in Tabs, NEW queue \in Queue,
         NEW start \in Sent, Accounted(s, {}), ~Busy(s, p, t), AllBare(queue.done),
         AllIn(queue), FreeRuns(s) # {}
  PROVE  Accounted(RunQueued(s, p, t, queue, start), {})
<1> DEFINE r == [s EXCEPT !.tab[p][t].queue = queue]
<1>1. r \in Session /\ Accounted(r, {}) /\ FreeRuns(r) # {}
  BY QueueGivenAccounted
<1>2. Ask(start, start) \in Job
  BY AskType
<1>3. RunQueued(s, p, t, queue, start) = ExecuteAndThen(r, p, t, Ask(start, start))
  BY DEF RunQueued
<1> HIDE DEF r
<1> QED
  BY <1>1, <1>2, <1>3, ExecuteAndThenAccounted

LEMMA RoomTokens ==
  ASSUME NEW p, NEW t, NEW n, NEW m \in Nat \ {0}, Room(p, t, n, m)
  PROVE  FreeRuns(Now) # {}
<1>1. Cardinality(FreeRuns(Now)) >= m
  BY DEF Room
<1> QED
  BY <1>1, RoomFree

LEMMA NowBusy ==
  ASSUME NEW p, NEW t
  PROVE  Now.tab[p][t] = tab[p][t] /\ Now.tasks = tasks
         /\ (Busy(Now, p, t) <=> IsRunning(tab[p][t].state))
BY DEF Now, Busy

\* The user's commands, one by one.
LEMMA RunQueryOwned ==
  ASSUME TypeOK, OwnedRuns, NEW p \in Profiles, NEW t \in Tabs, NEW start \in Statements,
         RunQuery(p, t, start)
  PROVE  OwnedRuns'
<1> DEFINE spare == Reserve(p, t, Expected(<<start>>) - 1)
           queue == IF spare # <<>>
                    THEN [NoQueue EXCEPT !.awaiting = TRUE, !.spare = spare]
                    ELSE NoQueue
           s == RunQueued(Now, p, t, queue, start)
<1>1. <<start>> \in Seq(Statements) /\ Len(<<start>>) = 1
  OBVIOUS
<1>2. /\ Expected(<<start>>) \in Nat /\ Expected(<<start>>) - 1 \in Nat
      /\ Expected(<<start>>) - 1 <= Expected(<<start>>) - 1
  <2>1. Expected(<<start>>) \in Nat /\ Expected(<<start>>) >= 1
    BY <1>1, ExpectedType
  <2> QED
    BY <2>1
<1>3. Room(p, t, Expected(<<start>>) - 1, 1) /\ ~Busy(Now, p, t)
  BY DEF RunQuery
<1>4. spare \in Seq(Grids)
  BY <1>2, <1>3, ReserveType
<1>5. queue \in Queue /\ queue.done = <<>>
  <2> HIDE DEF spare
  <2> QED
    BY <1>4, NoQueueType DEF Queue, NoQueue
<1>6. Becomes(s) /\ start \in Sent
  BY DEF RunQuery, RunQueued, Sent
<1> HIDE DEF queue
<1>7. AllBare(queue.done) /\ AllIn(queue)
  BY <1>5 DEF AllBare, AllIn, AtOnce
<1>8. FreeRuns(Now) # {}
  BY <1>3, RoomTokens
<1>9. Accounted(s, {})
  BY <1>3, <1>5, <1>6, <1>7, <1>8, NowType, RunQueuedAccounted DEF OwnedRuns
<1>10. TypeOK'
  BY RunQueryType
<1> HIDE DEF s
<1> QED
  BY <1>6, <1>9, <1>10, BecomesOwned

LEMMA RunStatementsOwned ==
  ASSUME TypeOK, OwnedRuns, NEW p \in Profiles, NEW t \in Tabs, NEW selection \in Selections,
         RunStatements(p, t, selection)
  PROVE  OwnedRuns'
<1> DEFINE spare == Reserve(p, t, Expected(selection) - 1)
           queue == [remaining |-> Tail(selection), done |-> <<>>, showing |-> 1,
                     awaiting |-> TRUE, spare |-> spare]
           s == RunQueued(Now, p, t, queue, selection[1])
<1>1. selection \in Seq(Statements) /\ Len(selection) >= 2
  BY SelectionsAssumption
<1>2. /\ Expected(selection) \in Nat /\ Expected(selection) - 1 \in Nat
      /\ Expected(selection) - 1 <= Expected(selection) - 1
  <2>1. Expected(selection) \in Nat /\ Expected(selection) >= Len(selection)
    BY <1>1, ExpectedType
  <2>2. Len(selection) \in Nat
    BY <1>1, LenProperties
  <2> QED
    BY <1>1, <2>1, <2>2
<1>3. Room(p, t, Expected(selection) - 1, 1) /\ ~Busy(Now, p, t)
  BY DEF RunStatements
<1>4. spare \in Seq(Grids)
  BY <1>2, <1>3, ReserveType
<1>5. Tail(selection) \in Seq(Statements) /\ selection[1] \in Sent
  <2>1. selection # <<>> /\ 1 \in 1..Len(selection)
    BY <1>1, EmptySeq, LenProperties
  <2> QED
    BY <1>1, <2>1, HeadTailProperties, ElementOfSeq DEF Sent
<1>6. queue \in Queue /\ queue.done = <<>>
  <2> HIDE DEF spare
  <2> QED
    BY <1>4, <1>5, EmptySeq DEF Queue
<1>7. Becomes(s)
  BY DEF RunStatements, RunQueued
<1> HIDE DEF queue
<1>8. AllBare(queue.done) /\ AllIn(queue)
  BY <1>6 DEF AllBare, AllIn, AtOnce
<1>9. FreeRuns(Now) # {}
  BY <1>3, RoomTokens
<1>10. Accounted(s, {})
  BY <1>3, <1>5, <1>6, <1>8, <1>9, NowType, RunQueuedAccounted DEF OwnedRuns
<1>11. TypeOK'
  BY RunStatementsType
<1> HIDE DEF s
<1> QED
  BY <1>7, <1>10, <1>11, BecomesOwned

\* Whatever is executed over what the state is.
LEMMA ExecutesOwned ==
  ASSUME TypeOK, TypeOK', OwnedRuns, NEW p \in Profiles, NEW t \in Tabs, NEW job \in Job,
         Room(p, t, 0, 1),
         Becomes(ExecuteUnchecked(Now, p, t, job)) \/ Becomes(ExecuteAndThen(Now, p, t, job))
  PROVE  OwnedRuns'
<1>1. FreeRuns(Now) # {}
  BY RoomTokens
<1>2. /\ Accounted(ExecuteUnchecked(Now, p, t, job), {})
      /\ Accounted(ExecuteAndThen(Now, p, t, job), {})
  BY <1>1, NowType, ExecuteUncheckedAccounted, ExecuteAndThenAccounted DEF OwnedRuns
<1> QED
  BY <1>2, BecomesOwned

LEMMA ExplainQueryOwned ==
  ASSUME TypeOK, OwnedRuns, NEW p \in Profiles, NEW t \in Tabs, NEW start \in Statements,
         ExplainQuery(p, t, start)
  PROVE  OwnedRuns'
<1> DEFINE job == [Ask(start, start) EXCEPT !.explain = TRUE]
<1>1. job \in Job
  <2>1. Ask(start, start) \in Job
    BY AskType DEF Sent
  <2> QED
    BY <2>1 DEF Job
<1>2. /\ Room(p, t, 0, 1)
      /\ Becomes(ExecuteUnchecked(Now, p, t, job)) \/ Becomes(ExecuteAndThen(Now, p, t, job))
  BY DEF ExplainQuery
<1>3. TypeOK'
  BY ExplainQueryType
<1> HIDE DEF job
<1> QED
  BY <1>1, <1>2, <1>3, ExecutesOwned

LEMMA ReorderQueryOwned ==
  ASSUME TypeOK, OwnedRuns, NEW p \in Profiles, NEW t \in Tabs, ReorderQuery(p, t)
  PROVE  OwnedRuns'
<1> DEFINE job == Ask(tab[p][t].last, Batch)
<1>1. job \in Job
  <2>1. tab[p][t].last \in Sent /\ Batch \in Sent
    BY TabParts DEF TypeOK, Sent
  <2> QED
    BY <2>1, AskType
<1>2. Room(p, t, 0, 1) /\ Becomes(ExecuteAndThen(Now, p, t, job))
  BY DEF ReorderQuery
<1>3. TypeOK'
  BY ReorderQueryType
<1> HIDE DEF job
<1> QED
  BY <1>1, <1>2, <1>3, ExecutesOwned

LEMMA ApplyEditsOwned ==
  ASSUME TypeOK, OwnedRuns, NEW p \in Profiles, NEW t \in Tabs, ApplyEdits(p, t)
  PROVE  OwnedRuns'
<1> DEFINE refresh == ApplyRefresh(tab[p][t])
           job == [start |-> Batch, from |-> Batch, explain |-> FALSE,
                   refresh |-> refresh.refresh, index |-> refresh.index,
                   then |-> refresh.then]
<1>1. tab[p][t] \in Tab
  BY DEF TypeOK
<1>2. job \in Job
  BY <1>1, ApplyRefreshType DEF Job, Refreshes, Sent
<1>3. Room(p, t, 0, 1) /\ Becomes(ExecuteAndThen(Now, p, t, job))
  BY DEF ApplyEdits
<1>4. TypeOK'
  BY ApplyEditsType
<1> HIDE DEF job
<1> QED
  BY <1>2, <1>3, <1>4, ExecutesOwned

\* A tab that has only been looked at, or told of.
LEMMA TabOwned ==
  ASSUME TypeOK, TypeOK', OwnedRuns, NEW p \in Profiles, NEW t \in Tabs, NEW tb,
         NEW s, s = [Now EXCEPT !.tab[p][t] = tb],
         NEW r, r.tab = s.tab, r.tasks = s.tasks, Becomes(r),
         tb.state.run = tab[p][t].state.run \/ tb.state.run = NoRun,
         Owned(tab[p][t], Own(Now, p, t)) => Owned(tb, Own(Now, p, t))
  PROVE  OwnedRuns'
<1>1. Now \in Session /\ Now.tab[p][t] = tab[p][t] /\ Now.tab[p][t] \in Tab
  BY NowType, NowBusy, SessionParts
<1>2. Owned(tab[p][t], Own(Now, p, t)) /\ Accounted(Now, {})
  BY <1>1 DEF OwnedRuns, Accounted
<1>3. Accounted(s, {})
  BY <1>1, <1>2, TabAccounted
<1>4. Accounted(r, {})
  BY <1>3, SameAccounted
<1> QED
  BY <1>4, BecomesOwned

LEMMA RefuseRunOwned ==
  ASSUME TypeOK, OwnedRuns, NEW p \in Profiles, NEW t \in Tabs, RefuseRun(p, t)
  PROVE  OwnedRuns'
<1> DEFINE tb == tab[p][t]
           new == [tb EXCEPT !.state = Ended("Failed")]
           s == [Now EXCEPT !.tab[p][t] = new]
           own == Own(Now, p, t)
<1>1. tb \in Tab
  BY DEF TypeOK
<1>2. new.state = Ended("Failed") /\ new.lent = tb.lent /\ new.queue = tb.queue
  <2> HIDE DEF tb
  <2> QED
    BY <1>1 DEF Tab
<1>3. ~IsRunning(new.state) /\ new.state.run = NoRun
  <2>1. "Failed" \in Kinds \ {"Running"}
    BY DEF Kinds
  <2> QED
    BY <1>2, <2>1, EndedIsBare
<1>4. ~IsRunning(tb.state)
  BY NowBusy DEF RefuseRun
<1>5. Owned(tb, own) => Owned(new, own)
  <2> SUFFICES ASSUME Owned(tb, own) PROVE Owned(new, own)
    OBVIOUS
  <2> HIDE DEF tb, new, own
  <2>1. Plainly(tb) /\ Still(own) /\ AllIn(tb.queue)
    BY <1>4, NotBusyFree
  <2> QED
    BY <1>2, <1>3, <2>1, FreeOwned DEF Plainly
<1>6. Becomes(s)
  BY DEF RefuseRun, Now
<1>7. TypeOK'
  BY RefuseRunType
<1> HIDE DEF new
<1>8. s = [Now EXCEPT !.tab[p][t] = new]
  OBVIOUS
<1> HIDE DEF s, tb
<1> QED
  BY <1>3, <1>5, <1>6, <1>7, <1>8, TabOwned DEF tb

LEMMA ShowQueuedResultOwned ==
  ASSUME TypeOK, OwnedRuns, NEW p \in Profiles, NEW t \in Tabs, NEW index \in Nat,
         ShowQueuedResult(p, t, index)
  PROVE  OwnedRuns'
<1> DEFINE tb == tab[p][t]
           queue == [tb.queue EXCEPT !.showing = index]
           new == [tb EXCEPT !.queue = queue]
           s == [Now EXCEPT !.tab[p][t] = new]
           own == Own(Now, p, t)
<1>1. tb \in Tab /\ tb.queue \in Queue
  BY TabParts DEF TypeOK
<1>2. queue.done = tb.queue.done /\ queue.awaiting = tb.queue.awaiting
      /\ queue.remaining = tb.queue.remaining
  <2> HIDE DEF tb
  <2> QED
    BY <1>1 DEF Queue
<1>3. new.state = tb.state /\ new.lent = tb.lent /\ new.queue = queue
  <2> HIDE DEF tb, queue
  <2> QED
    BY <1>1 DEF Tab
<1>4. Owned(tb, own) => Owned(new, own)
  <2> HIDE DEF tb, new, own, queue
  <2>1. Lanes(tb, own) => Lanes(new, own)
    BY <1>2, <1>3 DEF Lanes
  <2>2. Owned(tb, own) => AllBare(new.queue.done)
    BY <1>2, <1>3 DEF Owned, Plainly
  <2>3. Alike(tb.state, new.state)
    BY <1>3 DEF Alike
  <2>4. AllIn(tb.queue) => AllIn(new.queue)
    BY <1>2, <1>3 DEF AllIn, AtOnce
  <2> QED
    BY <1>3, <2>1, <2>2, <2>3, <2>4, QuietTab
<1>5. Becomes(s)
  BY NowType DEF ShowQueuedResult, Now
<1>6. TypeOK'
  BY ShowQueuedResultType
<1> HIDE DEF new
<1>7. s = [Now EXCEPT !.tab[p][t] = new]
  OBVIOUS
<1>8. /\ new.state.run = tab[p][t].state.run
      /\ Owned(tab[p][t], Own(Now, p, t)) => Owned(new, Own(Now, p, t))
  BY <1>3, <1>4 DEF tb, own
<1> HIDE DEF s, tb, queue, own
<1> QED
  BY <1>3, <1>4, <1>5, <1>6, <1>7, <1>8, TabOwned

LEMMA ApprovePendingRunOwned ==
  ASSUME TypeOK, OwnedRuns, NEW p \in Profiles, ApprovePendingRun(p)
  PROVE  OwnedRuns'
<1> DEFINE s0 == [Now EXCEPT !.prompt[p] = {}]
<1>1. PICK parked \in prompt[p] :
        Room(p, parked.tab, 0, 1) /\ Becomes(ExecuteUnchecked(s0, p, parked.tab, parked.job))
  BY DEF ApprovePendingRun
<1>2. parked.tab \in Tabs /\ parked.job \in Job
  BY DEF TypeOK, Parked
<1>3. s0 \in Session /\ s0.tab = Now.tab /\ s0.tasks = Now.tasks
  BY NowType DEF Session
<1>4. FreeRuns(Now) # {} /\ Accounted(Now, {})
  BY <1>1, RoomTokens DEF OwnedRuns
<1> HIDE DEF s0
<1>5. Accounted(s0, {}) /\ FreeRuns(s0) # {}
  BY <1>3, <1>4, SameAccounted
<1>6. Accounted(ExecuteUnchecked(s0, p, parked.tab, parked.job), {})
  BY <1>2, <1>3, <1>5, ExecuteUncheckedAccounted
<1>7. TypeOK'
  BY ApprovePendingRunType
<1> QED
  BY <1>1, <1>6, <1>7, BecomesOwned

LEMMA CancelPendingRunOwned ==
  ASSUME TypeOK, OwnedRuns, NEW p \in Profiles, CancelPendingRun(p)
  PROVE  OwnedRuns'
<1> DEFINE s0 == [Now EXCEPT !.prompt[p] = {}]
<1>1. PICK parked \in prompt[p] : Becomes(StopQueueOn(s0, p, parked.tab))
  BY DEF CancelPendingRun
<1>2. parked.tab \in Tabs
  BY DEF TypeOK, Parked
<1>3. s0 \in Session /\ s0.tab = Now.tab /\ s0.tasks = Now.tasks
  BY NowType DEF Session
<1> HIDE DEF s0
<1>4. Accounted(s0, {})
  BY <1>3, SameAccounted DEF OwnedRuns
<1>5. Accounted(StopQueueOn(s0, p, parked.tab), {})
  BY <1>2, <1>3, <1>4, StopQueueOnAccounted
<1>6. TypeOK'
  BY CancelPendingRunType
<1> QED
  BY <1>1, <1>5, <1>6, BecomesOwned

LEMMA ContinueQueueOwned ==
  ASSUME TypeOK, OwnedRuns, NEW p \in Profiles, ContinueQueue(p)
  PROVE  OwnedRuns'
<1> DEFINE s0 == [Now EXCEPT !.failure[p] = {}]
<1>1. PICK t \in failure[p] : Room(p, t, 0, 1) /\ Becomes(SendNextStatement(s0, p, t))
  BY DEF ContinueQueue
<1>2. t \in Tabs
  BY DEF TypeOK
<1>3. s0 \in Session /\ s0.tab = Now.tab /\ s0.tasks = Now.tasks
  BY NowType DEF Session
<1>4. FreeRuns(Now) # {} /\ Accounted(Now, {})
  BY <1>1, RoomTokens DEF OwnedRuns
<1> HIDE DEF s0
<1>5. Accounted(s0, {}) /\ FreeRuns(s0) # {}
  BY <1>3, <1>4, SameAccounted
<1>6. Accounted(SendNextStatement(s0, p, t), {})
  BY <1>2, <1>3, <1>5, SendNextStatementAccounted
<1>7. TypeOK'
  BY ContinueQueueType
<1> QED
  BY <1>1, <1>6, <1>7, BecomesOwned

LEMMA StopQueueOwned ==
  ASSUME TypeOK, OwnedRuns, NEW p \in Profiles, StopQueue(p)
  PROVE  OwnedRuns'
<1>1. PICK t \in failure[p] :
        Becomes([Now EXCEPT !.failure[p] = {}, !.tab[p][t].queue.remaining = <<>>])
  BY DEF StopQueue
<1> DEFINE tb == tab[p][t]
           queue == [tb.queue EXCEPT !.remaining = <<>>]
           new == [tb EXCEPT !.queue = queue]
           s == [Now EXCEPT !.tab[p][t] = new]
           r == [Now EXCEPT !.failure[p] = {}, !.tab[p][t].queue.remaining = <<>>]
           own == Own(Now, p, t)
<1>2. t \in Tabs
  BY DEF TypeOK
<1>3. tb \in Tab /\ tb.queue \in Queue
  BY <1>2, TabParts DEF TypeOK
<1>4. queue.done = tb.queue.done /\ queue.awaiting = tb.queue.awaiting
      /\ queue.remaining = <<>>
  <2> HIDE DEF tb
  <2> QED
    BY <1>3 DEF Queue
<1>5. new.state = tb.state /\ new.lent = tb.lent /\ new.queue = queue
  <2> HIDE DEF tb, queue
  <2> QED
    BY <1>3 DEF Tab
<1>6. Owned(tb, own) => Owned(new, own)
  <2> HIDE DEF tb, new, own, queue
  <2>1. Lanes(tb, own) => Lanes(new, own)
    BY <1>4, <1>5 DEF Lanes
  <2>2. Owned(tb, own) => AllBare(new.queue.done)
    BY <1>4, <1>5 DEF Owned, Plainly
  <2>3. Alike(tb.state, new.state)
    BY <1>5 DEF Alike
  <2>4. AllIn(tb.queue) => AllIn(new.queue)
    BY <1>4, <1>5 DEF AllIn, AtOnce
  <2> QED
    BY <1>5, <2>1, <2>2, <2>3, <2>4, QuietTab
<1>7. r.tab = s.tab /\ r.tasks = s.tasks
  BY NowType DEF Now
<1>8. TypeOK'
  BY StopQueueType
<1>9. Becomes(r)
  BY <1>1
<1> HIDE DEF new, r
<1>10. s = [Now EXCEPT !.tab[p][t] = new]
  OBVIOUS
<1>11. /\ new.state.run = tab[p][t].state.run
       /\ Owned(tab[p][t], Own(Now, p, t)) => Owned(new, Own(Now, p, t))
  BY <1>5, <1>6 DEF tb, own
<1> HIDE DEF s, tb, queue, own
<1> QED
  BY <1>2, <1>7, <1>8, <1>9, <1>10, <1>11, TabOwned

LEMMA PourOwned ==
  ASSUME TypeOK, OwnedRuns, NEW task \in tasks, Pour(task)
  PROVE  OwnedRuns'
<1> DEFINE p == task.profile
           t == task.tab
           tb == tab[p][t]
           rows == [tb.rows EXCEPT ![task.grid] = RowsOf(task.job.start, 1, "arriving")]
           new == [tb EXCEPT !.rows = rows]
           s == [Now EXCEPT !.tab[p][t] = new]
           own == Own(Now, p, t)
<1>1. p \in Profiles /\ t \in Tabs
  BY DEF TypeOK, Task
<1>2. tb \in Tab
  <2> HIDE DEF p, t
  <2> QED
    BY <1>1 DEF TypeOK
<1>3. new.state = tb.state /\ new.lent = tb.lent /\ new.queue = tb.queue
  <2> HIDE DEF tb, rows
  <2> QED
    BY <1>2 DEF Tab
<1>4. Owned(tb, own) => Owned(new, own)
  <2> HIDE DEF tb, new, own
  <2> QED
    BY <1>3, SameOwned
<1>5. Becomes(s)
  BY DEF Pour, Now
<1>6. TypeOK'
  BY PourType
<1> HIDE DEF new
<1>7. s = [Now EXCEPT !.tab[p][t] = new]
  OBVIOUS
<1> HIDE DEF s, tb, p, t
<1> QED
  BY <1>1, <1>3, <1>4, <1>5, <1>6, <1>7, TabOwned DEF tb

\* Nothing accounted for changes.
LEMMA QuietOwned ==
  ASSUME OwnedRuns, tab' = tab, tasks' = tasks
  PROVE  OwnedRuns'
<1> DEFINE r == Now'
<1>1. r.tab = Now.tab /\ r.tasks = Now.tasks
  BY DEF Now
<1> HIDE DEF r
<1>2. Accounted(r, {})
  BY <1>1, SameAccounted DEF OwnedRuns
<1> QED
  BY <1>2 DEF OwnedRuns, r

\* A run takes one token.
LEMMA FreeLeft ==
  ASSUME NEW s \in Session, NEW p \in Profiles, NEW t \in Tabs, NEW tb,
         FreeRuns(s) # {}, tb.state.run = FreshRun(s), tb.lent = s.tab[p][t].lent
  PROVE  Cardinality(FreeRuns([s EXCEPT !.tab[p][t] = tb])) >= Cardinality(FreeRuns(s)) - 1
<1> DEFINE r == [s EXCEPT !.tab[p][t] = tb]
           run == FreshRun(s)
<1>1. \A q \in Profiles, x \in Tabs :
        r.tab[q][x] = IF q = p /\ x = t THEN tb ELSE s.tab[q][x]
  BY DEF Session
<1>2. r.tasks = s.tasks
  BY DEF Session
<1> HIDE DEF r
<1>3. ASSUME NEW x \in FreeRuns(s) \ {run}
      PROVE  x \in FreeRuns(r)
  <2>1. /\ x \in Runs /\ x # run
        /\ \A u \in s.tasks : u.id # x /\ u.lane # x
        /\ \A q \in Profiles, y \in Tabs :
             s.tab[q][y].state.run # x /\ s.tab[q][y].lent.state.run # x
    BY <1>3, FreeMeans
  <2>2. ASSUME NEW q \in Profiles, NEW y \in Tabs
        PROVE  r.tab[q][y].state.run # x /\ r.tab[q][y].lent.state.run # x
    <3>1. s.tab[q][y].state.run # x /\ s.tab[q][y].lent.state.run # x
      BY <2>1
    <3>2. s.tab[p][t].lent.state.run # x
      BY <2>1
    <3> QED
      BY <1>1, <2>1, <3>1, <3>2
  <2> QED
    BY <1>2, <2>1, <2>2, FreeMeans
<1>4. run \in FreeRuns(s)
  BY FreshRunFree
<1>5. IsFiniteSet(FreeRuns(s)) /\ IsFiniteSet(FreeRuns(r))
      /\ Cardinality(FreeRuns(s)) \in Nat /\ Cardinality(FreeRuns(r)) \in Nat
  BY FreeCount
<1> DEFINE a == FreeRuns(s)
           b == FreeRuns(r)
<1>6. a \ {run} \subseteq b /\ run \in a /\ IsFiniteSet(a) /\ IsFiniteSet(b)
  BY <1>3, <1>4, <1>5
<1> HIDE DEF a, b, run
<1>7. Cardinality(a \ {run}) = Cardinality(a) - 1
  BY <1>6, FS_RemoveElement
<1>8. Cardinality(a \ {run}) <= Cardinality(b)
  BY <1>6, FS_Subset
<1>9. Cardinality(a) \in Nat /\ Cardinality(b) \in Nat
  BY <1>5 DEF a, b
<1>10. Cardinality(b) >= Cardinality(a) - 1
  BY <1>7, <1>8, <1>9
<1> QED
  BY <1>10 DEF a, b, r

\* A queue to be run at once, none of it out.
Asked(tb) ==
  /\ ~tb.queue.awaiting /\ tb.queue.remaining = <<>>
  /\ \A i \in DOMAIN tb.queue.done :
       /\ ~IsRunning(tb.queue.done[i].state) /\ tb.queue.done[i].state.run = NoRun
       /\ Out(tb.queue.done[i].state) => IsFirst(tb.queue.done, i)

\* A tab given a run of its own, whose lanes are still to start.
LEMMA FreshReady ==
  ASSUME NEW s \in Session, NEW p \in Profiles, NEW t \in Tabs, NEW tb \in Tab,
         Accounted(s, {}), ~Busy(s, p, t), FreeRuns(s) # {},
         tb.state = Running(FreshRun(s)), tb.lent = s.tab[p][t].lent, Asked(tb)
  PROVE  LET r == [s EXCEPT !.tab[p][t] = tb]
         IN  /\ r \in Session /\ Ready(r, p, t) /\ r.tab[p][t] = tb
             /\ Cardinality(FreeRuns(r)) >= Cardinality(FreeRuns(s)) - 1
<1> DEFINE r == [s EXCEPT !.tab[p][t] = tb]
           own == Own(s, p, t)
           run == FreshRun(s)
<1>1. run \in FreeRuns(s) /\ run \in Runs /\ run # NoRun
  BY FreshRunFree, FreeToken
<1>2. IsRunning(tb.state) /\ tb.state.run = run
  BY DEF Running, IsRunning
<1>3. r \in Session /\ r.tab[p][t] = tb
  BY TabReplaced
<1>4. Accounted(r, {<<p, t>>}) /\ Own(r, p, t) = own
  BY <1>1, <1>2, OutAccounted
<1>5. Plainly(s.tab[p][t]) /\ Still(own)
  <2>1. Owned(s.tab[p][t], own)
    BY DEF Accounted
  <2>2. ~IsRunning(s.tab[p][t].state)
    BY DEF Busy
  <2> HIDE DEF own
  <2> QED
    BY <2>1, <2>2, NotBusyFree
<1>6. \A u \in own : u.lane # run
  BY <1>1, FreeMeans DEF Own
<1>7. Plainly(tb)
  BY <1>2, <1>5 DEF Plainly, AllBare, Bare, Asked
<1> HIDE DEF own, run
<1>8. Lanes(tb, own)
  BY <1>2, <1>5 DEF Lanes, Backed, Asked, Still
<1>9. tb.state.run = FreshRun(s)
  BY <1>2 DEF run
<1>10. Cardinality(FreeRuns(r)) >= Cardinality(FreeRuns(s)) - 1
  BY <1>9, FreeLeft
<1> HIDE DEF r
<1>11. Ready(r, p, t)
  BY <1>1, <1>2, <1>3, <1>4, <1>6, <1>7, <1>8 DEF Ready
<1> QED
  BY <1>3, <1>10, <1>11 DEF r

\* ... and its first n lanes started.
LEMMA StartsOwned ==
  ASSUME TypeOK, TypeOK', OwnedRuns, NEW p \in Profiles, NEW t \in Tabs, NEW tb \in Tab,
         NEW n \in Nat \ {0}, ~Busy(Now, p, t),
         tb.state = Running(FreshRun(Now)), tb.lent = tab[p][t].lent, Asked(tb),
         AtOnce(tb.queue), FreeRuns(Now) # {},
         Cardinality(FreeRuns(Now)) >= Cardinality(Started(tb.queue.done, n)) + 1,
         Becomes(StartWaiting([Now EXCEPT !.tab[p][t] = tb], p, t, n))
  PROVE  OwnedRuns'
<1> DEFINE r == [Now EXCEPT !.tab[p][t] = tb]
<1>1. /\ r \in Session /\ Ready(r, p, t) /\ r.tab[p][t] = tb
      /\ Cardinality(FreeRuns(r)) >= Cardinality(FreeRuns(Now)) - 1
  BY NowType, NowBusy, FreshReady DEF OwnedRuns
<1>2. Becomes(StartWaiting(r, p, t, n))
  OBVIOUS
<1> HIDE DEF r
<1>3. Cardinality(FreeRuns(r)) \in Nat /\ Cardinality(FreeRuns(Now)) \in Nat
  BY FreeCount
<1>4. Cardinality(Started(tb.queue.done, n)) \in Nat
  BY TabParts, StartedCount
<1>5. Cardinality(FreeRuns(r)) >= Cardinality(Started(r.tab[p][t].queue.done, n))
  BY <1>1, <1>3, <1>4
<1>6. AtOnce(r.tab[p][t].queue)
  BY <1>1
<1>7. Accounted(StartWaiting(r, p, t, n), {})
  BY <1>1, <1>5, <1>6, StartWaitingAccounted
<1> QED
  BY <1>2, <1>7, BecomesOwned

\* The queue that run_at_once gives the tab.
AtOnceQueue(selection, grid) ==
  [remaining |-> <<>>,
   done |-> [i \in DOMAIN selection |->
     [start |-> selection[i], set |-> 1, state |-> Ended("Idle"), grid |-> grid[i]]],
   showing |-> 1, awaiting |-> FALSE,
   spare |-> SubSeq(grid, Len(selection) + 1, Expected(selection))]

\* A selection is in the order of the buffer, so each of its statements is the
\* first of its name.
LEMMA AtOnceQueueAsked ==
  ASSUME NEW selection \in Selections, NEW grid, NEW tb,
         tb.queue = AtOnceQueue(selection, grid)
  PROVE  Asked(tb) /\ AtOnce(tb.queue) /\ Len(tb.queue.done) = Len(selection)
<1> DEFINE done == tb.queue.done
<1>1. /\ Len(selection) \in Nat /\ Len(selection) >= 2
      /\ DOMAIN selection = 1..Len(selection)
      /\ \A i \in DOMAIN selection : selection[i] \in Nat
      /\ \A i, j \in DOMAIN selection : i < j => selection[i] < selection[j]
  <2>1. selection \in Seq(Statements) /\ Len(selection) >= 2
    BY SelectionsAssumption
  <2>2. Len(selection) \in Nat /\ DOMAIN selection = 1..Len(selection)
    BY <2>1, LenProperties
  <2>3. \A i \in 1..Len(selection) : selection[i] \in Statements
    BY <2>1, ElementOfSeq
  <2> QED
    BY <2>1, <2>2, <2>3, SelectionsAssumption, StatementsAssumption
<1>2. DOMAIN done = DOMAIN selection
      /\ \A i \in DOMAIN selection : done[i].start = selection[i] /\ done[i].state = Ended("Idle")
  BY DEF AtOnceQueue
<1>3. ~tb.queue.awaiting /\ tb.queue.remaining = <<>>
  BY DEF AtOnceQueue
<1>4. ~IsRunning(Ended("Idle")) /\ Ended("Idle").run = NoRun /\ Out(Ended("Idle"))
  BY DEF Ended, IsRunning, Out
<1>5. Len(done) = Len(selection)
  BY <1>1 DEF AtOnceQueue
<1> HIDE DEF done
<1>6. \A i \in DOMAIN done : IsFirst(done, i)
  <2> SUFFICES ASSUME NEW i \in DOMAIN done, NEW j \in DOMAIN done, done[j].start = done[i].start
               PROVE  i <= j
    BY DEF IsFirst
  <2>1. selection[j] = selection[i] /\ i \in 1..Len(selection) /\ j \in 1..Len(selection)
    BY <1>1, <1>2
  <2>2. ~(j < i)
    BY <1>1, <2>1
  <2> QED
    BY <1>1, <2>1, <2>2
<1>7. 1 \in DOMAIN done
  BY <1>1, <1>2
<1>8. Asked(tb)
  BY <1>2, <1>3, <1>4, <1>6 DEF Asked, done
<1>9. AtOnce(tb.queue)
  BY <1>2, <1>4, <1>7 DEF AtOnce, done
<1> QED
  BY <1>5, <1>8, <1>9 DEF done

LEMMA RunAtOnceOwned ==
  ASSUME TypeOK, OwnedRuns, NEW p \in Profiles, NEW t \in Tabs, NEW selection \in Selections,
         RunAtOnce(p, t, selection)
  PROVE  OwnedRuns'
<1> DEFINE n == Len(selection)
           m == Expected(selection)
           grid == Reserve(p, t, m)
           entry(i) == [start |-> selection[i], set |-> 1,
                        state |-> Ended("Idle"), grid |-> grid[i]]
           done == [i \in DOMAIN selection |-> entry(i)]
           spare == SubSeq(grid, n + 1, m)
           queue == [remaining |-> <<>>, done |-> done, showing |-> 1,
                     awaiting |-> FALSE, spare |-> spare]
           tb == [Now.tab[p][t] EXCEPT !.queue = queue,
                                       !.state = Running(FreshRun(Now))]
<1>1. /\ selection \in Seq(Statements) /\ n \in Nat /\ n >= 2
      /\ DOMAIN selection = 1..n /\ n <= m /\ m \in Nat
  BY SelectionsAssumption, LenProperties, ExpectedType
<1>2. Room(p, t, m, Min({n, AtOnceLimit}) + 1) /\ ~Busy(Now, p, t)
  BY DEF RunAtOnce
<1>3. grid \in Seq(Grids) /\ Len(grid) = m
  <2>2. m <= m
    BY <1>1
  <2> HIDE DEF m, n
  <2> QED
    BY <1>2, <1>1, <2>2, ReserveType
<1>4. done \in Seq(Finished)
  <2>1. ASSUME NEW i \in 1..n
        PROVE  entry(i) \in Finished
    <3>1. selection[i] \in Sent
      BY <1>1, ElementOfSeq DEF Sent
    <3>2. grid[i] \in Grids
      <4>1. i \in 1..m
        BY <1>1
      <4> HIDE DEF grid, m
      <4> QED
        BY <1>3, <4>1, ElementOfSeq
    <3>3. Ended("Idle") \in State
      BY EndedType DEF Kinds
    <3> HIDE DEF grid
    <3> QED
      BY <3>1, <3>2, <3>3 DEF Finished
  <2>2. done \in [1..n -> Finished]
    <3> HIDE DEF entry
    <3> QED
      BY <1>1, <2>1
  <2> HIDE DEF done
  <2> QED
    BY <1>1, <2>2, SeqOfFunction
<1>5. spare \in Seq(Grids)
  <2> HIDE DEF grid, m, n
  <2>1. \A i \in n + 1..m : grid[i] \in Grids
    BY <1>1, <1>3, ElementOfSeq
  <2> QED
    BY <1>1, <2>1, SubSeqProperties
<1>6. queue \in Queue
  <2> HIDE DEF done, spare
  <2> QED
    BY <1>4, <1>5, EmptySeq DEF Queue
<1>7. queue = AtOnceQueue(selection, grid)
  BY DEF AtOnceQueue
<1>8. /\ tb \in Tab /\ tb.lent = tab[p][t].lent /\ tb.queue = queue
      /\ tb.state = Running(FreshRun(Now))
  <2>1. Now.tab[p][t] \in Tab /\ Now.tab[p][t] = tab[p][t]
    BY NowType, SessionParts DEF Now
  <2>2. Running(FreshRun(Now)) \in State
    BY FreshRunType, RunningType
  <2> HIDE DEF queue
  <2> QED
    BY <1>6, <2>1, <2>2 DEF Tab
<1>9. Becomes(StartWaiting([Now EXCEPT !.tab[p][t] = tb], p, t, AtOnceLimit))
  BY DEF RunAtOnce
<1> HIDE DEF tb, queue, grid
<1>10. Asked(tb) /\ AtOnce(tb.queue) /\ Len(tb.queue.done) = n
  BY <1>8, <1>7, AtOnceQueueAsked
<1>11. /\ AtOnceLimit \in Nat \ {0}
       /\ Min({n, AtOnceLimit}) \in {n, AtOnceLimit}
  <2>1. {n, AtOnceLimit} \in SUBSET Nat /\ IsFiniteSet({n, AtOnceLimit}) /\ n \in {n, AtOnceLimit}
    <3>1. IsFiniteSet({} \cup {n}) /\ IsFiniteSet(({} \cup {n}) \cup {AtOnceLimit})
      BY FS_EmptySet, FS_AddElement
    <3>2. ({} \cup {n}) \cup {AtOnceLimit} = {n, AtOnceLimit}
      OBVIOUS
    <3>3. IsFiniteSet({n, AtOnceLimit})
      BY <3>1, <3>2
    <3> QED
      BY <1>1, <3>3, SetsAssumption
  <2>2. {n, AtOnceLimit} # {}
    OBVIOUS
  <2> HIDE DEF n
  <2> QED
    BY <2>1, <2>2, MinMember, SetsAssumption
<1>12. Cardinality(Started(tb.queue.done, AtOnceLimit)) \in Nat
       /\ Cardinality(Started(tb.queue.done, AtOnceLimit)) <= AtOnceLimit
       /\ Cardinality(Started(tb.queue.done, AtOnceLimit)) <= n
  BY <1>8, <1>10, <1>11, <1>6, StartedCount
<1>13. Cardinality(FreeRuns(Now)) \in Nat
       /\ Cardinality(FreeRuns(Now)) >= Min({n, AtOnceLimit}) + 1
  BY <1>2, FreeCount DEF Room
<1> HIDE DEF n
<1>14. /\ Cardinality(FreeRuns(Now)) >= Cardinality(Started(tb.queue.done, AtOnceLimit)) + 1
       /\ Cardinality(FreeRuns(Now)) >= 1
  BY <1>1, <1>11, <1>12, <1>13
<1>15. FreeRuns(Now) # {}
  BY <1>14, RoomFree
<1>16. TypeOK'
  BY RunAtOnceType
<1> QED
  BY <1>2, <1>8, <1>9, <1>10, <1>11, <1>14, <1>15, <1>16, StartsOwned

\* An earlier result read again, as the one lane of a run.
LEMMA RerunQueuedOwned ==
  ASSUME TypeOK, OwnedRuns, NEW p \in Profiles, NEW t \in Tabs, RerunQueued(p, t)
  PROVE  OwnedRuns'
<1> DEFINE old == tab[p][t]
           at == old.queue.showing
           idle == [old EXCEPT !.queue.done[at].state = Ended("Idle")]
           tb == [idle EXCEPT !.state = Running(FreshRun(Now))]
<1>1. /\ old \in Tab /\ at \in DOMAIN old.queue.done /\ old.queue \in Queue
      /\ ~Busy(Now, p, t) /\ Settled(old.queue) /\ Room(p, t, 0, 2)
      /\ Lane(old.queue, old.queue.done[at].start) = at
  <2>1. /\ OnEntry(old) /\ ~Busy(Now, p, t) /\ Settled(old.queue) /\ Room(p, t, 0, 2)
        /\ Lane(old.queue, old.queue.done[at].start) = at
    BY Zenon DEF RerunQueued
  <2>2. old \in Tab
    BY DEF TypeOK
  <2> QED
    BY <2>1, <2>2, TabParts DEF OnEntry
<1>2. Becomes(StartWaiting([Now EXCEPT !.tab[p][t] = tb], p, t, 1))
  BY DEF RerunQueued, Now
<1>3. TypeOK'
  BY RerunQueuedType
<1>4. AllBare(old.queue.done)
  BY NowBusy DEF OwnedRuns, Accounted, Owned, Plainly
<1> HIDE DEF old, at
<1>5. /\ idle \in Tab /\ idle.lent = old.lent /\ idle.state = old.state
      /\ idle.queue.done = [old.queue.done EXCEPT ![at] = [@ EXCEPT !.state = Ended("Idle")]]
      /\ idle.queue.remaining = old.queue.remaining
      /\ idle.queue.awaiting = old.queue.awaiting
  <2>1. Ended("Idle") \in State
    BY EndedType DEF Kinds
  <2>2. /\ idle \in Tab
        /\ idle.queue.done = [old.queue.done EXCEPT ![at] = [@ EXCEPT !.state = Ended("Idle")]]
    BY <1>1, <2>1, EntryStateType
  <2>3. DOMAIN old.queue = {"remaining", "done", "showing", "awaiting", "spare"}
        /\ "queue" \in DOMAIN old /\ "lent" \in DOMAIN old /\ "state" \in DOMAIN old
    BY <1>1 DEF Tab, Queue
  <2>4. idle.lent = old.lent /\ idle.state = old.state
    BY <2>3
  <2>5. idle.queue.remaining = old.queue.remaining /\ idle.queue.awaiting = old.queue.awaiting
    BY <2>3
  <2> QED
    BY <2>2, <2>4, <2>5
<1> HIDE DEF idle
<1>6. /\ tb \in Tab /\ tb.lent = old.lent /\ tb.state = Running(FreshRun(Now))
      /\ tb.queue = idle.queue
  <2>1. Running(FreshRun(Now)) \in State
    BY FreshRunType, RunningType
  <2> QED
    BY <1>5, <2>1 DEF Tab
<1> HIDE DEF tb
<1> DEFINE done == old.queue.done
           left == tb.queue.done
<1>7. /\ DOMAIN left = DOMAIN done
      /\ \A i \in DOMAIN done : left[i].start = done[i].start
      /\ \A i \in DOMAIN done : left[i].state = IF i = at THEN Ended("Idle") ELSE done[i].state
      /\ tb.queue.remaining = <<>> /\ ~tb.queue.awaiting
  <2>1. tb.queue.remaining = <<>> /\ ~tb.queue.awaiting
    BY <1>1, <1>5, <1>6 DEF Settled
  <2>2. left = [done EXCEPT ![at] = [@ EXCEPT !.state = Ended("Idle")]]
    BY <1>5, <1>6
  <2>3. \A i \in DOMAIN done : done[i] \in Finished
    BY <1>1, QueueParts
  <2> HIDE DEF done, left
  <2> QED
    BY <2>1, <2>2, <2>3 DEF Finished
<1>8. IsFirst(done, at)
  <2>1. at # 0
    <3>1. DOMAIN done \subseteq Nat \ {0}
      BY <1>1, QueueParts
    <3> QED
      BY <1>1, <3>1
  <2> QED
    BY <1>1, <2>1, LaneIsFirst
<1>9. \A i \in DOMAIN done : ~Out(done[i].state) /\ ~IsRunning(done[i].state) /\ done[i].state.run = NoRun
  BY <1>1, <1>4 DEF Settled, AtOnce, AllBare, Bare, Out, IsRunning
<1>10. ~IsRunning(Ended("Idle")) /\ Ended("Idle").run = NoRun /\ Out(Ended("Idle"))
  BY DEF Ended, IsRunning, Out
<1>11. at \in DOMAIN done
  BY <1>1
<1> HIDE DEF done, left
<1>12. IsFirst(left, at)
  BY <1>7, <1>8, <1>11 DEF IsFirst
<1>13. Asked(tb)
  BY <1>7, <1>9, <1>10, <1>12 DEF Asked, left
<1>14. AtOnce(tb.queue)
  BY <1>7, <1>10, <1>11 DEF AtOnce, left
<1>15. Cardinality(Started(tb.queue.done, 1)) \in Nat
       /\ Cardinality(Started(tb.queue.done, 1)) <= 1
  <2>1. tb.queue \in Queue
    BY <1>6, TabParts
  <2> DEFINE n == 1
  <2>2. n \in Nat \ {0}
    OBVIOUS
  <2> HIDE DEF n
  <2>3. Cardinality(Started(tb.queue.done, n)) \in Nat
        /\ Cardinality(Started(tb.queue.done, n)) <= n
    BY <2>1, <2>2, StartedCount
  <2> QED
    BY <2>3 DEF n
<1>16. Cardinality(FreeRuns(Now)) \in Nat /\ Cardinality(FreeRuns(Now)) >= 2
  BY <1>1, FreeCount DEF Room
<1>17. Cardinality(FreeRuns(Now)) >= Cardinality(Started(tb.queue.done, 1)) + 1
  BY <1>15, <1>16
<1>18. FreeRuns(Now) # {}
  BY <1>16, RoomFree
<1>19. tb.lent = tab[p][t].lent
  BY <1>6 DEF old
<1> DEFINE n == 1
<1>20. n \in Nat \ {0} /\ n = 1
  OBVIOUS
<1> HIDE DEF n
<1> QED
  BY <1>1, <1>2, <1>3, <1>6, <1>13, <1>14, <1>17, <1>18, <1>19, <1>20, StartsOwned

\* A run that has been cancelled.
Marked(state) == IF IsRunning(state) THEN [state EXCEPT !.cancelling = TRUE] ELSE state

LEMMA MarkedAlike ==
  ASSUME NEW state \in State
  PROVE  Marked(state) \in State /\ Alike(state, Marked(state))
BY DEF Marked, Alike, State

\* A run cancelled, and what of its queue is out.
\* A cancel marks what is running on the tab, or in the entry on screen, and
\* changes nothing else the tab is known by.
Marks(tb, new) ==
  /\ new.lent = tb.lent /\ new.ran = tb.ran /\ Alike(tb.state, new.state)
  /\ new.queue.awaiting = tb.queue.awaiting /\ new.queue.remaining = tb.queue.remaining
  /\ DOMAIN new.queue.done = DOMAIN tb.queue.done
  /\ \A i \in DOMAIN tb.queue.done :
       /\ new.queue.done[i].start = tb.queue.done[i].start
       /\ Alike(tb.queue.done[i].state, new.queue.done[i].state)

LEMMA CancelQueryMarks ==
  ASSUME TypeOK, NEW p \in Profiles, NEW t \in Tabs, CancelQuery(p, t)
  PROVE  \E new \in Tab :
           /\ Marks(tab[p][t], new)
           /\ \/ Becomes([Now EXCEPT !.tab[p][t] = new])
              \/ /\ IsRunning(tab[p][t].state)
                 /\ Becomes(DropRestOfQueue([Now EXCEPT !.tab[p][t] = new], p, t))
<1> DEFINE tb == tab[p][t]
           at == tb.queue.showing
           one == [tb EXCEPT !.queue.done[at].state = Marked(tb.queue.done[at].state)]
           done == [i \in DOMAIN tb.queue.done |->
                      [tb.queue.done[i] EXCEPT !.state = Marked(tb.queue.done[i].state)]]
           queue == [tb.queue EXCEPT !.done = done]
           both == [tb EXCEPT !.state = Marked(tb.state), !.queue = queue]
<1>1. /\ tb \in Tab /\ tb.queue \in Queue /\ DOMAIN tb.queue.done \in SUBSET Nat
      /\ \A i \in DOMAIN tb.queue.done :
           tb.queue.done[i] \in Finished /\ tb.queue.done[i].state \in State
  <2>1. tb \in Tab /\ tb.queue \in Queue
    BY TabParts DEF TypeOK
  <2> HIDE DEF tb
  <2>2. DOMAIN tb.queue.done \in SUBSET Nat /\ \A i \in DOMAIN tb.queue.done : tb.queue.done[i] \in Finished
    BY <2>1, QueueParts
  <2> QED
    BY <2>1, <2>2 DEF Finished
<1>2. CASE OnEntry(tb) /\ IsRunning(tb.queue.done[at].state)
  <2>1. at \in DOMAIN tb.queue.done
    BY <1>2 DEF OnEntry
  <2>2. Becomes([Now EXCEPT !.tab[p][t] = one])
    BY <1>2 DEF CancelQuery, Now, Marked
  <2> HIDE DEF at
  <2>3. /\ one \in Tab
        /\ one.queue.done = [tb.queue.done EXCEPT ![at] = [@ EXCEPT !.state = Marked(tb.queue.done[at].state)]]
    <3> DEFINE m == Marked(tb.queue.done[at].state)
    <3>1. m \in State
      BY <1>1, <2>1, MarkedAlike
    <3> HIDE DEF m, tb
    <3>2. /\ [tb EXCEPT !.queue.done[at].state = m] \in Tab
          /\ [tb EXCEPT !.queue.done[at].state = m].queue.done =
               [tb.queue.done EXCEPT ![at] = [@ EXCEPT !.state = m]]
      <4> HIDE DEF one, both, queue, done
      <4>1. \A i \in DOMAIN tb.queue.done, x \in State :
              /\ [tb EXCEPT !.queue.done[i].state = x] \in Tab
              /\ [tb EXCEPT !.queue.done[i].state = x].queue.done =
                   [tb.queue.done EXCEPT ![i] = [@ EXCEPT !.state = x]]
        BY <1>1, EntryStateType
      <4> QED
        BY <2>1, <3>1, <4>1
    <3> QED
      BY <3>2 DEF m
  <2>4. /\ one.lent = tb.lent /\ one.ran = tb.ran /\ one.state = tb.state
        /\ one.queue.awaiting = tb.queue.awaiting /\ one.queue.remaining = tb.queue.remaining
    <3>1. /\ DOMAIN tb.queue = {"remaining", "done", "showing", "awaiting", "spare"}
          /\ {"queue", "lent", "ran", "state"} \subseteq DOMAIN tb
      BY <1>1 DEF Tab, Queue
    <3> HIDE DEF tb
    <3> QED
      BY <3>1
  <2> HIDE DEF one, tb
  <2>5. /\ DOMAIN one.queue.done = DOMAIN tb.queue.done
        /\ \A i \in DOMAIN tb.queue.done :
             /\ one.queue.done[i].start = tb.queue.done[i].start
             /\ Alike(tb.queue.done[i].state, one.queue.done[i].state)
    <3>1. \A i \in DOMAIN tb.queue.done : Alike(tb.queue.done[i].state, tb.queue.done[i].state)
      BY DEF Alike
    <3>2. Alike(tb.queue.done[at].state, Marked(tb.queue.done[at].state))
      BY <1>1, <2>1, MarkedAlike
    <3>3. "state" \in DOMAIN tb.queue.done[at]
      BY <1>1, <2>1 DEF Finished
    <3> QED
      BY <1>1, <2>1, <2>3, <3>1, <3>2, <3>3
  <2>6. Alike(tb.state, one.state)
    BY <2>4 DEF Alike
  <2>7. Marks(tb, one)
    BY <2>4, <2>5, <2>6 DEF Marks
  <2> QED
    BY <2>2, <2>3, <2>7 DEF tb
<1>3. CASE ~(OnEntry(tb) /\ IsRunning(tb.queue.done[at].state))
  <2>1. /\ IsRunning(tb.state)
        /\ Becomes(DropRestOfQueue([Now EXCEPT !.tab[p][t] = both], p, t))
    BY <1>3 DEF CancelQuery, Now, Marked
  <2> HIDE DEF at
  <2>2. /\ DOMAIN done = DOMAIN tb.queue.done
        /\ \A i \in DOMAIN tb.queue.done :
             /\ done[i].start = tb.queue.done[i].start
             /\ Alike(tb.queue.done[i].state, done[i].state)
             /\ done[i] \in Finished
    <3>1. \A i \in DOMAIN tb.queue.done :
            /\ Marked(tb.queue.done[i].state) \in State
            /\ Alike(tb.queue.done[i].state, Marked(tb.queue.done[i].state))
      BY <1>1, MarkedAlike
    <3> HIDE DEF tb
    <3> QED
      BY <1>1, <3>1 DEF Finished
  <2>3. done \in Seq(Finished)
    BY <1>1, <2>2, EntriesType
  <2>4. queue \in Queue /\ queue.done = done
        /\ queue.awaiting = tb.queue.awaiting /\ queue.remaining = tb.queue.remaining
    <3> HIDE DEF done, tb
    <3> QED
      BY <1>1, <2>3 DEF Queue
  <2>5. Marked(tb.state) \in State /\ Alike(tb.state, Marked(tb.state))
    BY <1>1, TabParts, MarkedAlike
  <2>6. /\ both \in Tab /\ both.lent = tb.lent /\ both.ran = tb.ran
        /\ both.state = Marked(tb.state) /\ both.queue = queue
    <3> HIDE DEF queue, tb
    <3> QED
      BY <1>1, <2>4, <2>5 DEF Tab
  <2> HIDE DEF both, queue, done, tb
  <2>7. Marks(tb, both)
    BY <2>2, <2>4, <2>5, <2>6 DEF Marks
  <2> QED
    BY <2>1, <2>6, <2>7 DEF tb
<1> QED
  BY <1>2, <1>3

LEMMA CancelQueryOwned ==
  ASSUME TypeOK, OwnedRuns, NEW p \in Profiles, NEW t \in Tabs, CancelQuery(p, t)
  PROVE  OwnedRuns'
<1> DEFINE tb == tab[p][t]
           own == Own(Now, p, t)
<1>1. PICK new \in Tab :
        /\ Marks(tb, new)
        /\ \/ Becomes([Now EXCEPT !.tab[p][t] = new])
           \/ Becomes(DropRestOfQueue([Now EXCEPT !.tab[p][t] = new], p, t))
  BY CancelQueryMarks
<1>2. TypeOK'
  BY CancelQueryType
<1>3. Now \in Session /\ Now.tab[p][t] = tb /\ Accounted(Now, {})
  BY NowType, NowBusy DEF OwnedRuns
<1>4. Owned(tb, own) /\ tb \in Tab
  BY <1>3 DEF Accounted, TypeOK
<1> DEFINE s == [Now EXCEPT !.tab[p][t] = new]
<1>5. Owned(new, own) /\ new.state.run = tb.state.run
  <2> HIDE DEF tb, own
  <2>1. DOMAIN tb.queue.done \in SUBSET Nat
    BY <1>4, TabParts, QueueParts
  <2> QED
    BY <1>1, <1>4, <2>1, MarkedTab DEF Marks, Alike
<1>6. s \in Session /\ Accounted(s, {})
  BY <1>3, <1>5, TabAccounted, TabReplaced DEF own
<1>7. Becomes(s) \/ Becomes(DropRestOfQueue(s, p, t))
  BY <1>1
<1> HIDE DEF s
<1>8. Accounted(DropRestOfQueue(s, p, t), {})
  BY <1>6, DropRestOfQueueAccounted
<1> QED
  BY <1>2, <1>6, <1>7, <1>8, BecomesOwned

-----------------------------------------------------------------------------
(* Connections.                                                            *)

\* What a statement is known by, retired or not.
Shade(u, v) ==
  /\ v.id = u.id /\ v.lane = u.lane /\ v.job = u.job
  /\ v.profile = u.profile /\ v.tab = u.tab
  /\ ~u.live => ~v.live

Shaded(own, new) ==
  /\ \A v \in new : \E u \in own : Shade(u, v)
  /\ \A u \in own : \E v \in new : Shade(u, v)
  /\ \A v, w \in new : v.id = w.id => v = w

LEMMA ShadedOwned ==
  ASSUME NEW tb, NEW own, NEW new, Owned(tb, own), Shaded(own, new)
  PROVE  Owned(tb, new)
<1>1. Still(own) => Still(new)
  BY DEF Still, Shaded, Shade
<1>2. OnSlot(tb, own) => OnSlot(tb, new)
  <2> SUFFICES ASSUME OnSlot(tb, own) PROVE OnSlot(tb, new)
    OBVIOUS
  <2>1. PICK u \in own : u.lane = NoRun /\ u.id = tb.state.run /\ Still(own \ {u})
    BY DEF OnSlot
  <2>2. PICK v \in new : Shade(u, v)
    BY DEF Shaded
  <2>3. ASSUME NEW w \in new \ {v}
        PROVE  w.lane # NoRun /\ ~w.live
    <3>1. PICK x \in own : Shade(x, w)
      BY DEF Shaded
    <3>2. x # u
      BY <2>2, <2>3, <3>1 DEF Shade, Shaded
    <3>3. x.lane # NoRun /\ ~x.live
      BY <2>1, <3>2 DEF Still
    <3> QED
      BY <3>1, <3>3 DEF Shade
  <2>4. Still(new \ {v})
    BY <2>3 DEF Still
  <2>5. IsRunning(tb.state) /\ v.lane = NoRun /\ v.id = tb.state.run
    BY <2>1, <2>2 DEF OnSlot, Shade
  <2> QED
    BY <2>4, <2>5 DEF OnSlot
<1>3. Lanes(tb, own) => Lanes(tb, new)
  <2> SUFFICES ASSUME Lanes(tb, own) PROVE Lanes(tb, new)
    OBVIOUS
  <2>1. Backed(tb.queue.done, tb.state.run, new)
    BY DEF Lanes, Backed, Shaded, Shade
  <2>2. ASSUME NEW v \in new
        PROVE  /\ v.lane # NoRun
               /\ v.live => v.lane = tb.state.run /\ InEntry(tb.queue.done, v)
    <3>1. PICK u \in own : Shade(u, v)
      BY DEF Shaded
    <3>2. v.lane = u.lane /\ v.id = u.id /\ v.job = u.job /\ (v.live => u.live)
      BY <3>1 DEF Shade
    <3>3. u.lane # NoRun /\ (u.live => u.lane = tb.state.run /\ InEntry(tb.queue.done, u))
      BY DEF Lanes
    <3>4. InEntry(tb.queue.done, u) => InEntry(tb.queue.done, v)
      BY <3>2 DEF InEntry
    <3> QED
      BY <3>2, <3>3, <3>4
  <2> QED
    BY <2>1, <2>2 DEF Lanes
<1>4. OnLanes(tb, own) => OnLanes(tb, new)
  BY <1>3 DEF OnLanes, Shaded, Shade
<1> QED
  BY <1>1, <1>2, <1>4 DEF Owned, IsFree

\* What is out of a profile, retired.
Retire(p, u) == IF u.profile = p THEN [u EXCEPT !.live = FALSE, !.grid = NoGrid] ELSE u

LEMMA RetireParts ==
  ASSUME NEW p, NEW u \in Task
  PROVE  Shade(u, Retire(p, u)) /\ (u.profile = p => ~Retire(p, u).live)
         /\ (u.profile # p => Retire(p, u) = u)
BY DEF Retire, Task, Shade

\* A connection begun anew leaves every tab on what it was on, to be let go of
\* as its statements come back.
LEMMA RetiredAccounted ==
  ASSUME NEW s, s.tasks \in SUBSET Task, Accounted(s, {}), NEW p,
         NEW r, r.tab = s.tab, r.tasks = Retired(p, s.tasks)
  PROVE  /\ Accounted(r, {})
         /\ \A t : \A u \in Own(r, p, t) : ~u.live
<1>1. r.tasks = {Retire(p, u) : u \in s.tasks}
  BY DEF Retired, Retire
<1>2. \A v \in r.tasks : \E u \in s.tasks : /\ v = Retire(p, u) /\ Shade(u, v)
                                           /\ (u.profile = p => ~v.live)
                                           /\ (u.profile # p => v = u)
  BY <1>1, RetireParts
<1>3. \A u \in s.tasks : Retire(p, u) \in r.tasks /\ Shade(u, Retire(p, u))
  BY <1>1, RetireParts
<1>4. Ids(s)
  BY DEF Accounted
<1>5. \A v, w \in r.tasks : v.id = w.id => v = w
  BY <1>2, <1>4 DEF Ids, Shade
<1>6. \A v, w \in r.tasks : v.lane # w.id
  BY <1>2, <1>4 DEF Ids, Shade
<1>7. \A q \in Profiles, t \in Tabs : \A v \in r.tasks :
        v.id = r.tab[q][t].state.run => v.profile = q /\ v.tab = t /\ v.lane = NoRun
  BY <1>2, <1>4 DEF Ids, Shade
<1>8. ASSUME NEW v \in r.tasks, NEW w \in r.tasks,
             v.lane # NoRun, v.lane = w.lane, v.profile = w.profile, v.tab = w.tab
      PROVE  v.live = w.live
  <2>1. PICK x \in s.tasks : /\ v = Retire(p, x) /\ Shade(x, v)
                             /\ x.profile # p => v = x
    BY <1>2
  <2>2. PICK y \in s.tasks : /\ w = Retire(p, y) /\ Shade(y, w)
                             /\ y.profile # p => w = y
    BY <1>2
  <2>3. x.profile = y.profile /\ x.tab = y.tab /\ x.lane = y.lane /\ x.lane # NoRun
    BY <1>8, <2>1, <2>2 DEF Shade
  <2>4. CASE x.profile # p
    <3>1. x.live = y.live
      BY <1>4, <2>3 DEF Ids
    <3>2. v = x /\ w = y
      BY <2>1, <2>2, <2>3, <2>4
    <3> QED
      BY <3>1, <3>2
  <2>5. CASE x.profile = p
    <3>1. v.live = FALSE /\ w.live = FALSE
      BY <2>1, <2>2, <2>3, <2>5 DEF Retire, Task
    <3> QED
      BY <3>1
  <2> QED
    BY <2>4, <2>5
<1>9. Ids(r)
  BY <1>5, <1>6, <1>7, <1>8 DEF Ids
<1>10. ASSUME NEW q \in Profiles, NEW t \in Tabs
       PROVE  Owned(r.tab[q][t], Own(r, q, t))
  <2>1. Owned(s.tab[q][t], Own(s, q, t))
    BY DEF Accounted
  <2>2. \A v \in Own(r, q, t) : \E u \in Own(s, q, t) : Shade(u, v)
    BY <1>2 DEF Own, Shade
  <2>3. \A u \in Own(s, q, t) : \E v \in Own(r, q, t) : Shade(u, v)
    BY <1>3 DEF Own, Shade
  <2>4. Shaded(Own(s, q, t), Own(r, q, t))
    BY <1>5, <2>2, <2>3 DEF Shaded, Own
  <2> QED
    BY <2>1, <2>4, ShadedOwned
<1>11. Accounted(r, {})
  BY <1>9, <1>10 DEF Accounted
<1>12. \A t : \A u \in Own(r, p, t) : ~u.live
  BY <1>2 DEF Own, Shade
<1> QED
  BY <1>11, <1>12

\* Tabs replaced, each by one on the same run or on none.
LEMMA TabsAccounted ==
  ASSUME NEW s, s.tasks \in SUBSET Task, Accounted(s, {}), NEW r, r.tasks = s.tasks,
         \A p \in Profiles, t \in Tabs :
           /\ Owned(r.tab[p][t], Own(s, p, t))
           /\ \/ r.tab[p][t].state.run = s.tab[p][t].state.run
              \/ r.tab[p][t].state.run = NoRun
  PROVE  Accounted(r, {})
<1>1. \A u \in s.tasks : u.id # NoRun
  BY RunsAssumption DEF Task, NoRun
<1>2. Ids(r)
  BY <1>1 DEF Accounted, Ids
<1>3. \A p \in Profiles, t \in Tabs : Own(r, p, t) = Own(s, p, t)
  BY DEF Own
<1> QED
  BY <1>2, <1>3 DEF Accounted

LEMMA BeginConnectAccounted ==
  ASSUME NEW s \in Session, Accounted(s, {}), NEW p \in Profiles
  PROVE  Accounted(BeginConnect(s, p), {})
<1> DEFINE r == BeginConnect(s, p)
<1>1. r.tab = s.tab /\ r.tasks = Retired(p, s.tasks)
  BY DEF BeginConnect, Session
<1>2. s.tasks \in SUBSET Task
  BY DEF Session
<1> HIDE DEF r
<1>3. Accounted(r, {})
  BY <1>1, <1>2, RetiredAccounted
<1> QED
  BY <1>3 DEF r

LEMMA ActivateOwned ==
  ASSUME TypeOK, OwnedRuns, NEW p \in Profiles, Activate(p)
  PROVE  OwnedRuns'
<1> DEFINE s0 == [Now EXCEPT !.prompt[p] = {}]
           s == IF conn[p] \in {"Idle", "Failed"} THEN BeginConnect(s0, p) ELSE s0
<1>1. s0 \in Session /\ s0.tab = Now.tab /\ s0.tasks = Now.tasks
  BY NowType DEF Session
<1>2. Becomes(s)
  BY DEF Activate
<1>3. TypeOK'
  BY ActivateType
<1> HIDE DEF s0
<1>4. Accounted(s0, {})
  BY <1>1, SameAccounted DEF OwnedRuns
<1>5. Accounted(s, {})
  BY <1>1, <1>4, BeginConnectAccounted
<1> HIDE DEF s
<1> QED
  BY <1>2, <1>3, <1>5, BecomesOwned

LEMMA ReconnectOwned ==
  ASSUME TypeOK, OwnedRuns, NEW p \in Profiles, Reconnect(p)
  PROVE  OwnedRuns'
<1>1. Becomes(BeginConnect(Now, p)) /\ TypeOK'
  BY ReconnectType DEF Reconnect
<1>2. Accounted(BeginConnect(Now, p), {})
  BY NowType, BeginConnectAccounted DEF OwnedRuns
<1> QED
  BY <1>1, <1>2, BecomesOwned

\* Every queue of a profile stopped.
AllStopped(p) == [Now EXCEPT !.tab[p] = QueuesStopped(p)]

LEMMA AllStoppedAccounted ==
  ASSUME TypeOK, OwnedRuns, NEW p \in Profiles
  PROVE  /\ AllStopped(p).tasks = tasks /\ AllStopped(p).tab = [tab EXCEPT ![p] = QueuesStopped(p)]
         /\ Accounted(AllStopped(p), {})
<1> DEFINE r == AllStopped(p)
<1>1. r.tasks = tasks /\ r.tab = [tab EXCEPT ![p] = QueuesStopped(p)]
  BY DEF Now, AllStopped
<1>2. Now \in Session /\ Accounted(Now, {}) /\ Now.tasks = tasks /\ Now.tab = tab
  BY NowType DEF OwnedRuns, Now
<1> HIDE DEF r
<1>3. ASSUME NEW t \in Tabs
      PROVE  /\ Owned(QueuesStopped(p)[t], Own(Now, p, t))
             /\ QueuesStopped(p)[t].state = tab[p][t].state
  <2> DEFINE u == StopQueueOn(Now, p, t)
  <2>1. QueuesStopped(p)[t] = u.tab[p][t]
    BY DEF QueuesStopped
  <2>2. Accounted(u, {}) /\ u.tasks = Now.tasks /\ u.tab[p][t].state = Now.tab[p][t].state
    BY <1>2, StopQueueOnAccounted
  <2> HIDE DEF u
  <2>3. Own(u, p, t) = Own(Now, p, t)
    BY <2>2 DEF Own
  <2>4. Owned(u.tab[p][t], Own(u, p, t))
    BY <2>2 DEF Accounted
  <2> QED
    BY <1>2, <2>1, <2>2, <2>3, <2>4
<1>4. \A q \in Profiles, t \in Tabs :
        /\ Owned(r.tab[q][t], Own(Now, q, t))
        /\ r.tab[q][t].state = tab[q][t].state
  <2> SUFFICES ASSUME NEW q \in Profiles, NEW t \in Tabs
               PROVE  /\ Owned(r.tab[q][t], Own(Now, q, t))
                      /\ r.tab[q][t].state = tab[q][t].state
    OBVIOUS
  <2>1. r.tab[q] = IF q = p THEN QueuesStopped(p) ELSE tab[q]
    BY <1>1 DEF TypeOK
  <2>2. Owned(tab[q][t], Own(Now, q, t))
    BY <1>2 DEF Accounted
  <2> QED
    BY <1>3, <2>1, <2>2
<1>5. Now.tasks \in SUBSET Task /\ r.tasks = Now.tasks
  BY <1>1, <1>2 DEF Session
<1>6. Accounted(r, {})
  BY <1>2, <1>4, <1>5, TabsAccounted
<1> QED
  BY <1>1, <1>6 DEF r

\* A connection closed.
LEMMA DisconnectOwned ==
  ASSUME TypeOK, OwnedRuns, NEW p \in Profiles, Disconnect(p)
  PROVE  OwnedRuns'
<1> DEFINE tabs == QueuesStopped(p)
           retired == Retired(p, tasks)
           s == [Now EXCEPT !.conn[p] = "Idle", !.tab[p] = tabs, !.prompt[p] = {},
                            !.failure[p] = {}, !.tasks = retired]
           mid == AllStopped(p)
<1>1. Becomes(s)
  BY DEF Disconnect, Now
<1>2. TypeOK'
  BY DisconnectType
<1>3. s.tab = [tab EXCEPT ![p] = tabs] /\ s.tasks = retired
  <2> HIDE DEF tabs, retired
  <2> QED
    BY DEF Now
<1>4. mid.tasks = tasks /\ mid.tab = [tab EXCEPT ![p] = tabs] /\ Accounted(mid, {})
  BY AllStoppedAccounted
<1>5. mid.tasks \in SUBSET Task
  BY <1>4 DEF TypeOK
<1> HIDE DEF s, mid, tabs
<1>6. s.tab = mid.tab /\ s.tasks = Retired(p, mid.tasks)
  BY <1>3, <1>4
<1>7. Accounted(s, {})
  BY <1>4, <1>5, <1>6, RetiredAccounted
<1> QED
  BY <1>1, <1>2, <1>7, BecomesOwned

\* A tab with its results let go of, nothing of it on the connection there is.
LEMMA LeftOwned ==
  ASSUME NEW tb, NEW own, Owned(tb, own), \A u \in own : ~u.live,
         NEW new, new.queue = NoQueue, new.lent = NoLoan,
         new.state = IF IsRunning(tb.state) THEN tb.state ELSE Ended("Idle")
  PROVE  Owned(new, own)
<1>1. ~IsRunning(Ended("Idle")) /\ Ended("Idle").run = NoRun
  BY DEF Ended, IsRunning
<1>2. /\ ~IsRunning(new.lent.state) /\ new.lent.state.run = NoRun
      /\ AllBare(new.queue.done) /\ AllIn(new.queue)
  BY <1>1 DEF NoLoan, NoQueue, AllBare, AllIn, AtOnce
<1>3. CASE ~IsRunning(tb.state)
  <2>1. Still(own)
    BY <1>3, NotBusyFree
  <2> QED
    BY <1>1, <1>2, <1>3, <2>1, FreeOwned
<1>4. CASE IsRunning(tb.state)
  <2>1. new.state = tb.state
    BY <1>4
  <2>2. Plainly(new)
    BY <1>2, <2>1 DEF Owned, Plainly
  <2>3. OnSlot(tb, own) => OnSlot(new, own)
    BY <1>2, <2>1 DEF OnSlot
  <2>4. OnLanes(tb, own) => OnLanes(new, own)
    BY <2>1 DEF OnLanes, Lanes, Backed, NoQueue
  <2> QED
    BY <1>4, <2>2, <2>3, <2>4 DEF Owned, IsFree
<1> QED
  BY <1>3, <1>4

LEMMA LeftParts ==
  ASSUME TypeOK, NEW p \in Profiles, NEW t \in Tabs
  PROVE  LET tb == QueuesStopped(p)[t]
         IN  /\ Left(p, t).queue = NoQueue /\ Left(p, t).lent = NoLoan
             /\ Left(p, t).state = IF IsRunning(tb.state) THEN tb.state ELSE Ended("Idle")
<1> DEFINE tb == QueuesStopped(p)[t]
           grid == Reserve(p, t, 1)[1]
           state == IF IsRunning(tb.state) THEN tb.state ELSE Ended("Idle")
           rows == [tb.rows EXCEPT ![grid] = Empty]
<1>1. tb \in Tab
  BY QueuesStoppedType
<1>2. Left(p, t) = [tb EXCEPT !.state = state, !.grid = grid, !.queue = NoQueue,
                              !.lent = NoLoan, !.last = Batch, !.ran = Batch,
                              !.rows = rows]
  BY DEF Left
<1>3. Left(p, t).queue = NoQueue /\ Left(p, t).lent = NoLoan /\ Left(p, t).state = state
  <2> HIDE DEF tb, state, grid, rows
  <2> QED
    BY <1>1, <1>2 DEF Tab
<1> QED
  BY <1>3

\* Another database: what was running stays the tab's until it is back.
LEMMA SetDatabaseOwned ==
  ASSUME TypeOK, OwnedRuns, NEW p \in Profiles, NEW inSession \in BOOLEAN,
         SetDatabase(p, inSession)
  PROVE  OwnedRuns'
<1> DEFINE tabs == [t \in Tabs |-> Left(p, t)]
           s0 == [Now EXCEPT !.tab[p] = tabs, !.prompt[p] = {}, !.failure[p] = {}]
           s == IF inSession THEN [s0 EXCEPT !.tasks = Retired(p, @)] ELSE BeginConnect(s0, p)
           stopped == AllStopped(p)
           mid == [stopped EXCEPT !.tasks = Retired(p, @)]
<1>1. Becomes(s)
  BY DEF SetDatabase
<1>2. TypeOK'
  BY SetDatabaseType
<1>3. s0.tab = [tab EXCEPT ![p] = tabs] /\ s0.tasks = tasks
      /\ DOMAIN s0 = {"conn", "tab", "prompt", "failure", "tasks"}
  <2> HIDE DEF tabs
  <2> QED
    BY DEF Now
<1>4. s.tab = [tab EXCEPT ![p] = tabs] /\ s.tasks = Retired(p, tasks)
  <2> HIDE DEF s0, tabs
  <2>1. [s0 EXCEPT !.tasks = Retired(p, @)].tab = s0.tab
        /\ [s0 EXCEPT !.tasks = Retired(p, @)].tasks = Retired(p, s0.tasks)
    BY <1>3
  <2>2. BeginConnect(s0, p).tab = s0.tab /\ BeginConnect(s0, p).tasks = Retired(p, s0.tasks)
    BY <1>3 DEF BeginConnect
  <2> QED
    BY <1>3, <2>1, <2>2
<1>5. /\ stopped.tasks = tasks /\ stopped.tab = [tab EXCEPT ![p] = QueuesStopped(p)]
      /\ Accounted(stopped, {}) /\ DOMAIN stopped = {"conn", "tab", "prompt", "failure", "tasks"}
  BY AllStoppedAccounted DEF AllStopped, Now
<1> HIDE DEF s, stopped
<1>6. mid.tasks = Retired(p, tasks) /\ mid.tab = stopped.tab
  BY <1>5
<1>7. stopped.tasks \in SUBSET Task /\ tasks \in SUBSET Task
  BY <1>5 DEF TypeOK
<1> HIDE DEF mid
<1>8. Accounted(mid, {}) /\ \A t : \A u \in Own(mid, p, t) : ~u.live
  BY <1>5, <1>6, <1>7, RetiredAccounted
<1>9. ASSUME NEW q \in Profiles, NEW t \in Tabs
      PROVE  /\ Owned(s.tab[q][t], Own(mid, q, t))
             /\ \/ s.tab[q][t].state.run = mid.tab[q][t].state.run
                \/ s.tab[q][t].state.run = NoRun
  <2>1. Owned(mid.tab[q][t], Own(mid, q, t))
    BY <1>8 DEF Accounted
  <2>2. CASE q # p
    <3>1. s.tab[q] = tab[q] /\ mid.tab[q] = tab[q]
      BY <1>4, <1>5, <1>6, <2>2 DEF TypeOK
    <3> QED
      BY <2>1, <3>1
  <2>3. CASE q = p
    <3>1. s.tab[p] = tabs /\ mid.tab[p] = QueuesStopped(p)
      <4> HIDE DEF tabs
      <4> QED
        BY <1>4, <1>5, <1>6 DEF TypeOK
    <3>2. s.tab[p][t] = Left(p, t)
      BY <3>1
    <3> DEFINE tb == QueuesStopped(p)[t]
               new == Left(p, t)
    <3>3. /\ new.queue = NoQueue /\ new.lent = NoLoan
          /\ new.state = IF IsRunning(tb.state) THEN tb.state ELSE Ended("Idle")
      BY LeftParts
    <3>4. Owned(tb, Own(mid, p, t)) /\ \A u \in Own(mid, p, t) : ~u.live
      BY <1>8, <2>1, <2>3, <3>1
    <3> HIDE DEF tb, new
    <3>5. Owned(new, Own(mid, p, t))
      BY <3>3, <3>4, LeftOwned
    <3>6. new.state.run = tb.state.run \/ new.state.run = NoRun
      BY <3>3 DEF Ended
    <3> QED
      BY <2>3, <3>1, <3>2, <3>5, <3>6 DEF tb, new
  <2> QED
    BY <2>2, <2>3
<1>10. mid.tasks \in SUBSET Task /\ s.tasks = mid.tasks
  BY <1>4, <1>6, <1>7, RetiredType
<1>11. Accounted(s, {})
  BY <1>8, <1>9, <1>10, TabsAccounted
<1> QED
  BY <1>1, <1>2, <1>11, BecomesOwned

-----------------------------------------------------------------------------
(* Every step.                                                             *)

\* A statement comes back.
LEMMA LandOwned ==
  ASSUME TypeOK, OwnedRuns, NEW task \in tasks, NEW outcome, NEW sets \in 1..MaxSets,
         Land(task, outcome, sets)
  PROVE  OwnedRuns'
<1> DEFINE s0 == [Now EXCEPT !.tasks = @ \ {task}]
           s == IF task.live THEN LandLive(s0, task, outcome, sets)
                             ELSE DropStaleRun(s0, task)
<1>1. task \in Task /\ sets \in Nat \ {0} /\ front \in Profiles \cup {NoProfile}
  BY SetsAssumption DEF TypeOK
<1>2. Now \in Session /\ s0 \in Session /\ Takes(Now, s0, task) /\ task \in Now.tasks
  BY NowType DEF Session, Takes, Now
<1>3. Becomes(s) /\ (outcome = "Lost" => task.lane = NoRun)
  BY DEF Land
<1>4. TypeOK'
  BY LandType
<1> HIDE DEF s0
<1>5. Accounted(Now, {})
  BY DEF OwnedRuns
<1>6. task.live => Accounted(LandLive(s0, task, outcome, sets), {})
  BY <1>1, <1>2, <1>3, <1>5, LandLiveAccounted
<1>7. ~task.live => Accounted(DropStaleRun(s0, task), {})
  BY <1>2, <1>5, DropStaleRunAccounted
<1>8. Accounted(s, {})
  BY <1>6, <1>7
<1> HIDE DEF s
<1> QED
  BY <1>3, <1>4, <1>8, BecomesOwned

LEMMA InitOwned == Init => OwnedRuns
<1> SUFFICES ASSUME Init PROVE OwnedRuns
  OBVIOUS
<1>1. PICK g \in Grids : tab = [p \in Profiles |-> [t \in Tabs |-> NewTab(g)]]
  BY DEF Init
<1>2. Now.tasks = {} /\ Now.tab = tab
  BY DEF Init, Now
<1>3. Owned(NewTab(g), {})
  <2>1. /\ ~IsRunning(NewTab(g).state) /\ NewTab(g).state.run = NoRun
        /\ AllBare(NewTab(g).queue.done) /\ AllIn(NewTab(g).queue)
        /\ ~IsRunning(NewTab(g).lent.state) /\ NewTab(g).lent.state.run = NoRun
    BY DEF NewTab, Ended, IsRunning, AllBare, AllIn, AtOnce, NoQueue, NoLoan
  <2>2. Still({})
    BY DEF Still
  <2> QED
    BY <2>1, <2>2, FreeOwned
<1>4. Ids(Now)
  BY <1>2 DEF Ids
<1>5. \A p \in Profiles, t \in Tabs : Own(Now, p, t) = {} /\ Now.tab[p][t] = NewTab(g)
  BY <1>1, <1>2 DEF Own
<1> QED
  BY <1>3, <1>4, <1>5 DEF OwnedRuns, Accounted

\* Every step.
LEMMA NextOwned == TypeOK /\ OwnedRuns /\ [Next]_vars => OwnedRuns'
<1> SUFFICES ASSUME TypeOK, OwnedRuns, [Next]_vars PROVE OwnedRuns'
  OBVIOUS
<1>1. ASSUME NEW p \in Profiles, NEW t \in Tabs, Commands(p, t)
      PROVE  OwnedRuns'
  <2>1. ASSUME NEW start \in Statements, RunQuery(p, t, start) PROVE OwnedRuns'
    BY <2>1, RunQueryOwned
  <2>2. ASSUME NEW start \in Statements, ExplainQuery(p, t, start) PROVE OwnedRuns'
    BY <2>2, ExplainQueryOwned
  <2>3. ASSUME NEW selection \in Selections, RunStatements(p, t, selection)
        PROVE  OwnedRuns'
    BY <2>3, RunStatementsOwned
  <2>4. ASSUME NEW selection \in Selections, RunAtOnce(p, t, selection)
        PROVE  OwnedRuns'
    BY <2>4, RunAtOnceOwned
  <2>5. CASE RefuseRun(p, t)
    BY <2>5, RefuseRunOwned
  <2>6. CASE ReorderQuery(p, t)
    BY <2>6, ReorderQueryOwned
  <2>7. CASE RerunQueued(p, t)
    BY <2>7, RerunQueuedOwned
  <2>8. CASE ApplyEdits(p, t)
    BY <2>8, ApplyEditsOwned
  <2>9. CASE CancelQuery(p, t)
    BY <2>9, CancelQueryOwned
  <2>10. ASSUME NEW index \in 1..Len(tab[p][t].queue.done) + 1,
                ShowQueuedResult(p, t, index)
         PROVE  OwnedRuns'
    <3>1. tab[p][t].queue \in Queue
      BY TabParts DEF TypeOK
    <3>2. index \in Nat
      BY <3>1, QueueParts
    <3> QED
      BY <2>10, <3>2, ShowQueuedResultOwned
  <2>11. CASE ActivateTab(p, t)
    BY <2>11, QuietOwned DEF ActivateTab
  <2> QED
    BY <1>1, <2>1, <2>2, <2>3, <2>4, <2>5, <2>6, <2>7, <2>8, <2>9, <2>10, <2>11
    DEF Commands
<1>2. ASSUME NEW p \in Profiles, Answers(p)
      PROVE  OwnedRuns'
  BY <1>2, ApprovePendingRunOwned, CancelPendingRunOwned, StopQueueOwned,
     ContinueQueueOwned DEF Answers
<1>3. ASSUME NEW p \in Profiles, Connections(p)
      PROVE  OwnedRuns'
  <2>1. \A opened \in BOOLEAN : ConnectLands(p, opened) => OwnedRuns'
    BY QuietOwned DEF ConnectLands
  <2> QED
    BY <1>3, <2>1, ActivateOwned, ReconnectOwned, DisconnectOwned, SetDatabaseOwned
    DEF Connections
<1>4. ASSUME NEW task \in tasks, Pour(task)
      PROVE  OwnedRuns'
  BY <1>4, PourOwned
<1>5. ASSUME NEW task \in tasks, Lands(task)
      PROVE  OwnedRuns'
  BY <1>5, LandOwned DEF Lands
<1>6. CASE UNCHANGED vars
  BY <1>6, QuietOwned DEF vars
<1> QED
  BY <1>1, <1>2, <1>3, <1>4, <1>5, <1>6 DEF Next

\* A tab is free, on its slot or on its lanes, and on nothing else, in every
\* state of the workspace.
THEOREM OwnedRunsInvariant == Spec => []OwnedRuns
<1>1. Init => TypeOK /\ OwnedRuns
  BY InitType, InitOwned
<1>2. TypeOK /\ OwnedRuns /\ [Next]_vars => TypeOK' /\ OwnedRuns'
  BY NextType, NextOwned
<1> QED
  BY <1>1, <1>2, PTL DEF Spec

LEMMA OwnedHasTask == TypeOK /\ OwnedRuns => RunHasTask
<1> SUFFICES ASSUME TypeOK, OwnedRuns, NEW p \in Profiles, NEW t \in Tabs,
                    IsRunning(tab[p][t].state)
             PROVE  \E task \in Of(p, t) :
                      tab[p][t].state.run = IF task.lane = NoRun THEN task.id ELSE task.lane
  BY DEF RunHasTask
<1>1. Own(Now, p, t) = Of(p, t) /\ Now.tab[p][t] = tab[p][t] /\ Now \in Session
  BY NowType DEF Now, Own, Of
<1>2. Owned(tab[p][t], Of(p, t))
  BY <1>1 DEF OwnedRuns, Accounted
<1>3. CASE OnSlot(tab[p][t], Of(p, t))
  BY <1>3 DEF OnSlot
<1>4. CASE OnLanes(tab[p][t], Of(p, t))
  BY <1>4 DEF OnLanes, Lanes
<1> QED
  BY <1>2, <1>3, <1>4 DEF Owned, IsFree

LEMMA OwnedOwnsSlot == TypeOK /\ OwnedRuns => TaskOwnsSlot
<1> SUFFICES ASSUME TypeOK, OwnedRuns, NEW task \in tasks
             PROVE  LET tb == tab[task.profile][task.tab]
                    IN  IF task.lane = NoRun
                        THEN tb.state.kind = "Running" /\ tb.state.run = task.id
                        ELSE task.live => /\ HasPlace(tb, task.lane, task.job.start)
                                          /\ StateAt(tb, task.lane, task.job.start).run = task.id
  BY DEF TaskOwnsSlot
<1> DEFINE tb == tab[task.profile][task.tab]
<1>1. Now \in Session /\ task \in Now.tasks /\ Now.tab = tab /\ Accounted(Now, {})
  BY NowType DEF Now, OwnedRuns
<1>2. Now.tab[task.profile][task.tab] = tb
  BY <1>1
<1> HIDE DEF tb
<1>3. CASE task.lane = NoRun
  <2>1. IsRunning(tb.state) /\ tb.state.run = task.id
    BY <1>1, <1>2, <1>3, SlotTask
  <2> QED
    BY <1>3, <2>1 DEF IsRunning, tb
<1>4. CASE task.lane # NoRun /\ task.live
  <2>1. /\ HasPlace(tb, task.lane, task.job.start)
        /\ tb.queue.done[Lane(tb.queue, task.job.start)].state.run = task.id
    BY <1>1, <1>2, <1>4, LaneTask
  <2>2. StateAt(tb, task.lane, task.job.start) =
          tb.queue.done[Lane(tb.queue, task.job.start)].state
    BY <1>4 DEF StateAt
  <2> QED
    BY <1>4, <2>1, <2>2 DEF tb
<1> QED
  BY <1>3, <1>4

\* A tab with a result still to come is on the lanes of its queue.
LEMMA OwnedAtOnce ==
  ASSUME Single, TypeOK, OwnedRuns, NEW p \in Profiles, NEW t \in Tabs,
         AtOnce(tab[p][t].queue)
  PROVE  Lanes(tab[p][t], Of(p, t))
<1>1. Own(Now, p, t) = Of(p, t) /\ Now.tab[p][t] = tab[p][t]
  BY DEF Now, Own, Of
<1>2. Owned(tab[p][t], Of(p, t))
  BY <1>1 DEF OwnedRuns, Accounted
<1> QED
  BY <1>2 DEF Owned, IsFree, OnSlot, OnLanes, AllIn

LEMMA OwnedEntries == Single /\ TypeOK /\ OwnedRuns => EntryHasTask /\ FinishedInDone
<1> SUFFICES ASSUME Single, TypeOK, OwnedRuns, NEW p \in Profiles, NEW t \in Tabs
             PROVE  LET queue == tab[p][t].queue
                    IN  /\ queue.remaining # <<>> \/ queue.awaiting => ~AtOnce(queue)
                        /\ \A i \in DOMAIN queue.done :
                             /\ Out(queue.done[i].state) => IsRunning(tab[p][t].state)
                             /\ IsRunning(queue.done[i].state) =>
                                  \E task \in Of(p, t) :
                                    /\ task.id = queue.done[i].state.run
                                    /\ task.lane = tab[p][t].state.run
                                    /\ task.job.start = queue.done[i].start
  BY DEF EntryHasTask, FinishedInDone
<1>1. CASE ~AtOnce(tab[p][t].queue)
  BY <1>1 DEF AtOnce, Out, IsRunning
<1>2. CASE AtOnce(tab[p][t].queue)
  <2>1. Lanes(tab[p][t], Of(p, t))
    BY <1>2, OwnedAtOnce
  <2> QED
    BY <2>1 DEF Lanes, Backed
<1> QED
  BY <1>1, <1>2

\* A tab that shows a statement running has that statement out, or a lane of
\* the run it is on: no handler, in any order, leaves a spinner nothing will
\* ever stop.
THEOREM SpinnerHasTask == Spec => []RunHasTask
BY TypeCorrect, OwnedRunsInvariant, OwnedHasTask, PTL

\* What comes back finds its slot waiting for exactly that statement, and a
\* live lane its own entry: it is never written over another's run.
THEOREM LandsWhereSent == Spec => []TaskOwnsSlot
BY TypeCorrect, OwnedRunsInvariant, OwnedOwnsSlot, PTL

\* With one connection, a chip of a queue run at once that is waiting is on a
\* tab busy with that queue, and one that is out has a lane of its own that will
\* land in it: no handler leaves one behind that nothing will ever end.
THEOREM ChipHasLane == Single => (Spec => []EntryHasTask)
<1>1. SUFFICES ASSUME Single PROVE Spec => []EntryHasTask
  OBVIOUS
<1>2. TypeOK /\ OwnedRuns => EntryHasTask
  BY <1>1, OwnedEntries
<1> QED
  BY <1>2, TypeCorrect, OwnedRunsInvariant, PTL

\* With one connection, a queue run in turn holds finished results only: what
\* the code says of it fails by the tab of another connection alone, which
\* AdvanceQueue takes for the one it was sent from.
THEOREM OneConnectionFinishes == Single => (Spec => []FinishedInDone)
<1>1. SUFFICES ASSUME Single PROVE Spec => []FinishedInDone
  OBVIOUS
<1>2. TypeOK /\ OwnedRuns => FinishedInDone
  BY <1>1, OwnedEntries
<1> QED
  BY <1>2, TypeCorrect, OwnedRunsInvariant, PTL

-----------------------------------------------------------------------------
(* What a slot is lent for.                                                *)

HoldsLoan(task, p, t) ==
  task.profile = p /\ task.tab = t /\ task.job.refresh \in {"Earlier", "Return"}

\* No statement of a queue run at once was sent for a loan: what lands in an
\* entry of its own gives nothing back.
Plain(all) == \A task \in all : task.lane # NoRun => task.job.refresh = "None"

LanesArePlain == Plain(tasks)

Sound(s, out) ==
  /\ \A p \in Profiles, t \in Tabs :
       <<p, t>> \notin out /\ s.tab[p][t].lent # NoLoan =>
         \E task \in s.tasks : HoldsLoan(task, p, t)
  /\ Plain(s.tasks)

Keeps(s, r) ==
  /\ \A p \in Profiles, t \in Tabs : r.tab[p][t].lent = s.tab[p][t].lent
  /\ s.tasks \subseteq r.tasks
  /\ Plain(r.tasks \ s.tasks)

-----------------------------------------------------------------------------
(* Sessions.                                                               *)

LEMMA KeepsSound ==
  ASSUME NEW s, NEW r, NEW out, Sound(s, out), Keeps(s, r)
  PROVE  Sound(r, out)
BY DEF Sound, Keeps, Plain

LEMMA KeepsItself ==
  ASSUME NEW s
  PROVE  Keeps(s, s)
BY DEF Keeps, Plain

LEMMA KeepsAfter ==
  ASSUME NEW s, NEW r, NEW q, Keeps(s, r), Keeps(r, q)
  PROVE  Keeps(s, q)
BY DEF Keeps, Plain

\* A session whose tabs are lent as they were, with the same statements out.
LEMMA SameLoans ==
  ASSUME NEW s, NEW r, r.tasks = s.tasks,
         \A p \in Profiles, t \in Tabs : r.tab[p][t].lent = s.tab[p][t].lent
  PROVE  Keeps(s, r)
BY DEF Keeps, Plain

\* A session with one tab replaced, by one lent as it was.
LEMMA TabKeeps ==
  ASSUME NEW s \in Session, NEW p \in Profiles, NEW t \in Tabs,
         NEW tb, tb.lent = s.tab[p][t].lent
  PROVE  Keeps(s, [s EXCEPT !.tab[p][t] = tb])
<1> DEFINE r == [s EXCEPT !.tab[p][t] = tb]
<1>1. \A q \in Profiles, u \in Tabs :
        r.tab[q][u] = IF q = p /\ u = t THEN tb ELSE s.tab[q][u]
  BY DEF Session
<1>2. r.tasks = s.tasks
  BY DEF Session
<1>3. Keeps(s, r)
  <2> HIDE DEF r
  <2> QED
    BY <1>1, <1>2, SameLoans
<1> QED
  BY <1>3

LEMMA QueueKeeps ==
  ASSUME NEW s \in Session, NEW p \in Profiles, NEW t \in Tabs, NEW queue
  PROVE  Keeps(s, [s EXCEPT !.tab[p][t].queue = queue])
<1> DEFINE tb == [s.tab[p][t] EXCEPT !.queue = queue]
<1>1. tb.lent = s.tab[p][t].lent
  BY SessionParts DEF Tab
<1>2. [s EXCEPT !.tab[p][t].queue = queue] = [s EXCEPT !.tab[p][t] = tb]
  BY DEF Session
<1> HIDE DEF tb
<1> QED
  BY <1>1, <1>2, TabKeeps

LEMMA StateKeeps ==
  ASSUME NEW s \in Session, NEW p \in Profiles, NEW t \in Tabs, NEW state
  PROVE  Keeps(s, [s EXCEPT !.tab[p][t].state = state])
<1> DEFINE tb == [s.tab[p][t] EXCEPT !.state = state]
<1>1. tb.lent = s.tab[p][t].lent
  BY SessionParts DEF Tab
<1>2. [s EXCEPT !.tab[p][t].state = state] = [s EXCEPT !.tab[p][t] = tb]
  BY DEF Session
<1> HIDE DEF tb
<1> QED
  BY <1>1, <1>2, TabKeeps

LEMMA PromptKeeps ==
  ASSUME NEW s \in Session, NEW p \in Profiles, NEW parked
  PROVE  Keeps(s, [s EXCEPT !.prompt[p] = parked])
<1>1. /\ [s EXCEPT !.prompt[p] = parked].tab = s.tab
      /\ [s EXCEPT !.prompt[p] = parked].tasks = s.tasks
  BY DEF Session
<1> QED
  BY <1>1, SameLoans

LEMMA FailureKeeps ==
  ASSUME NEW s \in Session, NEW p \in Profiles, NEW asked
  PROVE  Keeps(s, [s EXCEPT !.failure[p] = asked])
<1>1. /\ [s EXCEPT !.failure[p] = asked].tab = s.tab
      /\ [s EXCEPT !.failure[p] = asked].tasks = s.tasks
  BY DEF Session
<1> QED
  BY <1>1, SameLoans

\* A slot given back leaves nothing to be accounted for on its tab.
LEMMA GivenBackSound ==
  ASSUME NEW s \in Session, NEW p \in Profiles, NEW t \in Tabs,
         Sound(s, {<<p, t>>}) \/ Sound(s, {}), NEW tb, tb.lent = NoLoan
  PROVE  Sound([s EXCEPT !.tab[p][t] = tb], {})
<1> DEFINE r == [s EXCEPT !.tab[p][t] = tb]
<1>1. \A q \in Profiles, u \in Tabs :
        r.tab[q][u] = IF q = p /\ u = t THEN tb ELSE s.tab[q][u]
  BY DEF Session
<1>2. r.tasks = s.tasks
  BY DEF Session
<1>3. Sound(r, {})
  <2> HIDE DEF r
  <2> QED
    BY <1>1, <1>2 DEF Sound
<1> QED
  BY <1>3

\* The session of the state, and the state a handler leaves.
Loans == LoanHasRun /\ LanesArePlain

LEMMA NowSound ==
  ASSUME TypeOK
  PROVE  Sound(Now, {}) <=> Loans
BY DEF TypeOK, Sound, Now, Loans, LoanHasRun, LanesArePlain, Of, HoldsLoan

LEMMA BecomesSound ==
  ASSUME TypeOK', NEW s, Sound(s, {}), Becomes(s)
  PROVE  Loans'
<1>1. ASSUME NEW p \in Profiles, NEW t \in Tabs
      PROVE  tab'[p][t].lent = s.tab[p][t].lent
  <2> DEFINE tb == s.tab[p][t]
             rows == [g \in Grids |-> IF g \in Taken(s, p, t) THEN tb.rows[g] ELSE Empty]
  <2>1. tab'[p][t] = [tb EXCEPT !.rows = rows]
    BY DEF Becomes, Collected
  <2>2. "lent" \in DOMAIN tab'[p][t]
    BY DEF TypeOK, Tab
  <2> HIDE DEF tb, rows
  <2>3. tab'[p][t].lent = tb.lent
    BY <2>1, <2>2
  <2> QED
    BY <2>3 DEF tb
<1>2. tasks' = s.tasks
  BY DEF Becomes
<1> QED
  BY <1>1, <1>2 DEF Sound, Loans, LoanHasRun, LanesArePlain, Of, HoldsLoan

LEMMA BecomesKept ==
  ASSUME TypeOK, TypeOK', Loans, NEW s, Keeps(Now, s), Becomes(s)
  PROVE  Loans'
BY NowSound, KeepsSound, BecomesSound

-----------------------------------------------------------------------------
(* Tabs.                                                                   *)

LEMMA HandBackLoan ==
  ASSUME NEW tb \in Tab
  PROVE  HandBack(tb).lent = tb.lent
<1>1. \A state, grid, ran, last :
        /\ [tb EXCEPT !.state = state].lent = tb.lent
        /\ [tb EXCEPT !.state = state, !.grid = grid, !.ran = ran, !.last = last].lent
             = tb.lent
        /\ [[tb EXCEPT !.state = state] EXCEPT !.queue = NoQueue].lent = tb.lent
        /\ [[tb EXCEPT !.state = state, !.grid = grid, !.ran = ran, !.last = last]
             EXCEPT !.queue = NoQueue].lent = tb.lent
  BY DEF Tab
<1> QED
  BY <1>1 DEF HandBack

LEMMA ShowSlotLoan ==
  ASSUME NEW tb \in Tab
  PROVE  ShowSlot(tb).lent = tb.lent
BY DEF ShowSlot, Tab

LEMMA WrittenLoan ==
  ASSUME NEW tb \in Tab, NEW task, NEW kind
  PROVE  Written(tb, task, kind).lent = tb.lent
<1> DEFINE set == WithStateAt(tb, task.lane, task.job.start, Ended(kind))
<1>1. set.lent = tb.lent /\ DOMAIN set = DOMAIN tb /\ set = [x \in DOMAIN set |-> set[x]]
  BY DEF WithStateAt, Tab
<1>2. "lent" \in DOMAIN tb
  BY DEF Tab
<1> HIDE DEF set
<1>3. \A g, row, last : [set EXCEPT !.rows[g] = row, !.last = last].lent = tb.lent
  BY <1>1, <1>2
<1> QED
  BY <1>3 DEF Written, set

LEMMA GiveBackLoan ==
  ASSUME NEW tb \in Tab
  PROVE  GiveBack(tb).lent = NoLoan
<1>1. CASE tb.lent = NoLoan
  BY <1>1 DEF GiveBack
<1>2. CASE tb.lent # NoLoan
  <2>1. \A grid, state, done :
          [tb EXCEPT !.lent = NoLoan, !.grid = grid, !.state = state,
                     !.queue.done = done].lent = NoLoan
    BY DEF Tab
  <2> QED
    BY <1>2, <2>1 DEF GiveBack
<1> QED
  BY <1>1, <1>2

-----------------------------------------------------------------------------
(* Sending.                                                                *)

\* What goes out replaces nothing, and only a lane of a queue has a lane.
LEMMA TasksKeep ==
  ASSUME NEW s \in Session, NEW p \in Profiles, NEW t \in Tabs,
         NEW tb, tb.lent = s.tab[p][t].lent, NEW more, Plain(more)
  PROVE  Keeps(s, [s EXCEPT !.tab[p][t] = tb, !.tasks = @ \cup more])
<1> DEFINE r == [s EXCEPT !.tab[p][t] = tb, !.tasks = @ \cup more]
<1>1. \A q \in Profiles, u \in Tabs :
        r.tab[q][u] = IF q = p /\ u = t THEN tb ELSE s.tab[q][u]
  BY DEF Session
<1>2. r.tasks = s.tasks \cup more
  BY DEF Session
<1>3. Keeps(s, r)
  <2> HIDE DEF r
  <2> QED
    BY <1>1, <1>2 DEF Keeps, Plain
<1> QED
  BY <1>3

\* A statement goes out on the slot as it is, or on a slot lent to it that it
\* was lent for; and the rows of an earlier result are read again on a slot
\* whose loan the batch before it had.
LEMMA SendSound ==
  ASSUME NEW s \in Session, NEW p \in Profiles, NEW t \in Tabs, NEW job \in Job,
         Sound(s, {}) \/ (Sound(s, {<<p, t>>}) /\ job.refresh = "Return")
  PROVE  Sound(Send(s, p, t, job), {}) /\ Busy(Send(s, p, t, job), p, t)
<1> DEFINE run == FreshRun(s)
           lent == IF job.refresh = "Earlier" THEN Lend(s.tab[p][t], job.index)
                                              ELSE s.tab[p][t]
           rows == IF job.explain THEN lent.rows
                                  ELSE [lent.rows EXCEPT ![lent.grid] = Empty]
           sent == [lent EXCEPT !.state = Running(run), !.ran = job.from, !.rows = rows]
           task == [id |-> run, profile |-> p, tab |-> t, live |-> TRUE,
                    lane |-> NoRun, job |-> job, grid |-> lent.grid]
           r == [s EXCEPT !.tab[p][t] = sent, !.tasks = @ \cup {task}]
<1>1. r = Send(s, p, t, job)
  BY DEF Send
<1>2. lent \in Tab
  BY LendType DEF Session
<1>3. sent.lent = lent.lent /\ IsRunning(sent.state)
  <2>1. IsRunning(Running(run))
    BY DEF IsRunning, Running
  <2> HIDE DEF lent, rows, run
  <2> QED
    BY <1>2, <2>1 DEF Tab
<1>4. /\ \A q \in Profiles, u \in Tabs :
           r.tab[q][u] = IF q = p /\ u = t THEN sent ELSE s.tab[q][u]
      /\ r.tasks = s.tasks \cup {task}
  <2> HIDE DEF sent, task
  <2> QED
    BY DEF Session
<1>5. /\ task.lane = NoRun
      /\ job.refresh \in {"Earlier", "Return"} => HoldsLoan(task, p, t)
  BY DEF HoldsLoan
<1>6. job.refresh # "Earlier" => lent.lent = s.tab[p][t].lent
  OBVIOUS
<1>7. Sound(r, {})
  <2> HIDE DEF r, sent, task, lent
  <2> QED
    BY <1>3, <1>4, <1>5, <1>6 DEF Sound, Plain
<1>8. Busy(r, p, t)
  <2> HIDE DEF r, sent
  <2> QED
    BY <1>3, <1>4 DEF Busy
<1> QED
  BY <1>1, <1>7, <1>8

LEMMA ExecuteUncheckedSound ==
  ASSUME NEW s \in Session, NEW p \in Profiles, NEW t \in Tabs, NEW job \in Job,
         Sound(s, {})
  PROVE  Sound(ExecuteUnchecked(s, p, t, job), {})
BY SendSound, StateKeeps, KeepsSound DEF ExecuteUnchecked

LEMMA ExecuteAndThenSound ==
  ASSUME NEW s \in Session, NEW p \in Profiles, NEW t \in Tabs, NEW job \in Job,
         Sound(s, {})
  PROVE  Sound(ExecuteAndThen(s, p, t, job), {})
BY ExecuteUncheckedSound, PromptKeeps, KeepsSound DEF ExecuteAndThen

-----------------------------------------------------------------------------
(* Queues.  None of their handlers lends the slot, and none of what they   *)
(* send is an earlier result's.                                            *)

LEMMA StartLanesKeeps ==
  ASSUME NEW s \in Session, NEW p \in Profiles, NEW t \in Tabs, NEW at
  PROVE  Keeps(s, StartLanes(s, p, t, at))
<1> DEFINE tb == s.tab[p][t]
           run == FreshRuns(s, Cardinality(at))
           runOf(i) == run[Cardinality({j \in at : j <= i})]
           grids == {tb.queue.done[i].grid : i \in at}
           lane(i) == [id |-> runOf(i), profile |-> p, tab |-> t, live |-> TRUE,
                       lane |-> tb.state.run,
                       job |-> Ask(tb.queue.done[i].start, Batch),
                       grid |-> tb.queue.done[i].grid]
           done == [i \in DOMAIN tb.queue.done |->
                      IF i \in at
                      THEN [tb.queue.done[i] EXCEPT !.state = Running(runOf(i))]
                      ELSE tb.queue.done[i]]
           rows == [g \in Grids |-> IF g \in grids THEN Empty ELSE tb.rows[g]]
           started == [tb EXCEPT !.queue.done = done, !.rows = rows]
           more == {lane(i) : i \in at}
<1>1. StartLanes(s, p, t, at) = [s EXCEPT !.tab[p][t] = started, !.tasks = @ \cup more]
  BY DEF StartLanes
<1>2. started.lent = tb.lent
  <2>1. tb \in Tab
    BY SessionParts
  <2> HIDE DEF tb, done, rows
  <2> QED
    BY <2>1 DEF Tab
<1>3. Plain(more)
  <2>1. \A start, from : Ask(start, from).refresh = "None"
    BY DEF Ask
  <2>2. \A i \in at : lane(i).job.refresh = "None"
    <3> HIDE DEF runOf, tb
    <3> QED
      BY <2>1
  <2> HIDE DEF lane
  <2> QED
    BY <2>2 DEF Plain
<1>4. Keeps(s, [s EXCEPT !.tab[p][t] = started, !.tasks = @ \cup more])
  <2> HIDE DEF started, more
  <2> QED
    BY <1>2, <1>3, TasksKeep
<1> QED
  BY <1>1, <1>4

LEMMA FailLanesKeeps ==
  ASSUME NEW s \in Session, NEW p \in Profiles, NEW t \in Tabs
  PROVE  Keeps(s, FailLanes(s, p, t))
<1> DEFINE failed == LanesFailed(s.tab[p][t])
           left == IF AtOnce(failed.queue) THEN failed ELSE HandBack(failed)
<1>1. failed \in Tab /\ failed.lent = s.tab[p][t].lent
  BY SessionParts, LanesFailedType
<1>2. left.lent = s.tab[p][t].lent
  <2> HIDE DEF failed
  <2> QED
    BY <1>1, HandBackLoan
<1>3. FailLanes(s, p, t) = [s EXCEPT !.tab[p][t] = left]
  BY DEF FailLanes, LanesFailed
<1> HIDE DEF left
<1> QED
  BY <1>2, <1>3, TabKeeps

LEMMA StartWaitingKeeps ==
  ASSUME NEW s \in Session, NEW p \in Profiles, NEW t \in Tabs, NEW n
  PROVE  Keeps(s, StartWaiting(s, p, t, n))
BY StartLanesKeeps, FailLanesKeeps, KeepsItself DEF StartWaiting

LEMMA LandLaneKeeps ==
  ASSUME NEW s \in Session, NEW p \in Profiles, NEW t \in Tabs,
         NEW start \in Sent, NEW sets \in Nat \ {0}
  PROVE  Keeps(s, LandLane(s, p, t, start, sets))
<1> DEFINE landed == LaneLanded(s.tab[p][t], start, sets)
           r == [s EXCEPT !.tab[p][t] = landed]
<1>1. landed \in Tab /\ landed.lent = s.tab[p][t].lent
  BY SessionParts, LaneLandedType
<1>2. r \in Session /\ Keeps(s, r)
  <2> HIDE DEF landed
  <2> QED
    BY <1>1, TabReplaced, TabKeeps
<1>3. Keeps(s, StartWaiting(r, p, t, 1))
  <2> HIDE DEF r
  <2> QED
    BY <1>2, StartWaitingKeeps, KeepsAfter
<1>4. Keeps(s, [s EXCEPT !.tab[p][t] = HandBack(landed)])
  <2> HIDE DEF landed
  <2> QED
    BY <1>1, HandBackLoan, TabKeeps
<1>5. \/ LandLane(s, p, t, start, sets) = StartWaiting(r, p, t, 1)
      \/ LandLane(s, p, t, start, sets) = [s EXCEPT !.tab[p][t] = HandBack(landed)]
  BY DEF LandLane, LaneLanded
<1> HIDE DEF landed, r
<1> QED
  BY <1>3, <1>4, <1>5

LEMMA SendNextStatementSound ==
  ASSUME NEW s \in Session, NEW p \in Profiles, NEW t \in Tabs, Sound(s, {})
  PROVE  Sound(SendNextStatement(s, p, t), {})
<1> DEFINE tb == s.tab[p][t]
           next == tb.queue.remaining[1]
           r == [s EXCEPT !.tab[p][t] = Popped(tb)]
<1>1. CASE tb.queue.remaining = <<>>
  BY <1>1 DEF SendNextStatement
<1>2. CASE tb.queue.remaining # <<>>
  <2>1. next \in Sent /\ Popped(tb) \in Tab /\ Popped(tb).lent = tb.lent
    BY <1>2, SessionParts, PoppedType
  <2>2. r \in Session /\ Sound(r, {})
    <3> HIDE DEF next
    <3> QED
      BY <2>1, TabReplaced, TabKeeps, KeepsSound
  <2>3. SendNextStatement(s, p, t) = ExecuteAndThen(r, p, t, Ask(next, next))
    BY <1>2 DEF SendNextStatement, Popped
  <2> HIDE DEF r, next
  <2> QED
    BY <2>1, <2>2, <2>3, AskType, ExecuteAndThenSound
<1> QED
  BY <1>1, <1>2

LEMMA AdvanceQueueSound ==
  ASSUME NEW s \in Session, NEW p \in Profiles, NEW t \in Tabs,
         NEW sets \in Nat \ {0}, Sound(s, {})
  PROVE  Sound(AdvanceQueue(s, p, t, sets), {})
<1> DEFINE landed == Advanced(s.tab[p][t], sets)
           next == QueueLanded(s, p, t, sets)
<1>1. landed \in Tab /\ landed.lent = s.tab[p][t].lent
  BY SessionParts, AdvancedType
<1>2. next \in Session /\ Sound(next, {})
  <2>1. next = [s EXCEPT !.tab[p][t] = landed]
    BY DEF QueueLanded
  <2> HIDE DEF landed, next
  <2> QED
    BY <1>1, <2>1, TabReplaced, TabKeeps, KeepsSound
<1>3. AdvanceQueue(s, p, t, sets) \in
        {s, next, SendNextStatement(next, p, t), [next EXCEPT !.failure[p] = {t}],
         [next EXCEPT !.tab[p][t].queue = NoQueue]}
  BY AdvanceQueueForms
<1> HIDE DEF next
<1>4. /\ Sound(SendNextStatement(next, p, t), {})
      /\ Sound([next EXCEPT !.failure[p] = {t}], {})
      /\ Sound([next EXCEPT !.tab[p][t].queue = NoQueue], {})
  BY <1>2, SendNextStatementSound, FailureKeeps, QueueKeeps, KeepsSound
<1> QED
  BY <1>2, <1>3, <1>4

LEMMA DropRestOfQueueKeeps ==
  ASSUME NEW s \in Session, NEW p \in Profiles, NEW t \in Tabs
  PROVE  Keeps(s, DropRestOfQueue(s, p, t))
<1> DEFINE asked == s.failure[p] \ {t}
           r == [s EXCEPT !.failure[p] = asked]
<1>1. asked \in SUBSET Tabs
  BY DEF Session
<1>2. r \in Session /\ Keeps(s, r)
  <2> HIDE DEF asked
  <2>1. r \in Session
    BY <1>1 DEF Session
  <2> QED
    BY <2>1, FailureKeeps
<1>3. PICK queue : DropRestOfQueue(s, p, t) =
                     [s EXCEPT !.failure[p] = asked, !.tab[p][t].queue = queue]
  BY DEF DropRestOfQueue
<1>4. [s EXCEPT !.failure[p] = asked, !.tab[p][t].queue = queue]
        = [r EXCEPT !.tab[p][t].queue = queue]
  <2> HIDE DEF asked
  <2> QED
    BY DEF Session
<1> HIDE DEF r
<1> QED
  BY <1>2, <1>3, <1>4, QueueKeeps, KeepsAfter

LEMMA StopQueueOnKeeps ==
  ASSUME NEW s \in Session, NEW p \in Profiles, NEW t \in Tabs
  PROVE  Keeps(s, StopQueueOn(s, p, t))
<1> DEFINE r == DropRestOfQueue(s, p, t)
<1>1. r \in Session /\ Keeps(s, r)
  BY DropRestOfQueueType, DropRestOfQueueKeeps
<1> HIDE DEF r
<1>2. Keeps(r, ReleaseQueue(r, p, t))
  BY <1>1, QueueKeeps, KeepsItself DEF ReleaseQueue
<1> QED
  BY <1>1, <1>2, KeepsAfter DEF StopQueueOn, r

-----------------------------------------------------------------------------
(* What the user does.                                                     *)

LEMMA RunQueuedLoans ==
  ASSUME TypeOK, TypeOK', Loans, NEW p \in Profiles, NEW t \in Tabs,
         NEW queue \in Queue, NEW at \in Sent, Becomes(RunQueued(Now, p, t, queue, at))
  PROVE  Loans'
<1> DEFINE s == [Now EXCEPT !.tab[p][t].queue = queue]
<1>1. s \in Session /\ Sound(s, {})
  BY NowType, NowSound, QueueReplaced, QueueKeeps, KeepsSound
<1>2. Ask(at, at) \in Job
  BY AskType
<1>3. Sound(RunQueued(Now, p, t, queue, at), {})
  <2>1. RunQueued(Now, p, t, queue, at) = ExecuteAndThen(s, p, t, Ask(at, at))
    BY DEF RunQueued
  <2> HIDE DEF s
  <2> QED
    BY <1>1, <1>2, <2>1, ExecuteAndThenSound
<1> QED
  BY <1>3, BecomesSound

LEMMA StartsLanesLoans ==
  ASSUME TypeOK, TypeOK', Loans, NEW p \in Profiles, NEW t \in Tabs, StartsLanes(p, t)
  PROVE  Loans'
<1>1. PICK tb \in Tab, n \in Nat :
        /\ tb.lent = tab[p][t].lent
        /\ Becomes(StartWaiting([Now EXCEPT !.tab[p][t] = tb], p, t, n))
  BY DEF StartsLanes
<1> DEFINE s == [Now EXCEPT !.tab[p][t] = tb]
<1>2. s \in Session /\ Keeps(Now, s)
  <2>1. Now.tab[p][t] = tab[p][t]
    BY DEF Now
  <2> QED
    BY <1>1, <2>1, NowType, TabReplaced, TabKeeps
<1>3. Keeps(Now, StartWaiting(s, p, t, n))
  <2> HIDE DEF s
  <2> QED
    BY <1>2, StartWaitingKeeps, KeepsAfter
<1> QED
  BY <1>1, <1>3, BecomesKept

LEMMA ExecutesLoans ==
  ASSUME TypeOK, TypeOK', Loans, NEW p \in Profiles, NEW t \in Tabs, NEW job \in Job,
         Becomes(ExecuteUnchecked(Now, p, t, job)) \/ Becomes(ExecuteAndThen(Now, p, t, job))
  PROVE  Loans'
BY NowType, NowSound, ExecuteUncheckedSound, ExecuteAndThenSound, BecomesSound

LEMMA CommandsLoans ==
  ASSUME TypeOK, TypeOK', Loans, NEW p \in Profiles, NEW t \in Tabs, Commands(p, t)
  PROVE  Loans'
<1>1. ASSUME NEW start \in Statements, RunQuery(p, t, start)
      PROVE  Loans'
  BY <1>1, RunQueryStep, RunQueuedLoans
<1>2. ASSUME NEW start \in Statements, ExplainQuery(p, t, start)
      PROVE  Loans'
  <2> DEFINE job == [Ask(start, start) EXCEPT !.explain = TRUE]
  <2>1. job \in Job
    <3>1. Ask(start, start) \in Job
      BY AskType DEF Sent
    <3> QED
      BY <3>1 DEF Job
  <2>2. Becomes(ExecuteUnchecked(Now, p, t, job)) \/ Becomes(ExecuteAndThen(Now, p, t, job))
    BY <1>2 DEF ExplainQuery
  <2> HIDE DEF job
  <2> QED
    BY <2>1, <2>2, ExecutesLoans
<1>3. ASSUME NEW selection \in Selections, RunStatements(p, t, selection)
      PROVE  Loans'
  BY <1>3, RunStatementsStep, RunQueuedLoans
<1>4. ASSUME NEW selection \in Selections, RunAtOnce(p, t, selection)
      PROVE  Loans'
  BY <1>4, RunAtOnceStep, StartsLanesLoans
<1>5. CASE RefuseRun(p, t)
  BY <1>5, NowType, StateKeeps, BecomesKept DEF RefuseRun
<1>6. CASE ReorderQuery(p, t)
  <2>1. tab[p][t].last \in Sent /\ Batch \in Sent
    BY TabParts DEF TypeOK, Sent
  <2>2. Ask(tab[p][t].last, Batch) \in Job
    BY <2>1, AskType
  <2> QED
    BY <1>6, <2>2, ExecutesLoans DEF ReorderQuery
<1>7. CASE RerunQueued(p, t)
  BY <1>7, RerunQueuedStep, StartsLanesLoans
<1>8. CASE ApplyEdits(p, t)
  <2> DEFINE refresh == ApplyRefresh(tab[p][t])
             job == [start |-> Batch, from |-> Batch, explain |-> FALSE,
                     refresh |-> refresh.refresh, index |-> refresh.index,
                     then |-> refresh.then]
  <2>1. job \in Job
    <3>1. tab[p][t] \in Tab
      BY DEF TypeOK
    <3> QED
      BY <3>1, ApplyRefreshType DEF Job, Refreshes, Sent
  <2>2. Becomes(ExecuteAndThen(Now, p, t, job))
    BY <1>8 DEF ApplyEdits
  <2> HIDE DEF job
  <2> QED
    BY <2>1, <2>2, ExecutesLoans
<1>9. CASE CancelQuery(p, t)
  <2>1. PICK tb \in Tab :
          /\ tb.lent = tab[p][t].lent
          /\ \/ Becomes([Now EXCEPT !.tab[p][t] = tb])
             \/ Becomes(DropRestOfQueue([Now EXCEPT !.tab[p][t] = tb], p, t))
    BY <1>9, CancelQueryStep
  <2> DEFINE s == [Now EXCEPT !.tab[p][t] = tb]
  <2>2. s \in Session /\ Keeps(Now, s)
    <3>1. Now.tab[p][t] = tab[p][t]
      BY DEF Now
    <3> QED
      BY <2>1, <3>1, NowType, TabReplaced, TabKeeps
  <2>3. Keeps(Now, DropRestOfQueue(s, p, t))
    <3> HIDE DEF s
    <3> QED
      BY <2>2, DropRestOfQueueKeeps, KeepsAfter
  <2> QED
    BY <2>1, <2>2, <2>3, BecomesKept
<1>10. ASSUME NEW index, ShowQueuedResult(p, t, index)
       PROVE  Loans'
  <2> DEFINE queue == [Now.tab[p][t].queue EXCEPT !.showing = index]
  <2>1. [Now EXCEPT !.tab[p][t].queue.showing = index]
          = [Now EXCEPT !.tab[p][t].queue = queue]
    BY NowType DEF Now
  <2>2. Becomes([Now EXCEPT !.tab[p][t].queue = queue])
    BY <1>10, <2>1 DEF ShowQueuedResult
  <2> HIDE DEF queue
  <2> QED
    BY <2>2, NowType, QueueKeeps, BecomesKept
<1>11. CASE ActivateTab(p, t)
  BY <1>11 DEF ActivateTab, Loans, LoanHasRun, LanesArePlain, Of
<1> QED
  BY <1>1, <1>2, <1>3, <1>4, <1>5, <1>6, <1>7, <1>8, <1>9, <1>10, <1>11 DEF Commands

LEMMA AnswersLoans ==
  ASSUME TypeOK, TypeOK', Loans, NEW p \in Profiles, Answers(p)
  PROVE  Loans'
<1> DEFINE unparked == [Now EXCEPT !.prompt[p] = {}]
           unasked == [Now EXCEPT !.failure[p] = {}]
<1>1. unparked \in Session /\ Keeps(Now, unparked) /\ Sound(unparked, {})
  <2>1. unparked \in Session
    BY NowType DEF Session
  <2> QED
    BY <2>1, NowType, NowSound, PromptKeeps, KeepsSound
<1>2. unasked \in Session /\ Keeps(Now, unasked) /\ Sound(unasked, {})
  <2>1. unasked \in Session
    BY NowType DEF Session
  <2> QED
    BY <2>1, NowType, NowSound, FailureKeeps, KeepsSound
<1>3. CASE ApprovePendingRun(p)
  <2>1. PICK parked \in prompt[p] :
          Becomes(ExecuteUnchecked(unparked, p, parked.tab, parked.job))
    BY <1>3 DEF ApprovePendingRun
  <2>2. parked.tab \in Tabs /\ parked.job \in Job
    BY DEF TypeOK, Parked
  <2> HIDE DEF unparked
  <2> QED
    BY <1>1, <2>1, <2>2, ExecuteUncheckedSound, BecomesSound
<1>4. CASE CancelPendingRun(p)
  <2>1. PICK parked \in prompt[p] : Becomes(StopQueueOn(unparked, p, parked.tab))
    BY <1>4 DEF CancelPendingRun
  <2>2. parked.tab \in Tabs
    BY DEF TypeOK, Parked
  <2> HIDE DEF unparked
  <2> QED
    BY <1>1, <2>1, <2>2, StopQueueOnKeeps, KeepsAfter, BecomesKept
<1>5. CASE StopQueue(p)
  <2>1. PICK t \in failure[p] :
          Becomes([Now EXCEPT !.failure[p] = {}, !.tab[p][t].queue.remaining = <<>>])
    BY <1>5 DEF StopQueue
  <2>2. t \in Tabs
    BY DEF TypeOK
  <2> DEFINE queue == [unasked.tab[p][t].queue EXCEPT !.remaining = <<>>]
             s == [unasked EXCEPT !.tab[p][t].queue = queue]
  <2>3. [Now EXCEPT !.failure[p] = {}, !.tab[p][t].queue.remaining = <<>>] = s
    BY NowType, <2>2 DEF Now
  <2>4. Keeps(Now, s)
    <3> HIDE DEF unasked, queue
    <3> QED
      BY <1>2, <2>2, QueueKeeps, KeepsAfter
  <2> HIDE DEF s
  <2> QED
    BY <2>1, <2>3, <2>4, BecomesKept
<1>6. CASE ContinueQueue(p)
  <2>1. PICK t \in failure[p] : Becomes(SendNextStatement(unasked, p, t))
    BY <1>6 DEF ContinueQueue
  <2>2. t \in Tabs
    BY DEF TypeOK
  <2> HIDE DEF unasked
  <2> QED
    BY <1>2, <2>1, <2>2, SendNextStatementSound, BecomesSound
<1> QED
  BY <1>3, <1>4, <1>5, <1>6 DEF Answers

-----------------------------------------------------------------------------
(* Connections.                                                            *)

\* A statement issued to a generation that is gone still says what it was for.
LEMMA RetiredSound ==
  ASSUME NEW s, NEW r, NEW p, s.tasks \in SUBSET Task, Sound(s, {}),
         r.tasks = Retired(p, s.tasks),
         \A q \in Profiles, t \in Tabs :
           r.tab[q][t].lent = s.tab[q][t].lent \/ r.tab[q][t].lent = NoLoan
  PROVE  Sound(r, {})
<1> DEFINE retired(task) == IF task.profile = p
                            THEN [task EXCEPT !.live = FALSE, !.grid = NoGrid] ELSE task
<1>1. \A task \in s.tasks :
        /\ retired(task).profile = task.profile /\ retired(task).tab = task.tab
        /\ retired(task).lane = task.lane /\ retired(task).job = task.job
  BY DEF Task
<1>2. r.tasks = {retired(task) : task \in s.tasks}
  BY DEF Retired
<1> HIDE DEF retired
<1>3. ASSUME NEW q \in Profiles, NEW t \in Tabs, r.tab[q][t].lent # NoLoan
      PROVE  \E task \in r.tasks : HoldsLoan(task, q, t)
  <2>1. PICK task \in s.tasks : HoldsLoan(task, q, t)
    BY <1>3 DEF Sound
  <2>2. retired(task) \in r.tasks /\ HoldsLoan(retired(task), q, t)
    BY <1>1, <1>2, <2>1 DEF HoldsLoan
  <2> QED
    BY <2>2
<1>4. Plain(r.tasks)
  BY <1>1, <1>2 DEF Sound, Plain
<1> QED
  BY <1>3, <1>4 DEF Sound

LEMMA BeginConnectSound ==
  ASSUME NEW s \in Session, NEW p, Sound(s, {})
  PROVE  Sound(BeginConnect(s, p), {})
<1>1. /\ BeginConnect(s, p).tab = s.tab
      /\ BeginConnect(s, p).tasks = Retired(p, s.tasks)
  BY DEF BeginConnect, Session
<1>2. s.tasks \in SUBSET Task
  BY DEF Session
<1> QED
  BY <1>1, <1>2, RetiredSound

LEMMA QueuesStoppedLoan ==
  ASSUME TypeOK, NEW p \in Profiles, NEW t \in Tabs
  PROVE  QueuesStopped(p)[t].lent = tab[p][t].lent
<1>1. Keeps(Now, StopQueueOn(Now, p, t)) /\ Now.tab[p][t] = tab[p][t]
  BY NowType, StopQueueOnKeeps DEF Now
<1> QED
  BY <1>1 DEF QueuesStopped, Keeps

LEMMA LeftLoan ==
  ASSUME TypeOK, NEW p \in Profiles, NEW t \in Tabs
  PROVE  Left(p, t).lent = NoLoan
<1> DEFINE tb == QueuesStopped(p)[t]
           grid == Reserve(p, t, 1)[1]
           state == IF IsRunning(tb.state) THEN tb.state ELSE Ended("Idle")
           rows == [tb.rows EXCEPT ![grid] = Empty]
<1>1. tb \in Tab
  BY QueuesStoppedType
<1>2. Left(p, t) = [tb EXCEPT !.state = state, !.grid = grid, !.queue = NoQueue,
                              !.lent = NoLoan, !.last = Batch, !.ran = Batch,
                              !.rows = rows]
  BY DEF Left
<1> HIDE DEF tb, state, grid, rows
<1> QED
  BY <1>1, <1>2 DEF Tab

LEMMA ConnectionsLoans ==
  ASSUME TypeOK, TypeOK', Loans, NEW p \in Profiles, Connections(p)
  PROVE  Loans'
<1>1. Now \in Session /\ Sound(Now, {}) /\ Now.tasks \in SUBSET Task
  BY NowType, NowSound DEF Session
<1>2. CASE Activate(p)
  <2> DEFINE s == [Now EXCEPT !.prompt[p] = {}]
  <2>1. s \in Session /\ Sound(s, {})
    <3>1. s \in Session
      BY <1>1 DEF Session
    <3> QED
      BY <1>1, <3>1, PromptKeeps, KeepsSound
  <2>2. Becomes(s) \/ Becomes(BeginConnect(s, p))
    BY <1>2 DEF Activate
  <2> HIDE DEF s
  <2> QED
    BY <2>1, <2>2, BeginConnectSound, BecomesSound
<1>3. CASE Reconnect(p)
  BY <1>1, <1>3, BeginConnectSound, BecomesSound DEF Reconnect
<1>4. CASE Disconnect(p)
  <2> DEFINE s == [Now EXCEPT !.conn[p] = "Idle", !.tab[p] = QueuesStopped(p),
                              !.prompt[p] = {}, !.failure[p] = {},
                              !.tasks = Retired(p, @)]
  <2>1. /\ s.tasks = Retired(p, Now.tasks)
        /\ \A q \in Profiles : s.tab[q] = IF q = p THEN QueuesStopped(p) ELSE Now.tab[q]
    BY <1>1 DEF Session
  <2>2. Now.tab = tab
    BY DEF Now
  <2>3. Sound(s, {})
    <3> HIDE DEF s
    <3> QED
      BY <1>1, <2>1, <2>2, QueuesStoppedLoan, RetiredSound
  <2>4. Becomes(s)
    BY <1>4 DEF Disconnect
  <2> HIDE DEF s
  <2> QED
    BY <2>3, <2>4, BecomesSound
<1>5. ASSUME NEW opened \in BOOLEAN, ConnectLands(p, opened)
      PROVE  Loans'
  BY <1>5 DEF ConnectLands, Loans, LoanHasRun, LanesArePlain, Of
<1>6. ASSUME NEW inSession \in BOOLEAN, SetDatabase(p, inSession)
      PROVE  Loans'
  <2> DEFINE tabs == [t \in Tabs |-> Left(p, t)]
             s == [Now EXCEPT !.tab[p] = tabs, !.prompt[p] = {}, !.failure[p] = {}]
             r == [s EXCEPT !.tasks = Retired(p, @)]
  <2>1. /\ s.tasks = Now.tasks
        /\ \A q \in Profiles : s.tab[q] = IF q = p THEN tabs ELSE Now.tab[q]
    BY <1>1 DEF Session
  <2>2. s \in Session
    <3>1. tabs \in [Tabs -> Tab]
      BY <1>6, LeftType DEF SetDatabase
    <3> HIDE DEF tabs
    <3> QED
      BY <1>1, <3>1 DEF Session
  <2>3. Sound(s, {})
    <3>1. \A t \in Tabs : tabs[t].lent = NoLoan
      BY LeftLoan
    <3> HIDE DEF s, tabs
    <3> QED
      BY <1>1, <2>1, <3>1 DEF Sound
  <2>4. Sound(r, {})
    <3>1. r.tab = s.tab /\ r.tasks = Retired(p, s.tasks) /\ s.tasks \in SUBSET Task
      <4> HIDE DEF s
      <4> QED
        BY <2>2 DEF Session
    <3> HIDE DEF r, s
    <3> QED
      BY <2>3, <3>1, RetiredSound
  <2>5. Becomes(r) \/ Becomes(BeginConnect(s, p))
    BY <1>6 DEF SetDatabase
  <2> HIDE DEF r, s
  <2> QED
    BY <2>2, <2>3, <2>4, <2>5, BeginConnectSound, BecomesSound
<1> QED
  BY <1>2, <1>3, <1>4, <1>5, <1>6 DEF Connections

-----------------------------------------------------------------------------
(* Statements come back.                                                   *)

ForLoan(job) == job.refresh \in {"Earlier", "Return"}

LEMMA SoundBut ==
  ASSUME NEW s, NEW out, Sound(s, {})
  PROVE  Sound(s, out)
BY DEF Sound

LEMMA GiveBackSound ==
  ASSUME NEW s \in Session, NEW p \in Profiles, NEW t \in Tabs, Sound(s, {<<p, t>>})
  PROVE  Sound([s EXCEPT !.tab[p][t] = GiveBack(@)], {})
<1> DEFINE tb == GiveBack(s.tab[p][t])
<1>1. tb.lent = NoLoan
  BY SessionParts, GiveBackLoan
<1>2. [s EXCEPT !.tab[p][t] = GiveBack(@)] = [s EXCEPT !.tab[p][t] = tb]
  OBVIOUS
<1> HIDE DEF tb
<1> QED
  BY <1>1, <1>2, GivenBackSound

\* The rows of an earlier result read again: the loan has the run that reads
\* them, or none was sent and the tab is idle.
LEMMA ReadAgainSound ==
  ASSUME NEW s \in Session, NEW p \in Profiles, NEW t \in Tabs, NEW job \in Job,
         Sound(s, {<<p, t>>}), ~Busy(s, p, t), job.refresh = "Return"
  PROVE  /\ Sound(ExecuteAndThen(s, p, t, job), {<<p, t>>})
         /\ Busy(ExecuteAndThen(s, p, t, job), p, t) =>
              Sound(ExecuteAndThen(s, p, t, job), {})
<1> DEFINE parked == [s EXCEPT !.prompt[p] = {[tab |-> t, job |-> job]}]
           failed == [s EXCEPT !.tab[p][t].state = Ended("Failed")]
<1>1. Sound(parked, {<<p, t>>}) /\ ~Busy(parked, p, t)
  <2>1. parked.tab = s.tab
    BY DEF Session
  <2>2. Keeps(s, parked)
    BY PromptKeeps
  <2> HIDE DEF parked
  <2> QED
    BY <2>1, <2>2, KeepsSound DEF Busy
<1>2. Sound(failed, {<<p, t>>}) /\ ~Busy(failed, p, t)
  <2>1. failed.tab[p][t].state = Ended("Failed")
    BY SessionParts DEF Session, Tab
  <2>2. Keeps(s, failed)
    BY StateKeeps
  <2> HIDE DEF failed
  <2> QED
    BY <2>1, <2>2, KeepsSound DEF Busy, IsRunning, Ended
<1>3. Sound(Send(s, p, t, job), {})
  BY SendSound
<1>4. ExecuteAndThen(s, p, t, job) \in {parked, failed, Send(s, p, t, job)}
  BY DEF ExecuteAndThen, ExecuteUnchecked
<1> HIDE DEF parked, failed
<1> QED
  BY <1>1, <1>2, <1>3, <1>4, SoundBut

LEMMA FollowUpSound ==
  ASSUME NEW s \in Session, NEW p \in Profiles, NEW t \in Tabs, NEW job \in Job,
         NEW succeeded \in BOOLEAN,
         IF ForLoan(job) THEN Sound(s, {<<p, t>>}) /\ ~Busy(s, p, t) ELSE Sound(s, {})
  PROVE  Sound(FollowUp(s, p, t, job, succeeded), {})
<1> DEFINE back == [s EXCEPT !.tab[p][t] = GiveBack(@)]
           following == [Ask(job.then, Batch) EXCEPT !.refresh = "Return"]
           again == ExecuteAndThen(s, p, t, following)
           over == [again EXCEPT !.tab[p][t] = GiveBack(@)]
           plain == ExecuteAndThen(s, p, t, Ask(job.then, Batch))
<1>1. Ask(job.then, Batch) \in Job
  BY AskType DEF Job, Sent
<1>2. following \in Job /\ following.refresh = "Return"
  BY <1>1 DEF Job, Refreshes
<1>3. Sound(back, {})
  BY SoundBut, GiveBackSound
<1>4. ~ForLoan(job) => Sound(s, {}) /\ Sound(plain, {})
  BY <1>1, ExecuteAndThenSound
<1>5. ForLoan(job) => Sound(over, {}) /\ (Busy(again, p, t) => Sound(again, {}))
  <2> HIDE DEF following
  <2>1. again \in Session
    BY <1>2, ExecuteAndThenType
  <2>2. ForLoan(job) =>
          Sound(again, {<<p, t>>}) /\ (Busy(again, p, t) => Sound(again, {}))
    BY <1>2, ReadAgainSound
  <2> HIDE DEF again
  <2> QED
    BY <2>1, <2>2, GiveBackSound
<1>6. /\ job.refresh = "None" => FollowUp(s, p, t, job, succeeded) = s
      /\ job.refresh = "Return" => FollowUp(s, p, t, job, succeeded) = back
      /\ job.refresh = "Statement" =>
           FollowUp(s, p, t, job, succeeded) \in {s, back, plain}
      /\ job.refresh = "Earlier" =>
           FollowUp(s, p, t, job, succeeded) \in
             {back, IF Busy(again, p, t) THEN again ELSE over}
  <2>1. FollowUp(s, p, t, job, succeeded) =
          IF job.refresh = "None" THEN s
          ELSE IF job.refresh = "Return" THEN back
          ELSE IF ~succeeded THEN IF job.refresh = "Earlier" THEN back ELSE s
          ELSE IF front # p THEN back
          ELSE IF job.refresh = "Statement" THEN plain
          ELSE IF Busy(again, p, t) THEN again ELSE over
    BY Zenon DEF FollowUp
  <2> HIDE DEF back, plain, again, over
  <2> QED
    BY <2>1
<1>7. job.refresh \in {"None", "Return", "Statement", "Earlier"}
  BY DEF Job, Refreshes
<1> HIDE DEF back, plain, again, over
<1> QED
  BY <1>3, <1>4, <1>5, <1>6, <1>7 DEF ForLoan

\* A result is written where its run belongs, and the slot is then idle if
\* that is where.
LEMMA WrittenInKeeps ==
  ASSUME NEW s \in Session, NEW task \in Task, NEW outcome,
         HasPlace(s.tab[task.profile][task.tab], task.lane, task.job.start)
  PROVE  /\ Keeps(s, WrittenIn(s, task, outcome))
         /\ task.lane = NoRun =>
              ~Busy(WrittenIn(s, task, outcome), task.profile, task.tab)
<1> DEFINE p == task.profile
           t == task.tab
           tb == s.tab[p][t]
           kind == KindOf(tb, task, outcome)
           written == Written(tb, task, kind)
           shown == IF kind = "Explained" THEN ShowSlot(written) ELSE written
           r == [s EXCEPT !.tab[p][t] = shown]
<1>1. p \in Profiles /\ t \in Tabs
  BY DEF Task
<1>2. tb \in Tab
  <2> HIDE DEF p, t
  <2> QED
    BY <1>1, SessionParts
<1>3. kind \in Kinds /\ kind # "Running"
  BY DEF KindOf, Kinds
<1>4. written \in Tab /\ written.lent = tb.lent
  <2>1. HasPlace(tb, task.lane, task.job.start)
    OBVIOUS
  <2> HIDE DEF tb, kind
  <2> QED
    BY <1>2, <1>3, <2>1, WrittenType, WrittenLoan
<1>5. task.lane = NoRun => written.state = Ended(kind)
  <2> HIDE DEF tb, kind
  <2> QED
    BY <1>2 DEF Written, WithStateAt, Tab
<1>6. shown \in Tab /\ shown.lent = tb.lent /\ shown.state = written.state
  <2> HIDE DEF tb, kind, written
  <2>1. ShowSlot(written).state = written.state
    BY <1>4 DEF ShowSlot, Tab
  <2> QED
    BY <1>4, <2>1, ShowSlotType, ShowSlotLoan
<1>7. r.tab[p][t] = shown /\ Keeps(s, r)
  <2>1. s.tab[p][t] = tb
    OBVIOUS
  <2> HIDE DEF shown, tb, p, t
  <2> QED
    BY <1>1, <1>6, <2>1, TabReplaced, TabKeeps
<1>8. WrittenIn(s, task, outcome) = r
  BY DEF WrittenIn
<1>9. task.lane = NoRun => ~Busy(r, p, t)
  <2> HIDE DEF r, shown, written, kind, p, t
  <2> QED
    BY <1>3, <1>5, <1>6, <1>7 DEF Busy, IsRunning, Ended
<1> HIDE DEF r
<1> QED
  BY <1>7, <1>8, <1>9

\* What is left once the statement that came back is taken off: its tab alone
\* may be lent with nothing out.
Excused(task) == IF ForLoan(task.job) THEN {<<task.profile, task.tab>>} ELSE {}

LEMMA LandLiveSound ==
  ASSUME NEW s \in Session, NEW task \in Task, NEW outcome, NEW sets \in Nat \ {0},
         front \in Profiles \cup {NoProfile}, Sound(s, Excused(task)),
         task.lane # NoRun => ~ForLoan(task.job)
  PROVE  Sound(LandLive(s, task, outcome, sets), {})
<1> DEFINE p == task.profile
           t == task.tab
           heard == Heard(s, task, outcome)
           landed == WrittenIn(heard, task, outcome)
           kind == KindIn(heard, task, outcome)
           rest == IF kind = "Complete" THEN sets ELSE 1
           out == Excused(task)
<1>1. /\ p \in Profiles /\ t \in Tabs /\ task.job \in Job /\ task.job.start \in Sent
      /\ heard \in Session /\ rest \in Nat \ {0}
  BY HeardType DEF Task, Job
<1>2. Sound(heard, out)
  <2>1. Keeps(s, heard)
    BY HeardType, SameLoans
  <2> HIDE DEF heard
  <2> QED
    BY <2>1, KeepsSound
<1>3. /\ ~ForLoan(task.job) => out = {}
      /\ ForLoan(task.job) => out = {<<p, t>>} /\ task.lane = NoRun
      /\ task.job.refresh = "None" => ~ForLoan(task.job)
  BY DEF Excused, ForLoan
<1>4. CASE ~HasPlace(heard.tab[p][t], task.lane, task.job.start)
  <2>1. task.lane # NoRun
    BY <1>4 DEF HasPlace
  <2>2. LandLive(s, task, outcome, sets) = heard
    BY <1>4, LandLiveForms
  <2> HIDE DEF heard, out
  <2> QED
    BY <1>2, <1>3, <2>1, <2>2
<1>5. CASE HasPlace(heard.tab[p][t], task.lane, task.job.start)
  <2>1. /\ landed \in Session /\ Keeps(heard, landed)
        /\ task.lane = NoRun => ~Busy(landed, p, t)
    <3> HIDE DEF heard
    <3> QED
      BY <1>1, <1>5, WrittenInType, WrittenInKeeps
  <2>2. Sound(landed, out)
    <3> HIDE DEF heard, landed, out
    <3> QED
      BY <1>2, <2>1, KeepsSound
  <2>3. ~ForLoan(task.job) => Sound(LandLane(landed, p, t, task.job.start, rest), {})
    <3> HIDE DEF landed, rest, out, p, t
    <3> QED
      BY <1>1, <1>3, <2>1, <2>2, LandLaneKeeps, KeepsSound
  <2>4. ~ForLoan(task.job) /\ front # NoProfile =>
          Sound(AdvanceQueue(landed, front, t, rest), {})
    <3> HIDE DEF landed, rest, out, t
    <3> QED
      BY <1>1, <1>3, <2>1, <2>2, AdvanceQueueSound
  <2>5. task.lane = NoRun =>
          Sound(FollowUp(landed, p, t, task.job, kind # "Failed"), {})
    <3> HIDE DEF landed, kind, out, p, t
    <3> QED
      BY <1>1, <1>3, <2>1, <2>2, FollowUpSound
  <2>6. LandLive(s, task, outcome, sets) =
          IF task.lane # NoRun THEN LandLane(landed, p, t, task.job.start, rest)
          ELSE IF task.job.refresh = "None"
               THEN IF front = NoProfile THEN landed ELSE AdvanceQueue(landed, front, t, rest)
          ELSE FollowUp(landed, p, t, task.job, kind # "Failed")
    BY <1>5, LandLiveForms
  <2> HIDE DEF landed, rest, kind, out, p, t
  <2> QED
    BY <1>3, <2>2, <2>3, <2>4, <2>5, <2>6
<1> QED
  BY <1>4, <1>5

LEMMA DropStaleRunSound ==
  ASSUME NEW s \in Session, NEW task \in Task, Sound(s, Excused(task)),
         task.lane # NoRun => ~ForLoan(task.job)
  PROVE  Sound(DropStaleRun(s, task), {})
<1> DEFINE p == task.profile
           t == task.tab
<1>1. p \in Profiles /\ t \in Tabs
  BY DEF Task
<1>2. PICK tb \in Tab, queue \in Queue :
        \/ task.lane # NoRun /\ DropStaleRun(s, task) = s
        \/ /\ task.lane # NoRun
           /\ DropStaleRun(s, task) = [s EXCEPT !.tab[p][t].queue = queue]
        \/ DropStaleRun(s, task) = [s EXCEPT !.tab[p][t] = GiveBack(tb)]
  BY Zenon, DropStaleRunForms
<1>3. /\ task.lane # NoRun => Sound(s, {})
      /\ Sound(s, {<<p, t>>})
  BY SoundBut DEF Excused
<1> HIDE DEF p, t
<1>4. task.lane # NoRun => Sound([s EXCEPT !.tab[p][t].queue = queue], {})
  BY <1>1, <1>3, QueueKeeps, KeepsSound
<1>5. Sound([s EXCEPT !.tab[p][t] = GiveBack(tb)], {})
  BY <1>1, <1>3, GiveBackLoan, GivenBackSound
<1> QED
  BY <1>2, <1>3, <1>4, <1>5

LEMMA LandLoans ==
  ASSUME TypeOK, TypeOK', Loans, NEW task \in tasks, NEW outcome,
         NEW sets \in 1..MaxSets, Land(task, outcome, sets)
  PROVE  Loans'
<1> DEFINE s0 == [Now EXCEPT !.tasks = @ \ {task}]
           s == IF task.live THEN LandLive(s0, task, outcome, sets)
                             ELSE DropStaleRun(s0, task)
<1>1. task \in Task /\ sets \in Nat \ {0} /\ front \in Profiles \cup {NoProfile}
  BY SetsAssumption DEF TypeOK
<1>2. s0 \in Session /\ s0.tab = tab /\ s0.tasks = tasks \ {task}
  BY NowType DEF Session, Now
<1>3. task.lane # NoRun => ~ForLoan(task.job)
  BY DEF Loans, LanesArePlain, Plain, ForLoan
<1>4. Sound(s0, Excused(task))
  <2>1. ASSUME NEW p \in Profiles, NEW t \in Tabs, <<p, t>> \notin Excused(task),
               tab[p][t].lent # NoLoan
        PROVE  \E other \in tasks \ {task} : HoldsLoan(other, p, t)
    <3>1. PICK other \in tasks : HoldsLoan(other, p, t)
      BY <2>1 DEF Loans, LoanHasRun, Of, HoldsLoan
    <3>2. other # task
      BY <2>1, <3>1 DEF Excused, ForLoan, HoldsLoan
    <3> QED
      BY <3>1, <3>2
  <2>2. Plain(tasks \ {task})
    BY DEF Loans, LanesArePlain, Plain
  <2> HIDE DEF s0
  <2> QED
    BY <1>2, <2>1, <2>2 DEF Sound
<1>5. Sound(s, {})
  <2> HIDE DEF s0
  <2> QED
    BY <1>1, <1>2, <1>3, <1>4, LandLiveSound, DropStaleRunSound
<1>6. Becomes(s)
  BY DEF Land
<1> HIDE DEF s
<1> QED
  BY <1>5, <1>6, BecomesSound

LEMMA PourLoans ==
  ASSUME TypeOK, TypeOK', Loans, NEW task \in tasks, Pour(task)
  PROVE  Loans'
<1> DEFINE p == task.profile
           t == task.tab
           rows == [Now.tab[p][t].rows EXCEPT ![task.grid] =
                      RowsOf(task.job.start, 1, "arriving")]
           tb == [Now.tab[p][t] EXCEPT !.rows = rows]
<1>1. p \in Profiles /\ t \in Tabs
  BY DEF TypeOK, Task
<1>2. Now.tab[p][t] \in Tab
  <2> HIDE DEF p, t
  <2> QED
    BY <1>1, NowType, SessionParts
<1>3. tb.lent = Now.tab[p][t].lent
  <2> HIDE DEF rows, p, t
  <2> QED
    BY <1>2 DEF Tab
<1>4. Becomes([Now EXCEPT !.tab[p][t] = tb])
  BY DEF Pour, Now
<1> HIDE DEF tb, p, t
<1> QED
  BY <1>1, <1>3, <1>4, NowType, TabKeeps, BecomesKept

-----------------------------------------------------------------------------
(* The loan comes back.                                                    *)

LEMMA InitLoans == Init => Loans
<1> SUFFICES ASSUME Init PROVE Loans
  OBVIOUS
<1>1. \A p \in Profiles, t \in Tabs : tab[p][t].lent = NoLoan
  BY DEF Init, NewTab
<1>2. tasks = {}
  BY DEF Init
<1> QED
  BY <1>1, <1>2 DEF Loans, LoanHasRun, LanesArePlain, Plain

LEMMA NextLoans == TypeOK /\ Loans /\ [Next]_vars => Loans'
<1> SUFFICES ASSUME TypeOK, Loans, [Next]_vars PROVE Loans'
  OBVIOUS
<1>1. TypeOK'
  BY NextType
<1>2. ASSUME NEW p \in Profiles, NEW t \in Tabs, Commands(p, t)
      PROVE  Loans'
  BY <1>1, <1>2, CommandsLoans
<1>3. ASSUME NEW p \in Profiles, Answers(p)
      PROVE  Loans'
  BY <1>1, <1>3, AnswersLoans
<1>4. ASSUME NEW p \in Profiles, Connections(p)
      PROVE  Loans'
  BY <1>1, <1>4, ConnectionsLoans
<1>5. ASSUME NEW task \in tasks, Pour(task)
      PROVE  Loans'
  BY <1>1, <1>5, PourLoans
<1>6. ASSUME NEW task \in tasks, Lands(task)
      PROVE  Loans'
  BY <1>1, <1>6, LandLoans DEF Lands
<1>7. CASE UNCHANGED vars
  BY <1>7 DEF vars, Loans, LoanHasRun, LanesArePlain, Of
<1> QED
  BY <1>2, <1>3, <1>4, <1>5, <1>6, <1>7 DEF Next

\* A slot lent to an earlier result always has the run it was lent for out, so
\* it comes back with that run: no disconnect, switch, cancel or parked
\* statement on the way strands the tab's own result behind another's
\* (QueryTab::lend and give_back of src/session.rs, which execute_and_then and
\* drop_stale_run of src/workspace/queries.rs call).
THEOREM LoanComesBack == Spec => []LoanHasRun
<1>1. Loans => LoanHasRun
  BY DEF Loans
<1> QED
  BY <1>1, TypeCorrect, InitLoans, NextLoans, PTL DEF Spec

=============================================================================
