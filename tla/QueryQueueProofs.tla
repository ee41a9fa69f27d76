-------------------------- MODULE QueryQueueProofs --------------------------
(***************************************************************************)
(* The queue of a query tab: where it stops, and where it is.              *)
(*                                                                         *)
(* A queue sends nothing after a statement that failed, was cancelled or   *)
(* was left behind.  Whoever cancels takes what the queue has not sent,    *)
(* and nothing gives it more before the run has landed (OrderKept); of the *)
(* handlers of a landing, only the one that advances the queue sends what  *)
(* the buffer supplied, and it finds nothing left to send (Unsent).        *)
(*                                                                         *)
(* On the one tab of a user who answers what is asked, a queue is in one   *)
(* of four places (Placed): nothing of it is owed, a statement of it is    *)
(* out, the next is parked until the user answers, or it stopped part way  *)
(* and the user is being asked.                                            *)
(***************************************************************************)
EXTENDS QueryTaskProofs

-----------------------------------------------------------------------------
(* A queue that stops.  Whoever cancels a run takes what its queue has not *)
(* sent, and nothing gives it more before the run has landed.  What        *)
(* follows up a batch was let through the gate with it.                    *)

Cancelled(state) == IsRunning(state) /\ state.cancelling

Halts(tb) ==
  /\ Cancelled(tb.state) => tb.queue.remaining = <<>>
  /\ ~IsRunning(tb.lent.state)

Follows(job) == job.refresh \in {"Statement", "Earlier"} => job.then \notin Gated

AllFollow(s) ==
  /\ \A task \in s.tasks : Follows(task.job)
  /\ \A p \in Profiles : \A parked \in s.prompt[p] : Follows(parked.job)

Orderly(s) ==
  /\ \A p \in Profiles, t \in Tabs : Halts(s.tab[p][t])
  /\ AllFollow(s)

LEMMA SameHalts ==
  ASSUME NEW tb, NEW new, Halts(tb), new.state = tb.state, new.lent = tb.lent,
         new.queue.remaining \in {tb.queue.remaining, <<>>}
  PROVE  Halts(new)
BY DEF Halts

LEMMA IdleHalts ==
  ASSUME NEW tb, ~Cancelled(tb.state), ~IsRunning(tb.lent.state)
  PROVE  Halts(tb)
BY DEF Halts

LEMMA EndedIdle ==
  ASSUME NEW kind \in Kinds \ {"Running"}
  PROVE  ~IsRunning(Ended(kind)) /\ ~Cancelled(Ended(kind))
BY DEF Ended, IsRunning, Cancelled

LEMMA AskFollows ==
  ASSUME NEW start, NEW from
  PROVE  /\ Follows(Ask(start, from))
         /\ Follows([Ask(start, from) EXCEPT !.refresh = "Return"])
         /\ Follows([Ask(start, from) EXCEPT !.explain = TRUE])
BY DEF Ask, Follows

\* A session with the statements out and parked that there were, or fewer.
LEMMA FewerOrderly ==
  ASSUME NEW s, NEW r, Orderly(s), r.tasks \subseteq s.tasks,
         \A q \in Profiles : r.prompt[q] \subseteq s.prompt[q],
         \A q \in Profiles, u \in Tabs : Halts(r.tab[q][u])
  PROVE  Orderly(r)
BY DEF Orderly, AllFollow

\* A session with one tab replaced.
LEMMA TabOrderly ==
  ASSUME NEW s \in Session, NEW p \in Profiles, NEW t \in Tabs, NEW tb,
         Orderly(s), Halts(tb)
  PROVE  Orderly([s EXCEPT !.tab[p][t] = tb])
<1> DEFINE r == [s EXCEPT !.tab[p][t] = tb]
<1>1. \A q \in Profiles, u \in Tabs :
        r.tab[q][u] = IF q = p /\ u = t THEN tb ELSE s.tab[q][u]
  BY DEF Session
<1>2. r.tasks = s.tasks /\ r.prompt = s.prompt
  BY DEF Session
<1>3. Orderly(r)
  <2> HIDE DEF r
  <2> QED
    BY <1>1, <1>2 DEF Orderly, AllFollow
<1> QED
  BY <1>3

\* A tab whose queue has been replaced by one that owes no more.
LEMMA QueueOrderly ==
  ASSUME NEW s \in Session, NEW p \in Profiles, NEW t \in Tabs, NEW queue,
         Orderly(s), queue.remaining \in {s.tab[p][t].queue.remaining, <<>>}
  PROVE  Orderly([s EXCEPT !.tab[p][t].queue = queue])
<1> DEFINE tb == [s.tab[p][t] EXCEPT !.queue = queue]
<1>1. /\ tb.lent = s.tab[p][t].lent /\ tb.state = s.tab[p][t].state
      /\ tb.queue = queue
  BY SessionParts DEF Tab
<1>2. [s EXCEPT !.tab[p][t].queue = queue] = [s EXCEPT !.tab[p][t] = tb]
  BY DEF Session
<1>3. Halts(s.tab[p][t])
  BY DEF Orderly
<1> HIDE DEF tb
<1> QED
  BY <1>1, <1>2, <1>3, SameHalts, TabOrderly

\* A tab put on nothing.
LEMMA StateOrderly ==
  ASSUME NEW s \in Session, NEW p \in Profiles, NEW t \in Tabs, NEW state,
         Orderly(s), ~Cancelled(state)
  PROVE  Orderly([s EXCEPT !.tab[p][t].state = state])
<1> DEFINE tb == [s.tab[p][t] EXCEPT !.state = state]
<1>1. tb.lent = s.tab[p][t].lent /\ tb.state = state
  BY SessionParts DEF Tab
<1>2. [s EXCEPT !.tab[p][t].state = state] = [s EXCEPT !.tab[p][t] = tb]
  BY DEF Session
<1>3. Halts(s.tab[p][t])
  BY DEF Orderly
<1> HIDE DEF tb
<1>4. Halts(tb)
  BY <1>1, <1>3 DEF Halts
<1> QED
  BY <1>2, <1>4, TabOrderly

\* A statement parked, or what was parked let go of.
LEMMA PromptOrderly ==
  ASSUME NEW s \in Session, NEW p \in Profiles, NEW all, Orderly(s),
         \A parked \in all : Follows(parked.job)
  PROVE  Orderly([s EXCEPT !.prompt[p] = all])
<1> DEFINE r == [s EXCEPT !.prompt[p] = all]
<1>1. /\ r.tab = s.tab /\ r.tasks = s.tasks
      /\ \A q \in Profiles : r.prompt[q] = IF q = p THEN all ELSE s.prompt[q]
  BY DEF Session
<1>2. Orderly(r)
  <2> HIDE DEF r
  <2> QED
    BY <1>1 DEF Orderly, AllFollow
<1> QED
  BY <1>2

LEMMA FailureOrderly ==
  ASSUME NEW s \in Session, NEW p \in Profiles, NEW asked, Orderly(s)
  PROVE  Orderly([s EXCEPT !.failure[p] = asked])
<1>1. /\ [s EXCEPT !.failure[p] = asked].tab = s.tab
      /\ [s EXCEPT !.failure[p] = asked].tasks = s.tasks
      /\ [s EXCEPT !.failure[p] = asked].prompt = s.prompt
  BY DEF Session
<1> QED
  BY <1>1 DEF Orderly, AllFollow

\* A tab, and statements out for it.
LEMMA TasksOrderly ==
  ASSUME NEW s \in Session, NEW p \in Profiles, NEW t \in Tabs, NEW tb, NEW more,
         Orderly(s), Halts(tb), \A task \in more : Follows(task.job)
  PROVE  Orderly([s EXCEPT !.tab[p][t] = tb, !.tasks = @ \cup more])
<1> DEFINE r == [s EXCEPT !.tab[p][t] = tb, !.tasks = @ \cup more]
<1>1. \A q \in Profiles, u \in Tabs :
        r.tab[q][u] = IF q = p /\ u = t THEN tb ELSE s.tab[q][u]
  BY DEF Session
<1>2. r.tasks = s.tasks \cup more /\ r.prompt = s.prompt
  BY DEF Session
<1>3. Orderly(r)
  <2> HIDE DEF r
  <2> QED
    BY <1>1, <1>2 DEF Orderly, AllFollow
<1> QED
  BY <1>3

\* The grids let go of at the end of a step are none of this.
OrderKept == Orderly(Now)

LEMMA BecomesOrderly ==
  ASSUME TypeOK', NEW s, Orderly(s), Becomes(s)
  PROVE  OrderKept'
<1>1. ASSUME NEW p \in Profiles, NEW t \in Tabs
      PROVE  Halts(tab'[p][t])
  <2> DEFINE tb == s.tab[p][t]
             rows == [g \in Grids |-> IF g \in Taken(s, p, t) THEN tb.rows[g] ELSE Empty]
  <2>1. tab'[p][t] = [tb EXCEPT !.rows = rows]
    BY DEF Becomes, Collected
  <2>2. {"lent", "state", "queue"} \subseteq DOMAIN tab'[p][t]
    BY DEF TypeOK, Tab
  <2>3. Halts(tb)
    BY DEF Orderly
  <2> DEFINE new == tab'[p][t]
  <2> HIDE DEF tb, rows
  <2>4. new.lent = tb.lent /\ new.state = tb.state /\ new.queue = tb.queue
    BY <2>1, <2>2
  <2> HIDE DEF new
  <2>5. Halts(new)
    BY <2>3, <2>4 DEF Halts
  <2> QED
    BY <2>5 DEF new
<1>2. tasks' = s.tasks /\ prompt' = s.prompt
  BY DEF Becomes
<1> DEFINE r == Now'
<1>3. r.tab = tab' /\ r.tasks = tasks' /\ r.prompt = prompt'
  BY DEF Now
<1> HIDE DEF r
<1>4. Orderly(r)
  BY <1>1, <1>2, <1>3 DEF Orderly, AllFollow
<1> QED
  BY <1>4 DEF OrderKept, r

-----------------------------------------------------------------------------
(* Sending, in order.                                                      *)

LEMMA LendOrderly ==
  ASSUME NEW tb \in Tab, NEW index, Halts(tb), ~IsRunning(tb.state)
  PROVE  Lend(tb, index) \in Tab /\ ~IsRunning(Lend(tb, index).lent.state)
<1>1. Lend(tb, index) \in Tab
  BY LendType
<1>2. CASE Lend(tb, index) = tb
  BY <1>1, <1>2 DEF Halts
<1>3. CASE Lend(tb, index) = [tb EXCEPT !.lent = [grid |-> tb.grid, state |-> tb.state],
                                        !.grid = tb.queue.done[index].grid,
                                        !.state = tb.queue.done[index].state]
  <2>1. Lend(tb, index).lent = [grid |-> tb.grid, state |-> tb.state]
    BY <1>3 DEF Tab
  <2> QED
    BY <1>1, <2>1
<1> QED
  BY <1>2, <1>3 DEF Lend

\* A run that begins has not been cancelled.
LEMMA SendOrderly ==
  ASSUME NEW s \in Session, NEW p \in Profiles, NEW t \in Tabs, NEW job \in Job,
         Orderly(s), ~Busy(s, p, t), Follows(job)
  PROVE  Orderly(Send(s, p, t, job))
<1> DEFINE run == FreshRun(s)
           lent == IF job.refresh = "Earlier" THEN Lend(s.tab[p][t], job.index)
                                              ELSE s.tab[p][t]
           rows == IF job.explain THEN lent.rows
                                  ELSE [lent.rows EXCEPT ![lent.grid] = Empty]
           sent == [lent EXCEPT !.state = Running(run), !.ran = job.from, !.rows = rows]
           task == [id |-> run, profile |-> p, tab |-> t, live |-> TRUE,
                    lane |-> NoRun, job |-> job, grid |-> lent.grid]
           r == [s EXCEPT !.tab[p][t] = sent, !.tasks = @ \cup {task}]
<1>1. r = Send(s, p, t, job)
  BY DEF Send
<1>2. lent \in Tab /\ ~IsRunning(lent.lent.state)
  <2>1. s.tab[p][t] \in Tab /\ Halts(s.tab[p][t]) /\ ~IsRunning(s.tab[p][t].state)
    BY SessionParts DEF Orderly, Busy
  <2> QED
    BY <2>1, LendOrderly DEF Halts
<1>3. sent.lent = lent.lent /\ sent.state = Running(run)
  <2> HIDE DEF lent, rows, run
  <2> QED
    BY <1>2 DEF Tab
<1>4. ~Cancelled(sent.state)
  BY <1>3 DEF Cancelled, Running
<1>5. task.job = job
  OBVIOUS
<1> HIDE DEF sent, task, lent
<1>6. Halts(sent)
  BY <1>2, <1>3, <1>4 DEF Halts
<1>7. \A u \in {task} : Follows(u.job)
  BY <1>5
<1>8. Orderly(r)
  BY <1>6, <1>7, TasksOrderly
<1> QED
  BY <1>1, <1>8

LEMMA ExecuteUncheckedOrderly ==
  ASSUME NEW s \in Session, NEW p \in Profiles, NEW t \in Tabs, NEW job \in Job,
         Orderly(s), Follows(job)
  PROVE  Orderly(ExecuteUnchecked(s, p, t, job))
<1>1. ~Cancelled(Ended("Failed"))
  BY EndedIdle DEF Kinds
<1> QED
  BY <1>1, SendOrderly, StateOrderly DEF ExecuteUnchecked

LEMMA ExecuteAndThenOrderly ==
  ASSUME NEW s \in Session, NEW p \in Profiles, NEW t \in Tabs, NEW job \in Job,
         Orderly(s), Follows(job)
  PROVE  Orderly(ExecuteAndThen(s, p, t, job))
<1>1. \A parked \in {[tab |-> t, job |-> job]} : Follows(parked.job)
  OBVIOUS
<1>2. Orderly([s EXCEPT !.prompt[p] = {[tab |-> t, job |-> job]}])
  BY <1>1, PromptOrderly
<1> QED
  BY <1>2, ExecuteUncheckedOrderly DEF ExecuteAndThen

-----------------------------------------------------------------------------
(* Queues, in order.                                                       *)

LEMMA StartLanesOrderly ==
  ASSUME NEW s \in Session, NEW p \in Profiles, NEW t \in Tabs, NEW at, Orderly(s)
  PROVE  Orderly(StartLanes(s, p, t, at))
<1> DEFINE tb == s.tab[p][t]
           run == FreshRuns(s, Cardinality(at))
           runOf(i) == run[Cardinality({j \in at : j <= i})]
           grids == {tb.queue.done[i].grid : i \in at}
           lane(i) == [id |-> runOf(i), profile |-> p, tab |-> t, live |-> TRUE,
                       lane |-> tb.state.run,
                       job |-> Ask(tb.queue.done[i].start, Batch),
                       grid |-> tb.queue.done[i].grid]
           done == [i \in DOMAIN tb.queue.done |->
                      IF i \in at
                      THEN [tb.queue.done[i] EXCEPT !.state = Running(runOf(i))]
                      ELSE tb.queue.done[i]]
           rows == [g \in Grids |-> IF g \in grids THEN Empty ELSE tb.rows[g]]
           started == [tb EXCEPT !.queue.done = done, !.rows = rows]
           more == {lane(i) : i \in at}
<1>1. StartLanes(s, p, t, at) = [s EXCEPT !.tab[p][t] = started, !.tasks = @ \cup more]
  BY DEF StartLanes
<1>2. Halts(started)
  <2>1. tb \in Tab /\ tb.queue \in Queue /\ Halts(tb)
    BY SessionParts, TabParts DEF Orderly
  <2> HIDE DEF tb, done, rows
  <2>2. /\ started.lent = tb.lent /\ started.state = tb.state
        /\ started.queue.remaining = tb.queue.remaining
    BY <2>1 DEF Tab, Queue
  <2> HIDE DEF started
  <2> QED
    BY <2>1, <2>2, SameHalts
<1>3. \A task \in more : Follows(task.job)
  <2>1. \A i \in at : Follows(lane(i).job)
    <3> HIDE DEF runOf, tb
    <3> QED
      BY AskFollows
  <2> HIDE DEF lane
  <2> QED
    BY <2>1
<1>4. Orderly([s EXCEPT !.tab[p][t] = started, !.tasks = @ \cup more])
  <2> HIDE DEF started, more
  <2> QED
    BY <1>2, <1>3, TasksOrderly
<1> QED
  BY <1>1, <1>4

\* A slot handed back takes a result, which is over.
LEMMA HandBackOrderly ==
  ASSUME NEW tb \in Tab, Halts(tb), ~AtOnce(tb.queue)
  PROVE  Halts(HandBack(tb))
BY HandBackParts DEF Halts, Cancelled

LEMMA FailLanesOrderly ==
  ASSUME NEW s \in Session, NEW p \in Profiles, NEW t \in Tabs, Orderly(s)
  PROVE  Orderly(FailLanes(s, p, t))
<1> DEFINE tb == s.tab[p][t]
           done == [i \in DOMAIN tb.queue.done |->
                      IF tb.queue.done[i].state.kind = "Idle"
                      THEN [tb.queue.done[i] EXCEPT !.state = Ended("Failed")]
                      ELSE tb.queue.done[i]]
           failed == LanesFailed(tb)
           left == IF AtOnce(failed.queue) THEN failed ELSE HandBack(failed)
<1>1. tb \in Tab /\ tb.queue \in Queue /\ Halts(tb) /\ failed \in Tab
  BY SessionParts, TabParts, LanesFailedType DEF Orderly
<1>2. failed = [tb EXCEPT !.queue.done = done]
  <2> HIDE DEF tb
  <2> QED
    BY <1>1 DEF LanesFailed, Tab, Queue
<1>3. Halts(failed)
  <2> HIDE DEF failed, tb, done
  <2>1. /\ failed.lent = tb.lent /\ failed.state = tb.state
        /\ failed.queue.remaining = tb.queue.remaining
    BY <1>1, <1>2 DEF Tab, Queue
  <2> QED
    BY <1>1, <2>1, SameHalts
<1>4. Halts(left)
  <2> HIDE DEF failed
  <2> QED
    BY <1>1, <1>3, HandBackOrderly
<1>5. FailLanes(s, p, t) = [s EXCEPT !.tab[p][t] = left]
  BY DEF FailLanes, LanesFailed
<1> HIDE DEF left
<1> QED
  BY <1>4, <1>5, TabOrderly

LEMMA StartWaitingOrderly ==
  ASSUME NEW s \in Session, NEW p \in Profiles, NEW t \in Tabs, NEW n, Orderly(s)
  PROVE  Orderly(StartWaiting(s, p, t, n))
BY StartLanesOrderly, FailLanesOrderly DEF StartWaiting

LEMMA LandLaneOrderly ==
  ASSUME NEW s \in Session, NEW p \in Profiles, NEW t \in Tabs,
         NEW start \in Sent, NEW sets \in Nat \ {0}, Orderly(s)
  PROVE  Orderly(LandLane(s, p, t, start, sets))
<1> DEFINE tb == s.tab[p][t]
           queue == LandSets(tb.queue, Lane(tb.queue, start) + 1, start, sets)
           moved == [tb EXCEPT !.queue = queue]
           landed == LaneLanded(tb, start, sets)
           r == [s EXCEPT !.tab[p][t] = landed]
<1>1. tb \in Tab /\ landed \in Tab /\ Halts(tb)
  BY SessionParts, LaneLandedType DEF Orderly
<1>2. landed = WithSets(moved, start, tb.queue)
  BY DEF LaneLanded
<1>3. queue \in Queue /\ queue.remaining = tb.queue.remaining
  <2>1. tb.queue \in Queue
    BY <1>1, TabParts
  <2>2. Lane(tb.queue, start) + 1 \in 1..Len(tb.queue.done) + 1
    <3> DEFINE lane == Lane(tb.queue, start)
               len == Len(tb.queue.done)
    <3>1. lane \in Nat /\ len \in Nat /\ lane <= len
      BY <2>1, LaneType, QueueParts
    <3> HIDE DEF lane, len
    <3>2. lane + 1 \in 1..len + 1
      BY <3>1
    <3> QED
      BY <3>2 DEF lane, len
  <2> DEFINE at == Lane(tb.queue, start) + 1
  <2> HIDE DEF tb
  <2>3. LandSets(tb.queue, at, start, sets) \in Queue
        /\ LandSets(tb.queue, at, start, sets).remaining = tb.queue.remaining
    <3>1. at \in 1..Len(tb.queue.done) + 1
      BY <2>2
    <3> HIDE DEF at
    <3> QED
      BY <2>1, <3>1, LandSetsType, LandSetsParts
  <2> QED
    BY <2>3 DEF at
<1>4. moved \in Tab /\ moved.state = tb.state /\ moved.lent = tb.lent /\ moved.queue = queue
  <2> HIDE DEF tb, queue
  <2> QED
    BY <1>1, <1>3 DEF Tab
<1> HIDE DEF moved, queue, landed, tb
<1>5. Halts(landed) /\ landed.queue = queue
  <2>1. landed.state = moved.state /\ landed.lent = moved.lent /\ landed.queue = moved.queue
    BY <1>2, <1>4, WithSetsRest
  <2> QED
    BY <1>1, <1>3, <1>4, <2>1, SameHalts
<1>6. r \in Session /\ Orderly(r)
  BY <1>1, <1>5, TabReplaced, TabOrderly
<1>7. ~AtOnce(queue) => Halts(HandBack(landed))
  BY <1>1, <1>5, HandBackOrderly
<1>8. /\ AtOnce(queue) => LandLane(s, p, t, start, sets) = StartWaiting(r, p, t, 1)
      /\ ~AtOnce(queue) =>
           LandLane(s, p, t, start, sets) = [s EXCEPT !.tab[p][t] = HandBack(landed)]
  BY DEF LandLane, LaneLanded, queue, landed, tb
<1> HIDE DEF r
<1> QED
  BY <1>6, <1>7, <1>8, StartWaitingOrderly, TabOrderly

\* The next statement of a queue goes out on a run that begins: a tab on
\* nothing has not been cancelled.
LEMMA SendNextOrderly ==
  ASSUME NEW s \in Session, NEW p \in Profiles, NEW t \in Tabs, Orderly(s)
  PROVE  Orderly(SendNextStatement(s, p, t))
<1> DEFINE tb == s.tab[p][t]
           next == tb.queue.remaining[1]
           popped == Popped(tb)
           r == [s EXCEPT !.tab[p][t] = popped]
<1>1. CASE tb.queue.remaining = <<>>
  BY <1>1 DEF SendNextStatement
<1>2. CASE tb.queue.remaining # <<>>
  <2>1. tb \in Tab /\ Halts(tb)
    BY SessionParts DEF Orderly
  <2>2. next \in Sent /\ popped \in Tab /\ popped.lent = tb.lent
    BY <1>2, <2>1, PoppedType
  <2>3. popped.state = tb.state
    <3> DEFINE grid == IF tb.queue.spare # <<>> THEN Last(tb.queue.spare) ELSE tb.grid
               showing == IF tb.queue.showing >= Len(tb.queue.done)
                          THEN Len(tb.queue.done) + 1 ELSE tb.queue.showing
               queue == [tb.queue EXCEPT !.remaining = Tail(@), !.awaiting = TRUE,
                           !.showing = showing, !.spare = SparesLeft(tb.queue)]
    <3>1. popped = [tb EXCEPT !.grid = grid, !.queue = queue]
      BY DEF Popped
    <3> HIDE DEF popped, tb, grid, queue
    <3> QED
      BY <2>1, <3>1 DEF Tab
  <2>4. SendNextStatement(s, p, t) = ExecuteAndThen(r, p, t, Ask(next, next))
    BY <1>2 DEF SendNextStatement, Popped
  <2>5. Ask(next, next) \in Job /\ Follows(Ask(next, next))
    BY <2>2, AskType, AskFollows
  <2> HIDE DEF popped, next
  <2>6. Halts(popped)
    BY <1>2, <2>1, <2>2, <2>3 DEF Halts
  <2>7. r \in Session /\ Orderly(r)
    BY <2>2, <2>6, TabReplaced, TabOrderly
  <2> HIDE DEF r
  <2> QED
    BY <2>4, <2>5, <2>7, ExecuteAndThenOrderly
<1> QED
  BY <1>1, <1>2

LEMMA AdvanceQueueOrderly ==
  ASSUME NEW s \in Session, NEW p \in Profiles, NEW t \in Tabs,
         NEW sets \in Nat \ {0}, Orderly(s)
  PROVE  Orderly(AdvanceQueue(s, p, t, sets))
<1> DEFINE tb == s.tab[p][t]
           landed == Advanced(tb, sets)
           next == QueueLanded(s, p, t, sets)
<1>1. tb \in Tab /\ landed \in Tab /\ Halts(tb)
  BY SessionParts, AdvancedType DEF Orderly
<1>2. Halts(landed)
  <2> HIDE DEF tb
  <2>1. /\ landed.state = tb.state /\ landed.lent = tb.lent
        /\ landed.queue.remaining = tb.queue.remaining
    BY <1>1, AdvancedParts
  <2> HIDE DEF landed
  <2> QED
    BY <1>1, <2>1, SameHalts
<1>3. next \in Session /\ Orderly(next)
  <2>1. next = [s EXCEPT !.tab[p][t] = landed]
    BY DEF QueueLanded
  <2> HIDE DEF landed, next
  <2> QED
    BY <1>1, <1>2, <2>1, TabReplaced, TabOrderly
<1>4. AdvanceQueue(s, p, t, sets) \in
        {s, next, SendNextStatement(next, p, t), [next EXCEPT !.failure[p] = {t}],
         [next EXCEPT !.tab[p][t].queue = NoQueue]}
  BY AdvanceQueueForms
<1> HIDE DEF next
<1>5. NoQueue.remaining = <<>>
  BY DEF NoQueue
<1>6. /\ Orderly(SendNextStatement(next, p, t))
      /\ Orderly([next EXCEPT !.failure[p] = {t}])
      /\ Orderly([next EXCEPT !.tab[p][t].queue = NoQueue])
  BY <1>3, <1>5, SendNextOrderly, FailureOrderly, QueueOrderly
<1> QED
  BY <1>3, <1>4, <1>6

LEMMA DropRestOrderly ==
  ASSUME NEW s \in Session, NEW p \in Profiles, NEW t \in Tabs, Orderly(s)
  PROVE  Orderly(DropRestOfQueue(s, p, t))
<1> DEFINE tb == s.tab[p][t]
           asked == s.failure[p] \ {t}
           r == [s EXCEPT !.failure[p] = asked]
           done == Kept(tb.queue.done, DOMAIN tb.queue.done \ WaitingIn(tb.queue.done))
           queue == [tb.queue EXCEPT !.remaining = <<>>, !.done = done]
<1>1. asked \in SUBSET Tabs /\ tb.queue \in Queue
  BY SessionParts, TabParts DEF Session
<1>2. r \in Session /\ Orderly(r)
  <2> HIDE DEF asked
  <2>1. r \in Session
    BY <1>1 DEF Session
  <2> QED
    BY <2>1, FailureOrderly
<1>3. queue.remaining = <<>>
  <2> HIDE DEF done, tb
  <2> QED
    BY <1>1 DEF Queue
<1>4. DropRestOfQueue(s, p, t) = [r EXCEPT !.tab[p][t].queue = queue]
  <2>1. DropRestOfQueue(s, p, t) = [s EXCEPT !.failure[p] = asked, !.tab[p][t].queue = queue]
    BY DEF DropRestOfQueue
  <2> HIDE DEF asked, queue
  <2> QED
    BY <2>1 DEF Session
<1> HIDE DEF r, queue
<1> QED
  BY <1>2, <1>3, <1>4, QueueOrderly

LEMMA ReleaseQueueOrderly ==
  ASSUME NEW s \in Session, NEW p \in Profiles, NEW t \in Tabs, Orderly(s)
  PROVE  Orderly(ReleaseQueue(s, p, t))
<1> DEFINE tb == s.tab[p][t]
           let == [tb.queue EXCEPT !.awaiting = FALSE]
           queue == Clamped(let)
<1>1. tb.queue \in Queue
  BY SessionParts, TabParts
<1>2. let \in Queue /\ let.remaining = tb.queue.remaining
  <2> HIDE DEF tb
  <2> QED
    BY <1>1 DEF Queue
<1>3. queue.remaining = tb.queue.remaining
  <2> HIDE DEF let
  <2> QED
    BY <1>2, ClampedRest
<1>4. ReleaseQueue(s, p, t) \in {s, [s EXCEPT !.tab[p][t].queue = queue]}
  BY DEF ReleaseQueue
<1> HIDE DEF queue
<1> QED
  BY <1>3, <1>4, QueueOrderly

LEMMA StopQueueOnOrderly ==
  ASSUME NEW s \in Session, NEW p \in Profiles, NEW t \in Tabs, Orderly(s)
  PROVE  Orderly(StopQueueOn(s, p, t))
BY DropRestOfQueueType, DropRestOrderly, ReleaseQueueOrderly DEF StopQueueOn

-----------------------------------------------------------------------------
(* Landing, in order.                                                      *)

\* A lost session ends the queue of the tab, before anything is written.
LEMMA HeardOrderly ==
  ASSUME NEW s \in Session, NEW task \in Task, NEW outcome, Orderly(s)
  PROVE  LET heard == Heard(s, task, outcome)
             p == task.profile
             t == task.tab
         IN  /\ Orderly(heard) /\ heard.tasks = s.tasks /\ heard.prompt = s.prompt
             /\ heard.tab[p][t].state = s.tab[p][t].state
             /\ heard.tab[p][t].queue.remaining \in {s.tab[p][t].queue.remaining, <<>>}
<1> DEFINE p == task.profile
           t == task.tab
           queue == [s.tab[p][t].queue EXCEPT !.remaining = <<>>]
           stopped == [s.tab[p][t] EXCEPT !.queue = queue]
           lost == [s EXCEPT !.conn[p] = "Failed", !.tab[p][t].queue.remaining = <<>>]
<1>1. p \in Profiles /\ t \in Tabs
  BY DEF Task
<1>2. s.tab[p][t] \in Tab /\ s.tab[p][t].queue \in Queue /\ Halts(s.tab[p][t])
  <2> HIDE DEF p, t
  <2> QED
    BY <1>1, SessionParts, TabParts DEF Orderly
<1>3. queue.remaining = <<>>
  <2> HIDE DEF p, t
  <2> QED
    BY <1>2 DEF Queue
<1>4. /\ stopped.queue = queue /\ stopped.state = s.tab[p][t].state
      /\ stopped.lent = s.tab[p][t].lent
  <2> HIDE DEF queue, p, t
  <2> QED
    BY <1>2 DEF Tab
<1>5. lost = [s EXCEPT !.conn[p] = "Failed", !.tab[p][t] = stopped]
  <2> HIDE DEF p, t
  <2> QED
    BY <1>1, <1>2 DEF Session, Tab
<1>6. /\ lost.tasks = s.tasks /\ lost.prompt = s.prompt
      /\ \A q \in Profiles, x \in Tabs :
           lost.tab[q][x] = IF q = p /\ x = t THEN stopped ELSE s.tab[q][x]
  <2> HIDE DEF lost, stopped, p, t
  <2> QED
    BY <1>1, <1>5 DEF Session, ConnStates
<1>7. Heard(s, task, outcome) \in {lost, s}
  BY DEF Heard
<1> HIDE DEF lost, stopped, queue, p, t
<1>8. Halts(stopped)
  BY <1>2, <1>3, <1>4, SameHalts
<1>9. \A q \in Profiles, x \in Tabs : Halts(lost.tab[q][x])
  BY <1>6, <1>8 DEF Orderly
<1>10. Orderly(lost)
  BY <1>6, <1>9, FewerOrderly
<1>11. LET heard == Heard(s, task, outcome)
       IN  /\ Orderly(heard) /\ heard.tasks = s.tasks /\ heard.prompt = s.prompt
           /\ heard.tab[p][t].state = s.tab[p][t].state
           /\ heard.tab[p][t].queue.remaining \in {s.tab[p][t].queue.remaining, <<>>}
  BY <1>1, <1>3, <1>4, <1>6, <1>7, <1>10
<1> QED
  BY <1>11 DEF p, t

\* A result written leaves the queue what it has to send.
LEMMA WrittenInOrderly ==
  ASSUME NEW s \in Session, NEW task \in Task, NEW outcome, Orderly(s),
         HasPlace(s.tab[task.profile][task.tab], task.lane, task.job.start)
  PROVE  LET r == WrittenIn(s, task, outcome)
             p == task.profile
             t == task.tab
         IN  /\ r \in Session /\ Orderly(r) /\ r.tasks = s.tasks /\ r.prompt = s.prompt
             /\ task.lane = NoRun => r.tab[p][t].state = Ended(KindIn(s, task, outcome))
             /\ r.tab[p][t].queue.remaining = s.tab[p][t].queue.remaining
<1> DEFINE p == task.profile
           t == task.tab
           tb == s.tab[p][t]
           kind == KindOf(tb, task, outcome)
           stated == WithStateAt(tb, task.lane, task.job.start, Ended(kind))
<1>1. p \in Profiles /\ t \in Tabs
  BY DEF Task
<1>2. tb \in Tab /\ tb.queue \in Queue /\ Halts(tb)
  <2> HIDE DEF p, t
  <2> QED
    BY <1>1, SessionParts, TabParts DEF Orderly
<1>3. PICK new \in Tab : WrittenIn(s, task, outcome) = [s EXCEPT !.tab[p][t] = new]
                         /\ Shows(stated, new)
  BY WrittenInRest
<1>4. kind = KindIn(s, task, outcome) /\ kind \in Kinds \ {"Idle", "Running"}
  BY KindEnds DEF KindIn
<1> HIDE DEF kind, tb
<1>5. /\ task.lane = NoRun => stated.state = Ended(kind)
      /\ task.lane # NoRun => stated.state = tb.state
      /\ stated.lent = tb.lent /\ stated.queue.remaining = tb.queue.remaining
  BY <1>2 DEF WithStateAt, Tab, Queue
<1>6. ~Cancelled(Ended(kind))
  BY <1>4, EndedIdle
<1> HIDE DEF stated
<1>7. Halts(new)
  BY <1>2, <1>3, <1>5, <1>6 DEF Halts, Shows
<1>8. tb = s.tab[p][t]
  BY DEF tb
<1> HIDE DEF p, t
<1> DEFINE r == [s EXCEPT !.tab[p][t] = new]
<1>9. r \in Session /\ Orderly(r) /\ r.tab[p][t] = new
  BY <1>1, <1>7, TabReplaced, TabOrderly
<1>10. r.tasks = s.tasks /\ r.prompt = s.prompt
  BY DEF Session
<1> HIDE DEF r
<1>11. WrittenIn(s, task, outcome) = r
  BY <1>3 DEF r
<1>12. LET w == WrittenIn(s, task, outcome)
       IN  /\ w \in Session /\ Orderly(w) /\ w.tasks = s.tasks /\ w.prompt = s.prompt
           /\ task.lane = NoRun => w.tab[p][t].state = Ended(KindIn(s, task, outcome))
           /\ w.tab[p][t].queue.remaining = s.tab[p][t].queue.remaining
  BY <1>3, <1>4, <1>5, <1>8, <1>9, <1>10, <1>11 DEF Shows
<1> QED
  BY <1>12 DEF p, t

\* A slot given back is on a result that is over.
LEMMA GiveBackHalts ==
  ASSUME NEW tb, {"lent", "state"} \subseteq DOMAIN tb, Halts(tb)
  PROVE  Halts(GiveBack(tb))
<1>1. CASE tb.lent = NoLoan
  BY <1>1 DEF GiveBack
<1>2. CASE tb.lent # NoLoan
  <2>1. PICK done : GiveBack(tb) = [tb EXCEPT !.lent = NoLoan, !.grid = tb.lent.grid,
                                              !.state = tb.lent.state, !.queue.done = done]
    BY <1>2 DEF GiveBack
  <2>2. GiveBack(tb).lent = NoLoan /\ GiveBack(tb).state = tb.lent.state
    BY <2>1
  <2>3. ~IsRunning(NoLoan.state)
    BY DEF NoLoan, Ended, IsRunning
  <2> QED
    BY <2>2, <2>3 DEF Halts, Cancelled
<1> QED
  BY <1>1, <1>2

LEMMA GiveBackOrderly ==
  ASSUME NEW s \in Session, NEW p \in Profiles, NEW t \in Tabs, Orderly(s)
  PROVE  Orderly([s EXCEPT !.tab[p][t] = GiveBack(@)])
<1> DEFINE tb == s.tab[p][t]
<1>1. {"lent", "state"} \subseteq DOMAIN tb /\ Halts(tb)
  BY SessionParts DEF Orderly, Tab
<1>2. [s EXCEPT !.tab[p][t] = GiveBack(@)] = [s EXCEPT !.tab[p][t] = GiveBack(tb)]
  OBVIOUS
<1> HIDE DEF tb
<1> QED
  BY <1>1, <1>2, GiveBackHalts, TabOrderly

LEMMA FollowUpOrderly ==
  ASSUME NEW s \in Session, NEW p \in Profiles, NEW t \in Tabs, NEW job \in Job,
         NEW succeeded \in BOOLEAN, Orderly(s)
  PROVE  Orderly(FollowUp(s, p, t, job, succeeded))
<1> DEFINE back == [s EXCEPT !.tab[p][t] = GiveBack(@)]
           following == [Ask(job.then, Batch) EXCEPT !.refresh = "Return"]
           again == ExecuteAndThen(s, p, t, following)
           over == [again EXCEPT !.tab[p][t] = GiveBack(@)]
           plain == ExecuteAndThen(s, p, t, Ask(job.then, Batch))
<1>1. Ask(job.then, Batch) \in Job /\ Follows(Ask(job.then, Batch))
  BY AskType, AskFollows DEF Job, Sent
<1>2. following \in Job /\ Follows(following)
  <2>1. following \in Job
    BY <1>1 DEF Job, Refreshes
  <2> QED
    BY <2>1, AskFollows
<1>3. Orderly(back) /\ Orderly(plain)
  BY <1>1, GiveBackOrderly, ExecuteAndThenOrderly
<1>4. again \in Session /\ Orderly(again)
  <2> HIDE DEF following
  <2> QED
    BY <1>2, ExecuteAndThenType, ExecuteAndThenOrderly
<1>5. Orderly(over)
  <2> HIDE DEF again
  <2> QED
    BY <1>4, GiveBackOrderly
<1>6. FollowUp(s, p, t, job, succeeded) \in {s, back, plain, again, over}
  <2>1. FollowUp(s, p, t, job, succeeded) =
          IF job.refresh = "None" THEN s
          ELSE IF job.refresh = "Return" THEN back
          ELSE IF ~succeeded THEN IF job.refresh = "Earlier" THEN back ELSE s
          ELSE IF front # p THEN back
          ELSE IF job.refresh = "Statement" THEN plain
          ELSE IF Busy(again, p, t) THEN again ELSE over
    BY Zenon DEF FollowUp
  <2> HIDE DEF back, plain, again, over
  <2> QED
    BY <2>1
<1> HIDE DEF back, plain, again, over
<1> QED
  BY <1>3, <1>4, <1>5, <1>6

\* What was issued to a connection that is gone comes back: nothing is sent,
\* and the tab is on the run it was on, or let go of.
LEMMA DropStaleRunOrderly ==
  ASSUME NEW s \in Session, NEW task \in Task, Orderly(s)
  PROVE  LET r == DropStaleRun(s, task)
         IN  Orderly(r) /\ r.tasks = s.tasks /\ r.prompt = s.prompt
<1> DEFINE p == task.profile
           t == task.tab
           tb == s.tab[p][t]
           pruned == IF task.lane # NoRun THEN PrunedOf(tb.queue, task.job.start) ELSE tb.queue
           idled == IdledOf(tb, pruned)
           r == DropStaleRun(s, task)
           fewer == [s EXCEPT !.tab[p][t].queue = pruned]
           back == [s EXCEPT !.tab[p][t] = GiveBack(idled)]
<1>1. p \in Profiles /\ t \in Tabs
  BY DEF Task
<1>2. tb \in Tab /\ tb.queue \in Queue /\ Halts(tb)
  <2> HIDE DEF p, t
  <2> QED
    BY <1>1, SessionParts, TabParts DEF Orderly
<1>3. r \in {s, fewer, back}
  BY Zenon DEF DropStaleRun, PrunedOf, IdledOf
<1>4. pruned.remaining = tb.queue.remaining
  <2> DEFINE kept == Kept(tb.queue.done, DOMAIN tb.queue.done \ (EntriesOf(tb.queue.done, task.job.start)
                                          \cup WaitingIn(tb.queue.done)))
             left == [tb.queue EXCEPT !.done = kept]
  <2>1. kept \in Seq(Finished)
    <3> HIDE DEF tb
    <3> QED
      BY <1>2, KeptType
  <2>2. left \in Queue /\ left.remaining = tb.queue.remaining
    <3> HIDE DEF kept, tb
    <3> QED
      BY <1>2, <2>1 DEF Queue
  <2>3. PrunedOf(tb.queue, task.job.start) = Clamped(left)
    BY DEF PrunedOf
  <2> HIDE DEF left, tb
  <2>4. PrunedOf(tb.queue, task.job.start).remaining = tb.queue.remaining
    BY <2>2, <2>3, ClampedRest
  <2> QED
    BY <2>4
<1>5. /\ idled.lent = tb.lent /\ ~Cancelled(idled.state)
      /\ {"lent", "state"} \subseteq DOMAIN idled
  <2> HIDE DEF tb, pruned
  <2> DEFINE state == IF IsRunning(tb.state) THEN Ended("Idle") ELSE tb.state
  <2>1. ~Cancelled(state)
    BY DEF Cancelled, Ended, IsRunning
  <2>2. /\ idled.lent = tb.lent /\ idled.state = state
        /\ {"lent", "state"} \subseteq DOMAIN idled
    BY <1>2 DEF IdledOf, Tab
  <2> QED
    BY <2>1, <2>2
<1> HIDE DEF pruned, idled, tb
<1>6. Halts(GiveBack(idled))
  BY <1>2, <1>5, GiveBackHalts DEF Halts
<1>7. tb = s.tab[p][t]
  BY DEF tb
<1> HIDE DEF p, t
<1>8. Orderly(fewer) /\ Orderly(back)
  BY <1>1, <1>4, <1>6, <1>7, QueueOrderly, TabOrderly
<1>9. /\ fewer.tasks = s.tasks /\ fewer.prompt = s.prompt
      /\ back.tasks = s.tasks /\ back.prompt = s.prompt
  BY DEF Session
<1> HIDE DEF r, fewer, back
<1>10. Orderly(r) /\ r.tasks = s.tasks /\ r.prompt = s.prompt
  BY <1>3, <1>8, <1>9
<1> QED
  BY <1>10 DEF r

LEMMA LandLiveOrderly ==
  ASSUME NEW s \in Session, NEW task \in Task, NEW outcome, NEW sets \in Nat \ {0},
         front \in Profiles \cup {NoProfile}, Orderly(s)
  PROVE  Orderly(LandLive(s, task, outcome, sets))
<1> DEFINE p == task.profile
           t == task.tab
           heard == Heard(s, task, outcome)
           landed == WrittenIn(heard, task, outcome)
           kind == KindIn(heard, task, outcome)
           rest == IF kind = "Complete" THEN sets ELSE 1
<1>1. /\ p \in Profiles /\ t \in Tabs /\ task.job \in Job /\ task.job.start \in Sent
      /\ heard \in Session /\ rest \in Nat \ {0}
  BY HeardType DEF Task, Job
<1>2. Orderly(heard)
  BY HeardOrderly
<1>3. CASE ~HasPlace(heard.tab[p][t], task.lane, task.job.start)
  <2>1. LandLive(s, task, outcome, sets) = heard
    BY <1>3, LandLiveForms
  <2> QED
    BY <1>2, <2>1
<1>4. CASE HasPlace(heard.tab[p][t], task.lane, task.job.start)
  <2>1. landed \in Session /\ Orderly(landed)
    <3> HIDE DEF heard
    <3> QED
      BY <1>1, <1>2, <1>4, WrittenInOrderly
  <2>2. /\ Orderly(LandLane(landed, p, t, task.job.start, rest))
        /\ front # NoProfile => Orderly(AdvanceQueue(landed, front, t, rest))
    <3> HIDE DEF landed, rest, p, t
    <3> QED
      BY <1>1, <2>1, LandLaneOrderly, AdvanceQueueOrderly
  <2>3. Orderly(FollowUp(landed, p, t, task.job, kind # "Failed"))
    <3> HIDE DEF landed, kind, p, t
    <3> QED
      BY <1>1, <2>1, FollowUpOrderly
  <2>4. LandLive(s, task, outcome, sets) =
          IF task.lane # NoRun THEN LandLane(landed, p, t, task.job.start, rest)
          ELSE IF task.job.refresh = "None"
               THEN IF front = NoProfile THEN landed ELSE AdvanceQueue(landed, front, t, rest)
          ELSE FollowUp(landed, p, t, task.job, kind # "Failed")
    BY <1>4, LandLiveForms
  <2> HIDE DEF landed, rest, kind, p, t
  <2> QED
    BY <2>1, <2>2, <2>3, <2>4
<1> QED
  BY <1>3, <1>4

LEMMA LandOrderKept ==
  ASSUME TypeOK, TypeOK', OrderKept, NEW task \in tasks, NEW outcome,
         NEW sets \in 1..MaxSets, Land(task, outcome, sets)
  PROVE  OrderKept'
<1> DEFINE s0 == [Now EXCEPT !.tasks = @ \ {task}]
           s == IF task.live THEN LandLive(s0, task, outcome, sets)
                             ELSE DropStaleRun(s0, task)
<1>1. task \in Task /\ sets \in Nat \ {0} /\ front \in Profiles \cup {NoProfile}
  BY SetsAssumption DEF TypeOK
<1>2. /\ s0 \in Session /\ s0.tab = Now.tab /\ s0.prompt = Now.prompt
      /\ s0.tasks = Now.tasks \ {task}
  BY NowType DEF Session, Now
<1>3. Becomes(s)
  BY DEF Land
<1> HIDE DEF s0
<1>4. Orderly(s0)
  BY <1>2, FewerOrderly DEF OrderKept, Orderly
<1>5. Orderly(s)
  BY <1>1, <1>2, <1>4, LandLiveOrderly, DropStaleRunOrderly
<1> HIDE DEF s
<1> QED
  BY <1>3, <1>5, BecomesOrderly

LEMMA PourOrderKept ==
  ASSUME TypeOK, TypeOK', OrderKept, NEW task \in tasks, Pour(task)
  PROVE  OrderKept'
<1> DEFINE p == task.profile
           t == task.tab
           rows == [Now.tab[p][t].rows EXCEPT ![task.grid] =
                      RowsOf(task.job.start, 1, "arriving")]
           tb == [Now.tab[p][t] EXCEPT !.rows = rows]
<1>1. p \in Profiles /\ t \in Tabs
  BY DEF TypeOK, Task
<1>2. Now.tab[p][t] \in Tab /\ Halts(Now.tab[p][t])
  <2> HIDE DEF p, t
  <2> QED
    BY <1>1, NowType, SessionParts DEF OrderKept, Orderly
<1>3. Halts(tb)
  <2> DEFINE old == Now.tab[p][t]
  <2>1. old \in Tab /\ Halts(old)
    BY <1>2
  <2> HIDE DEF rows, old
  <2>2. [old EXCEPT !.rows = rows].lent = old.lent /\ [old EXCEPT !.rows = rows].state = old.state
        /\ [old EXCEPT !.rows = rows].queue = old.queue
    BY <2>1 DEF Tab
  <2> DEFINE new == [old EXCEPT !.rows = rows]
  <2> HIDE DEF new
  <2>3. Halts(new)
    BY <2>1, <2>2 DEF Halts, new
  <2> QED
    BY <2>3 DEF new, old
<1>4. Becomes([Now EXCEPT !.tab[p][t] = tb])
  BY DEF Pour, Now
<1> HIDE DEF tb, p, t
<1> QED
  BY <1>1, <1>3, <1>4, NowType, TabOrderly, BecomesOrderly DEF OrderKept

-----------------------------------------------------------------------------
(* What the user does, in order.                                           *)

\* A tab that runs nothing has nothing to take back.
LEMMA FreeHalts ==
  ASSUME TypeOK, OrderKept, NEW p \in Profiles, NEW t \in Tabs
  PROVE  /\ Halts(tab[p][t]) /\ ~IsRunning(tab[p][t].lent.state)
         /\ ~Busy(Now, p, t) => ~Cancelled(tab[p][t].state)
<1>1. Now.tab[p][t] = tab[p][t]
  BY DEF Now
<1> QED
  BY <1>1 DEF OrderKept, Orderly, Halts, Busy, Cancelled

LEMMA RunQueuedOrderKept ==
  ASSUME TypeOK, TypeOK', OrderKept, NEW p \in Profiles, NEW t \in Tabs,
         NEW queue \in Queue, NEW at \in Sent, ~Busy(Now, p, t),
         Becomes(RunQueued(Now, p, t, queue, at))
  PROVE  OrderKept'
<1> DEFINE s == [Now EXCEPT !.tab[p][t].queue = queue]
           tb == [Now.tab[p][t] EXCEPT !.queue = queue]
<1>1. Now.tab[p][t] = tab[p][t] /\ tab[p][t] \in Tab
  BY DEF Now, TypeOK
<1>2. tb.state = tab[p][t].state /\ tb.lent = tab[p][t].lent
  BY <1>1 DEF Tab
<1>3. s = [Now EXCEPT !.tab[p][t] = tb]
  BY DEF Now
<1> HIDE DEF tb
<1>4. Halts(tb)
  BY <1>2, FreeHalts, IdleHalts
<1>5. s \in Session /\ Orderly(s)
  BY <1>3, <1>4, NowType, QueueReplaced, TabOrderly DEF OrderKept
<1>6. Ask(at, at) \in Job /\ Follows(Ask(at, at))
  BY AskType, AskFollows
<1>7. RunQueued(Now, p, t, queue, at) = ExecuteAndThen(s, p, t, Ask(at, at))
  BY DEF RunQueued
<1> HIDE DEF s
<1> QED
  BY <1>5, <1>6, <1>7, ExecuteAndThenOrderly, BecomesOrderly

LEMMA StartsLanesOrderKept ==
  ASSUME TypeOK, TypeOK', OrderKept, NEW p \in Profiles, NEW t \in Tabs, StartsLanes(p, t)
  PROVE  OrderKept'
<1>1. PICK tb \in Tab, n \in Nat :
        /\ tb.lent = tab[p][t].lent /\ tb.state = Running(FreshRun(Now))
        /\ Becomes(StartWaiting([Now EXCEPT !.tab[p][t] = tb], p, t, n))
  BY DEF StartsLanes
<1> DEFINE s == [Now EXCEPT !.tab[p][t] = tb]
<1>2. ~Cancelled(tb.state)
  BY <1>1 DEF Cancelled, Running
<1>3. Halts(tb)
  BY <1>1, <1>2, FreeHalts, IdleHalts
<1>4. s \in Session /\ Orderly(s)
  BY <1>3, NowType, TabReplaced, TabOrderly DEF OrderKept
<1> HIDE DEF s
<1>5. Orderly(StartWaiting(s, p, t, n))
  BY <1>4, StartWaitingOrderly
<1> QED
  BY <1>1, <1>5, BecomesOrderly DEF s

LEMMA ExecutesOrderKept ==
  ASSUME TypeOK, TypeOK', OrderKept, NEW p \in Profiles, NEW t \in Tabs, NEW job \in Job,
         Follows(job),
         Becomes(ExecuteUnchecked(Now, p, t, job)) \/ Becomes(ExecuteAndThen(Now, p, t, job))
  PROVE  OrderKept'
BY NowType, ExecuteUncheckedOrderly, ExecuteAndThenOrderly, BecomesOrderly DEF OrderKept

\* A run that is cancelled is the queue's last.
LEMMA CancelQueryOrderKept ==
  ASSUME TypeOK, TypeOK', OrderKept, NEW p \in Profiles, NEW t \in Tabs, CancelQuery(p, t)
  PROVE  OrderKept'
<1> DEFINE tb == tab[p][t]
           at == tb.queue.showing
           one == [tb EXCEPT !.queue.done[at].state = Marked(tb.queue.done[at].state)]
           done == [i \in DOMAIN tb.queue.done |->
                      [tb.queue.done[i] EXCEPT !.state = Marked(tb.queue.done[i].state)]]
           queue == [tb.queue EXCEPT !.done = done]
           both == [tb EXCEPT !.state = Marked(tb.state), !.queue = queue]
<1>1. /\ tb \in Tab /\ tb.queue \in Queue /\ DOMAIN tb.queue.done \in SUBSET Nat
      /\ \A i \in DOMAIN tb.queue.done :
           tb.queue.done[i] \in Finished /\ tb.queue.done[i].state \in State
  <2>1. tb \in Tab /\ tb.queue \in Queue
    BY TabParts DEF TypeOK
  <2> HIDE DEF tb
  <2>2. DOMAIN tb.queue.done \in SUBSET Nat /\ \A i \in DOMAIN tb.queue.done : tb.queue.done[i] \in Finished
    BY <2>1, QueueParts
  <2> QED
    BY <2>1, <2>2 DEF Finished
<1>2. Now \in Session /\ Orderly(Now)
  BY NowType DEF OrderKept
<1>3. Halts(tb) /\ ~IsRunning(tb.lent.state)
  BY FreeHalts
<1>4. CASE OnEntry(tb) /\ IsRunning(tb.queue.done[at].state)
  <2>1. Becomes([Now EXCEPT !.tab[p][t] = one])
    BY <1>4 DEF CancelQuery, Now, Marked
  <2> HIDE DEF at
  <2>2. one.lent = tb.lent /\ one.state = tb.state /\ one.queue.remaining = tb.queue.remaining
    <3>1. DOMAIN tb.queue = {"remaining", "done", "showing", "awaiting", "spare"}
          /\ "queue" \in DOMAIN tb /\ "lent" \in DOMAIN tb /\ "state" \in DOMAIN tb
      BY <1>1 DEF Tab, Queue
    <3> HIDE DEF tb
    <3> QED
      BY <3>1
  <2> HIDE DEF one, tb
  <2>3. Halts(one)
    BY <1>3, <2>2 DEF Halts
  <2>4. Orderly([Now EXCEPT !.tab[p][t] = one])
    BY <1>2, <2>3, TabOrderly
  <2> QED
    BY <2>1, <2>4, BecomesOrderly
<1>5. CASE ~(OnEntry(tb) /\ IsRunning(tb.queue.done[at].state))
  <2> DEFINE s == [Now EXCEPT !.tab[p][t] = both]
             kept == Kept(done, DOMAIN done \ WaitingIn(done))
             dropped == [queue EXCEPT !.remaining = <<>>, !.done = kept]
             last == [both EXCEPT !.queue = dropped]
             asked == Now.failure[p] \ {t}
  <2>1. Becomes(DropRestOfQueue(s, p, t))
    BY <1>5 DEF CancelQuery, Now, Marked
  <2> HIDE DEF at
  <2>2. /\ DOMAIN queue = {"remaining", "done", "showing", "awaiting", "spare"}
        /\ queue.done = done
        /\ both.lent = tb.lent /\ both.queue = queue
        /\ {"lent", "state", "queue"} \subseteq DOMAIN both
    <3> HIDE DEF done
    <3>1. /\ DOMAIN tb.queue = {"remaining", "done", "showing", "awaiting", "spare"}
          /\ {"lent", "state", "queue"} \subseteq DOMAIN tb
      BY <1>1 DEF Tab, Queue
    <3> HIDE DEF tb
    <3> QED
      BY <3>1
  <2> HIDE DEF tb, done, queue, both
  <2>3. last.lent = tb.lent /\ last.queue.remaining = <<>>
    <3> HIDE DEF kept
    <3> QED
      BY <2>2
  <2> HIDE DEF kept
  <2>4. s.tab[p][t] = both /\ s.failure = Now.failure
    <3> DEFINE r == Now
    <3>1. r \in Session
      BY <1>2
    <3> HIDE DEF r
    <3>2. [r EXCEPT !.tab[p][t] = both].tab[p][t] = both
      BY <3>1 DEF Session
    <3>3. [r EXCEPT !.tab[p][t] = both].failure = r.failure
      BY <3>1 DEF Session
    <3> QED
      BY <3>2, <3>3 DEF r
  <2>5. DropRestOfQueue(s, p, t) =
          [s EXCEPT !.failure[p] = asked, !.tab[p][t].queue = dropped]
    BY <2>2, <2>4 DEF DropRestOfQueue, kept
  <2> HIDE DEF dropped
  <2>6. [s EXCEPT !.failure[p] = asked, !.tab[p][t].queue = dropped] =
          [[Now EXCEPT !.failure[p] = asked] EXCEPT !.tab[p][t] = last]
    BY <1>2, <2>4 DEF Session
  <2> HIDE DEF last, s
  <2>7. Halts(last)
    BY <1>3, <2>3 DEF Halts
  <2> DEFINE r == [Now EXCEPT !.failure[p] = asked]
  <2>8. r \in Session /\ Orderly(r)
    <3>1. asked \in SUBSET Tabs
      BY <1>2 DEF Session
    <3> HIDE DEF asked
    <3>2. r \in Session
      BY <1>2, <3>1 DEF Session
    <3> QED
      BY <1>2, <3>2, FailureOrderly
  <2> HIDE DEF r, asked
  <2>9. Orderly([r EXCEPT !.tab[p][t] = last])
    BY <2>7, <2>8, TabOrderly
  <2> QED
    BY <2>1, <2>5, <2>6, <2>9, BecomesOrderly DEF r
<1> QED
  BY <1>4, <1>5

LEMMA CommandsOrderKept ==
  ASSUME TypeOK, TypeOK', OrderKept, NEW p \in Profiles, NEW t \in Tabs, Commands(p, t)
  PROVE  OrderKept'
<1>1. ASSUME NEW start \in Statements, RunQuery(p, t, start)
      PROVE  OrderKept'
  <2>1. ~Busy(Now, p, t)
    BY <1>1, Zenon DEF RunQuery
  <2> QED
    BY <1>1, <2>1, RunQueryStep, RunQueuedOrderKept
<1>2. ASSUME NEW start \in Statements, ExplainQuery(p, t, start)
      PROVE  OrderKept'
  <2> DEFINE job == [Ask(start, start) EXCEPT !.explain = TRUE]
  <2>1. job \in Job /\ Follows(job)
    <3>1. Ask(start, start) \in Job
      BY AskType DEF Sent
    <3> QED
      BY <3>1, AskFollows DEF Job
  <2>2. Becomes(ExecuteUnchecked(Now, p, t, job)) \/ Becomes(ExecuteAndThen(Now, p, t, job))
    BY <1>2 DEF ExplainQuery
  <2> HIDE DEF job
  <2> QED
    BY <2>1, <2>2, ExecutesOrderKept
<1>3. ASSUME NEW selection \in Selections, RunStatements(p, t, selection)
      PROVE  OrderKept'
  <2>1. ~Busy(Now, p, t)
    BY <1>3, Zenon DEF RunStatements
  <2> QED
    BY <1>3, <2>1, RunStatementsStep, RunQueuedOrderKept
<1>4. ASSUME NEW selection \in Selections, RunAtOnce(p, t, selection)
      PROVE  OrderKept'
  BY <1>4, RunAtOnceStep, StartsLanesOrderKept
<1>5. CASE RefuseRun(p, t)
  <2>1. ~Cancelled(Ended("Failed"))
    BY EndedIdle DEF Kinds
  <2> QED
    BY <1>5, <2>1, NowType, StateOrderly, BecomesOrderly DEF RefuseRun, OrderKept
<1>6. CASE ReorderQuery(p, t)
  <2>1. tab[p][t].last \in Sent /\ Batch \in Sent
    BY TabParts DEF TypeOK, Sent
  <2>2. Ask(tab[p][t].last, Batch) \in Job
    BY <2>1, AskType
  <2> QED
    BY <1>6, <2>2, AskFollows, ExecutesOrderKept DEF ReorderQuery
<1>7. CASE RerunQueued(p, t)
  BY <1>7, RerunQueuedStep, StartsLanesOrderKept
<1>8. CASE ApplyEdits(p, t)
  <2> DEFINE refresh == ApplyRefresh(tab[p][t])
             job == [start |-> Batch, from |-> Batch, explain |-> FALSE,
                     refresh |-> refresh.refresh, index |-> refresh.index,
                     then |-> refresh.then]
  <2>1. job \in Job
    <3>1. tab[p][t] \in Tab
      BY DEF TypeOK
    <3> QED
      BY <3>1, ApplyRefreshType DEF Job, Refreshes, Sent
  <2>2. Becomes(ExecuteAndThen(Now, p, t, job)) /\ Follows(job)
    BY <1>8 DEF ApplyEdits, Follows
  <2> HIDE DEF job
  <2> QED
    BY <2>1, <2>2, ExecutesOrderKept
<1>9. CASE CancelQuery(p, t)
  BY <1>9, CancelQueryOrderKept
<1>10. ASSUME NEW index, ShowQueuedResult(p, t, index)
       PROVE  OrderKept'
  <2> DEFINE queue == [Now.tab[p][t].queue EXCEPT !.showing = index]
  <2>1. [Now EXCEPT !.tab[p][t].queue.showing = index]
          = [Now EXCEPT !.tab[p][t].queue = queue]
    BY NowType DEF Now
  <2>2. Becomes([Now EXCEPT !.tab[p][t].queue = queue])
    BY <1>10, <2>1 DEF ShowQueuedResult
  <2>3. queue.remaining = Now.tab[p][t].queue.remaining
    <3>1. Now.tab[p][t].queue \in Queue
      BY NowType, SessionParts, TabParts
    <3> QED
      BY <3>1 DEF Queue
  <2> HIDE DEF queue
  <2> QED
    BY <2>2, <2>3, NowType, QueueOrderly, BecomesOrderly DEF OrderKept
<1>11. CASE ActivateTab(p, t)
  <2> DEFINE r == Now'
  <2>1. /\ r.tasks = Now.tasks /\ r.tab = Now.tab
        /\ \A q \in Profiles : r.prompt[q] \subseteq Now.prompt[q]
    BY <1>11 DEF ActivateTab, Now, TypeOK
  <2> HIDE DEF r
  <2>2. Orderly(r)
    BY <2>1, FewerOrderly DEF OrderKept, Orderly
  <2> QED
    BY <2>2 DEF OrderKept, r
<1> QED
  BY <1>1, <1>2, <1>3, <1>4, <1>5, <1>6, <1>7, <1>8, <1>9, <1>10, <1>11 DEF Commands

LEMMA AnswersOrderKept ==
  ASSUME TypeOK, TypeOK', OrderKept, NEW p \in Profiles, Answers(p)
  PROVE  OrderKept'
<1> DEFINE unparked == [Now EXCEPT !.prompt[p] = {}]
           unasked == [Now EXCEPT !.failure[p] = {}]
<1>1. unparked \in Session /\ Orderly(unparked)
  <2>1. unparked \in Session
    BY NowType DEF Session
  <2> QED
    BY <2>1, NowType, PromptOrderly DEF OrderKept
<1>2. unasked \in Session /\ Orderly(unasked)
  <2>1. unasked \in Session
    BY NowType DEF Session
  <2> QED
    BY <2>1, NowType, FailureOrderly DEF OrderKept
<1>3. CASE ApprovePendingRun(p)
  <2>1. PICK parked \in prompt[p] :
          Becomes(ExecuteUnchecked(unparked, p, parked.tab, parked.job))
    BY <1>3 DEF ApprovePendingRun
  <2>2. parked.tab \in Tabs /\ parked.job \in Job /\ Follows(parked.job)
    <3>1. parked.tab \in Tabs /\ parked.job \in Job
      BY DEF TypeOK, Parked
    <3>2. Now.prompt = prompt
      BY DEF Now
    <3> QED
      BY <3>1, <3>2 DEF OrderKept, Orderly, AllFollow
  <2> HIDE DEF unparked
  <2> QED
    BY <1>1, <2>1, <2>2, ExecuteUncheckedOrderly, BecomesOrderly
<1>4. CASE CancelPendingRun(p)
  <2>1. PICK parked \in prompt[p] : Becomes(StopQueueOn(unparked, p, parked.tab))
    BY <1>4 DEF CancelPendingRun
  <2>2. parked.tab \in Tabs
    BY DEF TypeOK, Parked
  <2> HIDE DEF unparked
  <2> QED
    BY <1>1, <2>1, <2>2, StopQueueOnOrderly, BecomesOrderly
<1>5. CASE StopQueue(p)
  <2>1. PICK t \in failure[p] :
          Becomes([Now EXCEPT !.failure[p] = {}, !.tab[p][t].queue.remaining = <<>>])
    BY <1>5 DEF StopQueue
  <2>2. t \in Tabs
    BY DEF TypeOK
  <2> DEFINE queue == [unasked.tab[p][t].queue EXCEPT !.remaining = <<>>]
             s == [unasked EXCEPT !.tab[p][t].queue = queue]
  <2>3. [Now EXCEPT !.failure[p] = {}, !.tab[p][t].queue.remaining = <<>>] = s
    BY NowType, <2>2 DEF Now
  <2>4. queue.remaining = <<>>
    <3> HIDE DEF unasked
    <3>1. unasked.tab[p][t].queue \in Queue
      BY <1>1, <1>2, <2>2, SessionParts, TabParts
    <3> QED
      BY <3>1 DEF Queue
  <2>5. Orderly(s)
    <3> HIDE DEF unasked, queue
    <3> QED
      BY <1>2, <2>2, <2>4, QueueOrderly
  <2> HIDE DEF s
  <2> QED
    BY <2>1, <2>3, <2>5, BecomesOrderly
<1>6. CASE ContinueQueue(p)
  <2>1. PICK t \in failure[p] : Becomes(SendNextStatement(unasked, p, t))
    BY <1>6 DEF ContinueQueue
  <2>2. t \in Tabs
    BY DEF TypeOK
  <2> HIDE DEF unasked
  <2> QED
    BY <1>2, <2>1, <2>2, SendNextOrderly, BecomesOrderly
<1> QED
  BY <1>3, <1>4, <1>5, <1>6 DEF Answers

-----------------------------------------------------------------------------
(* Connections, in order.                                                  *)

\* What is issued to a generation that is gone is what it was issued for.
LEMMA RetiredOrderly ==
  ASSUME NEW s, NEW r, NEW p, s.tasks \in SUBSET Task, Orderly(s),
         r.tasks = Retired(p, s.tasks),
         \A q \in Profiles : r.prompt[q] \subseteq s.prompt[q],
         \A q \in Profiles, t \in Tabs : Halts(r.tab[q][t])
  PROVE  Orderly(r)
<1>1. ASSUME NEW u \in r.tasks
      PROVE  Follows(u.job)
  <2>1. PICK v \in s.tasks :
          u = IF v.profile = p THEN [v EXCEPT !.live = FALSE, !.grid = NoGrid] ELSE v
    BY DEF Retired
  <2>2. u.job = v.job
    BY <2>1 DEF Task
  <2> QED
    BY <2>2 DEF Orderly, AllFollow
<1> QED
  BY <1>1 DEF Orderly, AllFollow

LEMMA BeginConnectOrderly ==
  ASSUME NEW s \in Session, NEW p, Orderly(s)
  PROVE  Orderly(BeginConnect(s, p))
<1>1. /\ BeginConnect(s, p).tab = s.tab /\ BeginConnect(s, p).prompt = s.prompt
      /\ BeginConnect(s, p).tasks = Retired(p, s.tasks) /\ s.tasks \in SUBSET Task
  BY DEF BeginConnect, Session
<1> QED
  BY <1>1, RetiredOrderly DEF Orderly

LEMMA QueuesStoppedHalts ==
  ASSUME TypeOK, OrderKept, NEW p \in Profiles, NEW t \in Tabs
  PROVE  Halts(QueuesStopped(p)[t])
<1>1. Orderly(StopQueueOn(Now, p, t))
  BY NowType, StopQueueOnOrderly DEF OrderKept
<1> QED
  BY <1>1 DEF QueuesStopped, Orderly

LEMMA LeftHalts ==
  ASSUME TypeOK, NEW p \in Profiles, NEW t \in Tabs
  PROVE  Halts(Left(p, t))
<1>1. Left(p, t).queue = NoQueue /\ Left(p, t).lent = NoLoan
  BY LeftParts
<1>2. NoQueue.remaining = <<>> /\ ~IsRunning(NoLoan.state)
  BY DEF NoQueue, NoLoan, IsRunning, Ended
<1> QED
  BY <1>1, <1>2 DEF Halts

LEMMA ConnectionsOrderKept ==
  ASSUME TypeOK, TypeOK', OrderKept, NEW p \in Profiles, Connections(p)
  PROVE  OrderKept'
<1>1. Now \in Session /\ Orderly(Now) /\ Now.tasks \in SUBSET Task
  BY NowType DEF OrderKept, Session
<1>2. CASE Activate(p)
  <2> DEFINE s == [Now EXCEPT !.prompt[p] = {}]
  <2>1. s \in Session /\ Orderly(s)
    <3>1. s \in Session
      BY <1>1 DEF Session
    <3> QED
      BY <1>1, <3>1, PromptOrderly
  <2>2. Becomes(s) \/ Becomes(BeginConnect(s, p))
    BY <1>2 DEF Activate
  <2> HIDE DEF s
  <2> QED
    BY <2>1, <2>2, BeginConnectOrderly, BecomesOrderly
<1>3. CASE Reconnect(p)
  BY <1>1, <1>3, BeginConnectOrderly, BecomesOrderly DEF Reconnect
<1>4. CASE Disconnect(p)
  <2> DEFINE s == [Now EXCEPT !.conn[p] = "Idle", !.tab[p] = QueuesStopped(p),
                              !.prompt[p] = {}, !.failure[p] = {},
                              !.tasks = Retired(p, @)]
  <2>1. /\ s.tasks = Retired(p, Now.tasks)
        /\ \A q \in Profiles : s.tab[q] = IF q = p THEN QueuesStopped(p) ELSE Now.tab[q]
        /\ \A q \in Profiles : s.prompt[q] \subseteq Now.prompt[q]
    BY <1>1 DEF Session
  <2>2. Orderly(s)
    <3> HIDE DEF s
    <3>1. \A q \in Profiles, t \in Tabs : Halts(s.tab[q][t])
      BY <1>1, <2>1, QueuesStoppedHalts DEF Orderly
    <3> QED
      BY <1>1, <2>1, <3>1, RetiredOrderly
  <2>3. Becomes(s)
    BY <1>4 DEF Disconnect
  <2> HIDE DEF s
  <2> QED
    BY <2>2, <2>3, BecomesOrderly
<1>5. ASSUME NEW opened \in BOOLEAN, ConnectLands(p, opened)
      PROVE  OrderKept'
  <2> DEFINE r == Now'
  <2>1. r.tasks = Now.tasks /\ r.tab = Now.tab /\ r.prompt = Now.prompt
    BY <1>5 DEF ConnectLands, Now
  <2> HIDE DEF r
  <2>2. Orderly(r)
    BY <2>1, FewerOrderly DEF OrderKept, Orderly
  <2> QED
    BY <2>2 DEF OrderKept, r
<1>6. ASSUME NEW inSession \in BOOLEAN, SetDatabase(p, inSession)
      PROVE  OrderKept'
  <2> DEFINE tabs == [t \in Tabs |-> Left(p, t)]
             s == [Now EXCEPT !.tab[p] = tabs, !.prompt[p] = {}, !.failure[p] = {}]
             r == [s EXCEPT !.tasks = Retired(p, @)]
  <2>1. /\ s.tasks = Now.tasks
        /\ \A q \in Profiles : s.tab[q] = IF q = p THEN tabs ELSE Now.tab[q]
        /\ \A q \in Profiles : s.prompt[q] \subseteq Now.prompt[q]
    BY <1>1 DEF Session
  <2>2. s \in Session
    <3>1. tabs \in [Tabs -> Tab]
      BY <1>6, LeftType DEF SetDatabase
    <3> HIDE DEF tabs
    <3> QED
      BY <1>1, <3>1 DEF Session
  <2>3. Orderly(s)
    <3>1. \A t \in Tabs : Halts(tabs[t])
      BY LeftHalts
    <3> HIDE DEF s, tabs
    <3>2. \A q \in Profiles, t \in Tabs : Halts(s.tab[q][t])
      BY <1>1, <2>1, <3>1 DEF Orderly
    <3> QED
      BY <1>1, <2>1, <3>2, FewerOrderly
  <2>4. Orderly(r)
    <3>1. /\ r.tab = s.tab /\ r.tasks = Retired(p, s.tasks) /\ s.tasks \in SUBSET Task
          /\ r.prompt = s.prompt
      <4> HIDE DEF s
      <4> QED
        BY <2>2 DEF Session
    <3> HIDE DEF r, s
    <3> QED
      BY <2>3, <3>1, RetiredOrderly DEF Orderly
  <2>5. Becomes(r) \/ Becomes(BeginConnect(s, p))
    BY <1>6 DEF SetDatabase
  <2> HIDE DEF r, s
  <2> QED
    BY <2>2, <2>3, <2>4, <2>5, BeginConnectOrderly, BecomesOrderly
<1> QED
  BY <1>2, <1>3, <1>4, <1>5, <1>6 DEF Connections

LEMMA InitOrderKept == ASSUME Init PROVE OrderKept
<1>1. /\ Now.tasks = {} /\ \A p \in Profiles : Now.prompt[p] = {}
      /\ \A p \in Profiles, t \in Tabs :
           \E g \in Grids : Now.tab[p][t] = NewTab(g)
  BY DEF Init, Now
<1>2. ASSUME NEW g
      PROVE  Halts(NewTab(g))
  BY DEF NewTab, Halts, NoLoan, IsRunning, Cancelled, Ended
<1> DEFINE s == Now
<1> HIDE DEF s
<1>3. /\ s.tasks = {} /\ \A p \in Profiles : s.prompt[p] = {}
      /\ \A p \in Profiles, t \in Tabs : Halts(s.tab[p][t])
  BY <1>1, <1>2 DEF s
<1>4. Orderly(s)
  BY <1>3 DEF Orderly, AllFollow
<1> QED
  BY <1>4 DEF OrderKept, s

LEMMA NextOrderKept ==
  ASSUME TypeOK, TypeOK', OrderKept, [Next]_vars
  PROVE  OrderKept'
<1>1. ASSUME NEW p \in Profiles, NEW t \in Tabs, Commands(p, t)
      PROVE  OrderKept'
  BY <1>1, CommandsOrderKept
<1>2. ASSUME NEW p \in Profiles, Answers(p) \/ Connections(p)
      PROVE  OrderKept'
  BY <1>2, AnswersOrderKept, ConnectionsOrderKept
<1>3. ASSUME NEW task \in tasks, Pour(task)
      PROVE  OrderKept'
  BY <1>3, PourOrderKept
<1>4. ASSUME NEW task \in tasks, Lands(task)
      PROVE  OrderKept'
  BY <1>4, LandOrderKept DEF Lands
<1>5. CASE UNCHANGED vars
  <2>1. UNCHANGED Now
    BY <1>5 DEF vars, Now
  <2> QED
    BY <2>1 DEF OrderKept
<1> QED
  BY <1>1, <1>2, <1>3, <1>4, <1>5 DEF Next

-----------------------------------------------------------------------------
(* What is sent.  A step sends nothing of the buffer for a tab when all it *)
(* adds there is a statement the buffer did not supply: a lane of the      *)
(* queue that is run at once, or what follows up a batch.                  *)

Unsent(s, r, p, t) ==
  /\ s.tasks \subseteq r.tasks
  /\ r.prompt[p] \subseteq s.prompt[p]
  /\ \A u \in r.tasks \ s.tasks : u.profile = p /\ u.tab = t => u.job.from = Batch

LEMMA UnsentSame ==
  ASSUME NEW s, NEW r, NEW p, NEW t, r.tasks = s.tasks, r.prompt = s.prompt
  PROVE  Unsent(s, r, p, t)
BY DEF Unsent

LEMMA UnsentAfter ==
  ASSUME NEW s, NEW r, NEW v, NEW p, NEW t, Unsent(s, r, p, t), Unsent(r, v, p, t)
  PROVE  Unsent(s, v, p, t)
BY DEF Unsent

\* All that a statement asked for may add.
SendsAtMost(s, r, p, t, job) ==
  /\ s.tasks \subseteq r.tasks
  /\ \A u \in r.tasks \ s.tasks : u.profile = p /\ u.tab = t /\ u.job = job
  /\ \A q \in Profiles : r.prompt[q] # s.prompt[q] => q = p /\ job.start \in Gated
  /\ job.refresh # "Earlier" => r.tab[p][t].queue = s.tab[p][t].queue

LEMMA SendSends ==
  ASSUME NEW s \in Session, NEW p \in Profiles, NEW t \in Tabs, NEW job
  PROVE  SendsAtMost(s, Send(s, p, t, job), p, t, job)
<1> DEFINE run == FreshRun(s)
           tb == s.tab[p][t]
           lent == IF job.refresh = "Earlier" THEN Lend(tb, job.index) ELSE tb
           rows == IF job.explain THEN lent.rows
                                  ELSE [lent.rows EXCEPT ![lent.grid] = Empty]
           sent == [lent EXCEPT !.state = Running(run), !.ran = job.from, !.rows = rows]
           task == [id |-> run, profile |-> p, tab |-> t, live |-> TRUE,
                    lane |-> NoRun, job |-> job, grid |-> lent.grid]
           r == [s EXCEPT !.tab[p][t] = sent, !.tasks = @ \cup {task}]
<1>1. r = Send(s, p, t, job)
  BY DEF Send
<1>2. job.refresh # "Earlier" => sent.queue = tb.queue
  <2>1. tb \in Tab /\ (job.refresh # "Earlier" => lent = tb)
    BY SessionParts
  <2> HIDE DEF lent, tb, rows, run
  <2> QED
    BY <2>1 DEF Tab
<1>3. task.profile = p /\ task.tab = t /\ task.job = job
  OBVIOUS
<1> HIDE DEF sent, task
<1>4. r.tab[p][t] = sent /\ r.tasks = s.tasks \cup {task} /\ r.prompt = s.prompt
  BY DEF Session
<1> HIDE DEF r
<1>5. SendsAtMost(s, r, p, t, job)
  BY <1>2, <1>3, <1>4 DEF SendsAtMost, tb
<1> QED
  BY <1>1, <1>5

LEMMA SameSends ==
  ASSUME NEW s, NEW r, NEW p, NEW t, NEW job, r.tasks = s.tasks, r.prompt = s.prompt,
         r.tab[p][t].queue = s.tab[p][t].queue
  PROVE  SendsAtMost(s, r, p, t, job)
BY DEF SendsAtMost

LEMMA UncheckedSends ==
  ASSUME NEW s \in Session, NEW p \in Profiles, NEW t \in Tabs, NEW job
  PROVE  SendsAtMost(s, ExecuteUnchecked(s, p, t, job), p, t, job)
<1> DEFINE failed == [s EXCEPT !.tab[p][t].state = Ended("Failed")]
<1>1. ExecuteUnchecked(s, p, t, job) \in {s, failed, Send(s, p, t, job)}
  BY DEF ExecuteUnchecked
<1>2. SendsAtMost(s, failed, p, t, job)
  <2> DEFINE state == Ended("Failed")
             tb == [s.tab[p][t] EXCEPT !.state = state]
  <2> HIDE DEF state
  <2>1. tb.queue = s.tab[p][t].queue
    BY SessionParts DEF Tab
  <2>2. failed = [s EXCEPT !.tab[p][t] = tb]
    BY DEF Session, state
  <2> HIDE DEF tb
  <2>3. failed.tab[p][t] = tb /\ failed.tasks = s.tasks /\ failed.prompt = s.prompt
    BY <2>2 DEF Session
  <2> HIDE DEF failed
  <2> QED
    BY <2>1, <2>3, SameSends
<1>3. SendsAtMost(s, s, p, t, job)
  BY SameSends
<1> HIDE DEF failed
<1> QED
  BY <1>1, <1>2, <1>3, SendSends

LEMMA ExecutesSends ==
  ASSUME NEW s \in Session, NEW p \in Profiles, NEW t \in Tabs, NEW job
  PROVE  SendsAtMost(s, ExecuteAndThen(s, p, t, job), p, t, job)
<1> DEFINE all == {[tab |-> t, job |-> job]}
           parked == [s EXCEPT !.prompt[p] = all]
<1>1. CASE job.start \in Gated
  <2> HIDE DEF all
  <2>1. /\ parked.tab = s.tab /\ parked.tasks = s.tasks
        /\ \A q \in Profiles : q # p => parked.prompt[q] = s.prompt[q]
    BY DEF Session
  <2>2. ExecuteAndThen(s, p, t, job) = parked
    BY <1>1 DEF ExecuteAndThen, all
  <2> HIDE DEF parked
  <2> QED
    BY <1>1, <2>1, <2>2 DEF SendsAtMost
<1>2. CASE job.start \notin Gated
  BY <1>2, UncheckedSends DEF ExecuteAndThen
<1> QED
  BY <1>1, <1>2

LEMMA SendsNothing ==
  ASSUME NEW s, NEW r, NEW p, NEW t, NEW job, SendsAtMost(s, r, p, t, job),
         NEW q \in Profiles, NEW u,
         (job.from = Batch /\ job.start \notin Gated) \/ q # p
  PROVE  Unsent(s, r, q, u)
BY DEF SendsAtMost, Unsent

LEMMA TabUnsent ==
  ASSUME NEW s \in Session, NEW p, NEW t, NEW tb, NEW q, NEW u
  PROVE  Unsent(s, [s EXCEPT !.tab[p][t] = tb], q, u)
<1>1. /\ [s EXCEPT !.tab[p][t] = tb].tasks = s.tasks
      /\ [s EXCEPT !.tab[p][t] = tb].prompt = s.prompt
  BY DEF Session
<1> QED
  BY <1>1, UnsentSame

LEMMA StartWaitingUnsent ==
  ASSUME NEW s \in Session, NEW p, NEW t, NEW n, NEW q, NEW u
  PROVE  Unsent(s, StartWaiting(s, p, t, n), q, u)
<1>1. ASSUME NEW at
      PROVE  Unsent(s, StartLanes(s, p, t, at), q, u)
  <2> DEFINE tb == s.tab[p][t]
             run == FreshRuns(s, Cardinality(at))
             runOf(i) == run[Cardinality({j \in at : j <= i})]
             grids == {tb.queue.done[i].grid : i \in at}
             lane(i) == [id |-> runOf(i), profile |-> p, tab |-> t, live |-> TRUE,
                         lane |-> tb.state.run,
                         job |-> Ask(tb.queue.done[i].start, Batch),
                         grid |-> tb.queue.done[i].grid]
             done == [i \in DOMAIN tb.queue.done |->
                        IF i \in at
                        THEN [tb.queue.done[i] EXCEPT !.state = Running(runOf(i))]
                        ELSE tb.queue.done[i]]
             rows == [g \in Grids |-> IF g \in grids THEN Empty ELSE tb.rows[g]]
             started == [tb EXCEPT !.queue.done = done, !.rows = rows]
             more == {lane(i) : i \in at}
  <2>1. StartLanes(s, p, t, at) = [s EXCEPT !.tab[p][t] = started, !.tasks = @ \cup more]
    BY DEF StartLanes
  <2>2. \A task \in more : task.job.from = Batch
    <3>1. \A i \in at : lane(i).job.from = Batch
      <4> HIDE DEF runOf, tb
      <4> QED
        BY DEF Ask
    <3> HIDE DEF lane
    <3> QED
      BY <3>1
  <2> HIDE DEF started, more
  <2> DEFINE r == [s EXCEPT !.tab[p][t] = started, !.tasks = @ \cup more]
  <2>3. r.tasks = s.tasks \cup more /\ r.prompt = s.prompt
    BY DEF Session
  <2> HIDE DEF r
  <2>4. Unsent(s, r, q, u)
    BY <2>2, <2>3 DEF Unsent
  <2> QED
    BY <2>1, <2>4 DEF r
<1>2. Unsent(s, FailLanes(s, p, t), q, u)
  BY TabUnsent DEF FailLanes
<1>3. Unsent(s, s, q, u)
  BY UnsentSame
<1> QED
  BY <1>1, <1>2, <1>3 DEF StartWaiting

LEMMA LandLaneUnsent ==
  ASSUME NEW s \in Session, NEW p \in Profiles, NEW t \in Tabs, NEW start \in Sent,
         NEW sets \in Nat \ {0}, NEW q, NEW u
  PROVE  Unsent(s, LandLane(s, p, t, start, sets), q, u)
<1> DEFINE tb == s.tab[p][t]
           queue == LandSets(tb.queue, Lane(tb.queue, start) + 1, start, sets)
           landed == LaneLanded(tb, start, sets)
           r == [s EXCEPT !.tab[p][t] = landed]
<1>1. landed \in Tab
  BY SessionParts, LaneLandedType
<1>2. LandLane(s, p, t, start, sets) =
        IF AtOnce(queue) THEN StartWaiting(r, p, t, 1)
                         ELSE [s EXCEPT !.tab[p][t] = HandBack(landed)]
  BY DEF LandLane, LaneLanded
<1> HIDE DEF landed, queue
<1>3. r \in Session /\ Unsent(s, r, q, u)
  BY <1>1, TabReplaced, TabUnsent
<1>4. Unsent(s, [s EXCEPT !.tab[p][t] = HandBack(landed)], q, u)
  BY TabUnsent
<1> HIDE DEF r
<1>5. Unsent(s, StartWaiting(r, p, t, 1), q, u)
  BY <1>3, StartWaitingUnsent, UnsentAfter
<1> QED
  BY <1>2, <1>4, <1>5

\* What follows up a batch was let through the gate with it.
LEMMA FollowUpUnsent ==
  ASSUME NEW s \in Session, NEW p \in Profiles, NEW t \in Tabs, NEW job \in Job,
         NEW succeeded \in BOOLEAN, Follows(job), NEW q \in Profiles, NEW u
  PROVE  Unsent(s, FollowUp(s, p, t, job, succeeded), q, u)
<1> DEFINE back == [s EXCEPT !.tab[p][t] = GiveBack(@)]
           following == [Ask(job.then, Batch) EXCEPT !.refresh = "Return"]
           again == ExecuteAndThen(s, p, t, following)
           over == [again EXCEPT !.tab[p][t] = GiveBack(@)]
           plain == ExecuteAndThen(s, p, t, Ask(job.then, Batch))
           gated == job.then \in Gated
<1>1. /\ Ask(job.then, Batch).from = Batch /\ Ask(job.then, Batch).start = job.then
      /\ following.from = Batch /\ following.start = job.then
  BY DEF Ask
<1>2. following \in Job
  <2>1. Ask(job.then, Batch) \in Job
    BY AskType DEF Job, Sent
  <2> QED
    BY <2>1 DEF Job, Refreshes
<1>3. Unsent(s, s, q, u) /\ Unsent(s, back, q, u)
  BY UnsentSame, TabUnsent
<1>4. ~gated => Unsent(s, plain, q, u)
  BY <1>1, ExecutesSends, SendsNothing
<1>5. ~gated => Unsent(s, again, q, u) /\ Unsent(s, over, q, u)
  <2> HIDE DEF following
  <2>1. again \in Session
    BY <1>2, ExecuteAndThenType
  <2>2. ~gated => Unsent(s, again, q, u)
    BY <1>1, ExecutesSends, SendsNothing
  <2> HIDE DEF again
  <2>3. Unsent(again, over, q, u)
    BY <2>1, TabUnsent
  <2> QED
    BY <2>2, <2>3, UnsentAfter
<1>6. /\ FollowUp(s, p, t, job, succeeded) \in {s, back, plain, again, over}
      /\ job.refresh \notin {"Statement", "Earlier"} =>
           FollowUp(s, p, t, job, succeeded) \in {s, back}
  <2>1. FollowUp(s, p, t, job, succeeded) =
          IF job.refresh = "None" THEN s
          ELSE IF job.refresh = "Return" THEN back
          ELSE IF ~succeeded THEN IF job.refresh = "Earlier" THEN back ELSE s
          ELSE IF front # p THEN back
          ELSE IF job.refresh = "Statement" THEN plain
          ELSE IF Busy(again, p, t) THEN again ELSE over
    BY Zenon DEF FollowUp
  <2>2. job.refresh \in {"None", "Return", "Statement", "Earlier"}
    BY DEF Job, Refreshes
  <2> HIDE DEF back, plain, again, over
  <2> QED
    BY <2>1, <2>2
<1>7. job.refresh \in {"Statement", "Earlier"} => ~gated
  BY DEF Follows
<1> HIDE DEF back, plain, again, over, gated
<1> QED
  BY <1>3, <1>4, <1>5, <1>6, <1>7

LEMMA SendNextSends ==
  ASSUME NEW s \in Session, NEW p \in Profiles, NEW t \in Tabs
  PROVE  LET r == SendNextStatement(s, p, t)
         IN  /\ s.tasks \subseteq r.tasks
             /\ \A q \in Profiles, u \in Tabs : q # p => Unsent(s, r, q, u)
             /\ s.tab[p][t].queue.remaining = <<>> => r = s
             /\ r.tab[p][t].queue.done = s.tab[p][t].queue.done
<1> DEFINE tb == s.tab[p][t]
           next == tb.queue.remaining[1]
           popped == Popped(tb)
           r == [s EXCEPT !.tab[p][t] = popped]
           sent == SendNextStatement(s, p, t)
<1>1. CASE tb.queue.remaining = <<>>
  <2>1. sent = s
    BY <1>1 DEF SendNextStatement
  <2>2. \A q \in Profiles, u \in Tabs : Unsent(s, s, q, u)
    BY UnsentSame
  <2> QED
    BY <1>1, <2>1, <2>2
<1>2. CASE tb.queue.remaining # <<>>
  <2>1. tb \in Tab
    BY SessionParts
  <2>2. next \in Sent /\ popped \in Tab
    BY <1>2, <2>1, PoppedType
  <2>3. popped.queue.done = tb.queue.done
    <3> DEFINE grid == IF tb.queue.spare # <<>> THEN Last(tb.queue.spare) ELSE tb.grid
               showing == IF tb.queue.showing >= Len(tb.queue.done)
                          THEN Len(tb.queue.done) + 1 ELSE tb.queue.showing
               left == SparesLeft(tb.queue)
               queue == [tb.queue EXCEPT !.remaining = Tail(@), !.awaiting = TRUE,
                           !.showing = showing, !.spare = left]
    <3>1. popped = [tb EXCEPT !.grid = grid, !.queue = queue]
      BY DEF Popped
    <3>2. queue.done = tb.queue.done
      <4> HIDE DEF showing, left
      <4>1. tb.queue \in Queue
        BY <2>1, TabParts
      <4> HIDE DEF tb
      <4> QED
        BY <4>1 DEF Queue
    <3> HIDE DEF popped, tb, grid, queue
    <3> QED
      BY <2>1, <3>1, <3>2 DEF Tab
  <2> DEFINE job == Ask(next, next)
  <2>4. sent = ExecuteAndThen(r, p, t, job)
    BY <1>2 DEF SendNextStatement, Popped
  <2>5. job.refresh # "Earlier"
    BY DEF Ask
  <2> HIDE DEF popped, job
  <2>6. r \in Session /\ r.tab[p][t] = popped /\ \A q, u : Unsent(s, r, q, u)
    <3>1. r \in Session
      BY <2>2, TabReplaced
    <3>2. r.tab[p][t] = popped
      BY DEF Session
    <3>3. \A q, u : Unsent(s, r, q, u)
      BY TabUnsent
    <3> QED
      BY <3>1, <3>2, <3>3
  <2> HIDE DEF r
  <2>7. SendsAtMost(r, sent, p, t, job)
    BY <2>4, <2>6, ExecutesSends
  <2> HIDE DEF sent
  <2>8. sent.tab[p][t].queue.done = tb.queue.done /\ s.tasks \subseteq sent.tasks
    <3>1. s.tasks \subseteq r.tasks
      BY <2>6 DEF Unsent
    <3> QED
      BY <2>3, <2>5, <2>6, <2>7, <3>1 DEF SendsAtMost
  <2>9. ASSUME NEW q \in Profiles, NEW u, q # p
        PROVE  Unsent(s, sent, q, u)
    <3>1. Unsent(r, sent, q, u)
      BY <2>7, <2>9, SendsNothing
    <3> QED
      BY <2>6, <3>1, UnsentAfter
  <2> QED
    BY <1>2, <2>8, <2>9 DEF sent
<1> QED
  BY <1>1, <1>2

\* The last result of a queue is an error: it was the one to land.
LastFailed(done) == done # <<>> /\ Last(done).state.kind = "Failed"

\* What is last once a statement has landed, and its sets behind it.
LEMMA LastLanded ==
  ASSUME NEW tb \in Tab, NEW sets \in Nat \ {0}, tb.state.kind # "Failed"
  PROVE  ~LastFailed(Advanced(tb, sets).queue.done)
<1> DEFINE entry == [start |-> tb.ran, set |-> 1, state |-> tb.state, grid |-> tb.grid]
           done == Append(tb.queue.done, entry)
           all == Advanced(tb, sets).queue.done
           n == Len(done)
           k == Len(all)
<1>1. /\ all \in Seq(Finished) /\ done \in Seq(Finished)
      /\ \E f : Widens(done, all, tb.ran, f)
  BY AdvancedParts
<1>2. done[n] = entry /\ n \in DOMAIN done /\ n \in Nat /\ DOMAIN done = 1..n
  <2>1. tb.queue.done \in Seq(Finished) /\ entry \in Finished
    BY TabParts, QueueParts DEF Finished
  <2> HIDE DEF entry
  <2>2. n = Len(tb.queue.done) + 1 /\ done[Len(tb.queue.done) + 1] = entry
        /\ Len(tb.queue.done) \in Nat
    BY <2>1, AppendProperties, LenProperties
  <2>3. DOMAIN done = 1..n /\ n \in Nat
    BY <1>1, LenProperties
  <2> HIDE DEF n, done
  <2> QED
    BY <2>2, <2>3
<1>3. entry.state = tb.state
  OBVIOUS
<1>4. k \in Nat /\ DOMAIN all = 1..k
  BY <1>1, LenProperties
<1> HIDE DEF entry, done, all, n
<1>5. PICK f : Widens(done, all, tb.ran, f)
  BY <1>1
<1>6. f[n] \in 1..k
  BY <1>2, <1>4, <1>5 DEF Widens
<1>7. k \in DOMAIN all
  BY <1>4, <1>6
<1>8. all[k].state.kind # "Failed"
  <2>1. CASE \E i \in DOMAIN done : f[i] = k
    <3>1. PICK i \in DOMAIN done : f[i] = k
      BY <2>1
    <3>2. f[i] <= f[n]
      BY <1>2, <3>1, <1>5 DEF Widens
    <3>3. f[n] = k
      BY <1>4, <1>6, <3>1, <3>2
    <3>4. all[f[n]] = done[n]
      BY <1>2, <1>5 DEF Widens
    <3> QED
      BY <1>2, <1>3, <3>3, <3>4
  <2>2. CASE ~\E i \in DOMAIN done : f[i] = k
    BY <1>5, <1>7, <2>2 DEF Widens, Ended
  <2> QED
    BY <2>1, <2>2
<1>9. Last(all) = all[k]
  BY DEF Last, k
<1> QED
  BY <1>8, <1>9 DEF LastFailed, all

\* The next of a queue is sent for the profile in front alone, and only after
\* a result that is not an error.
LEMMA AdvanceQueueSends ==
  ASSUME NEW s \in Session, NEW p \in Profiles, NEW t \in Tabs,
         NEW sets \in Nat \ {0}
  PROVE  LET r == AdvanceQueue(s, p, t, sets)
         IN  /\ s.tasks \subseteq r.tasks
             /\ \A q \in Profiles, u \in Tabs : q # p => Unsent(s, r, q, u)
             /\ s.tab[p][t].queue.remaining = <<>> => Unsent(s, r, p, t)
             /\ LastFailed(r.tab[p][t].queue.done) => Unsent(s, r, p, t)
<1> DEFINE tb == s.tab[p][t]
           following == tb.queue.showing > Len(tb.queue.done)
           entry == [start |-> tb.ran, set |-> 1, state |-> tb.state, grid |-> tb.grid]
           pushed == [tb.queue EXCEPT !.awaiting = FALSE, !.done = Append(@, entry)]
           queue == LandSets(pushed, Len(pushed.done) + 1, tb.ran, sets)
           moved == [queue EXCEPT !.showing = IF following THEN Len(queue.done) ELSE @]
           landed == Advanced(tb, sets)
           next == QueueLanded(s, p, t, sets)
           step == NextStep(tb.state.kind = "Failed", moved.remaining)
           sent == SendNextStatement(next, p, t)
           asked == [next EXCEPT !.failure[p] = {t}]
           gone == [next EXCEPT !.tab[p][t].queue = NoQueue]
           r == AdvanceQueue(s, p, t, sets)
<1>1. step \in {"Finished", "Ask", "Next"}
      /\ (step = "Next" => tb.state.kind # "Failed")
  BY DEF NextStep
<1>2. r = IF ~Awaits(tb.queue) THEN s
          ELSE CASE step = "Next" -> sent
                 [] step = "Ask" -> asked
                 [] step = "Finished" -> IF Len(moved.done) < 2 THEN gone ELSE next
  BY Zenon DEF AdvanceQueue, Advanced, QueueLanded
<1>3. tb \in Tab /\ landed \in Tab /\ landed.queue.remaining = tb.queue.remaining
  <2>1. tb \in Tab
    BY SessionParts
  <2> HIDE DEF tb
  <2> QED
    BY <2>1, AdvancedType, AdvancedParts
<1>4. next = [s EXCEPT !.tab[p][t] = landed]
  BY DEF QueueLanded
<1> HIDE DEF step, sent, asked, gone, landed, next, r
<1>5. r \in {s, next, asked, gone} \/ (r = sent /\ tb.state.kind # "Failed")
  BY <1>1, <1>2
<1>6. /\ next \in Session /\ next.tab[p][t] = landed
      /\ next.tasks = s.tasks /\ next.prompt = s.prompt
  <2> DEFINE v == [s EXCEPT !.tab[p][t] = landed]
  <2>1. v \in Session
    BY <1>3, TabReplaced
  <2>2. v.tab[p][t] = landed /\ v.tasks = s.tasks /\ v.prompt = s.prompt
    BY DEF Session
  <2> HIDE DEF v
  <2> QED
    BY <1>4, <2>1, <2>2 DEF v
<1>7. /\ asked.tasks = s.tasks /\ asked.prompt = s.prompt
      /\ gone.tasks = s.tasks /\ gone.prompt = s.prompt
  BY <1>6 DEF asked, gone, Session
<1>8. /\ next.tasks \subseteq sent.tasks
      /\ \A q \in Profiles, u \in Tabs : q # p => Unsent(next, sent, q, u)
      /\ next.tab[p][t].queue.remaining = <<>> => sent = next
      /\ sent.tab[p][t].queue.done = next.tab[p][t].queue.done
  BY <1>6, SendNextSends DEF sent
<1>9. CASE r \in {s, next, asked, gone}
  <2>1. \A q, u : Unsent(s, r, q, u)
    BY <1>6, <1>7, <1>9, UnsentSame
  <2>2. s.tasks \subseteq r.tasks
    BY <1>6, <1>7, <1>9
  <2> QED
    BY <2>1, <2>2 DEF r
<1>10. CASE r = sent /\ tb.state.kind # "Failed"
  <2>1. ~LastFailed(landed.queue.done)
    BY <1>3, <1>10, LastLanded DEF landed
  <2>2. ~LastFailed(r.tab[p][t].queue.done)
    BY <1>6, <1>8, <1>10, <2>1
  <2>3. \A q, u : Unsent(s, next, q, u)
    BY <1>6, UnsentSame
  <2>4. \A q \in Profiles, u \in Tabs : q # p => Unsent(s, r, q, u)
    BY <1>8, <1>10, <2>3, UnsentAfter
  <2>5. tb.queue.remaining = <<>> => Unsent(s, r, p, t)
    BY <1>3, <1>6, <1>8, <1>10, <2>3
  <2>6. s.tasks \subseteq r.tasks
    BY <1>6, <1>8, <1>10
  <2> QED
    BY <2>2, <2>4, <2>5, <2>6 DEF r, tb
<1> QED
  BY <1>5, <1>9, <1>10

\* A landing sends nothing of the buffer for its tab, or the queue had more to
\* send and its last result is not an error.
LEMMA LandLiveSends ==
  ASSUME NEW s \in Session, NEW task \in Task, NEW outcome, NEW sets \in Nat \ {0},
         front \in Profiles \cup {NoProfile}, Orderly(s), Follows(task.job)
  PROVE  LET r == LandLive(s, task, outcome, sets)
             p == task.profile
             t == task.tab
         IN  /\ s.tasks \subseteq r.tasks
             /\ \/ Unsent(s, r, p, t)
                \/ /\ task.lane = NoRun /\ s.tab[p][t].queue.remaining # <<>>
                   /\ ~LastFailed(r.tab[p][t].queue.done)
<1> DEFINE p == task.profile
           t == task.tab
           heard == Heard(s, task, outcome)
           landed == WrittenIn(heard, task, outcome)
           kind == KindIn(heard, task, outcome)
           rest == IF kind = "Complete" THEN sets ELSE 1
           r == LandLive(s, task, outcome, sets)
<1>1. /\ p \in Profiles /\ t \in Tabs /\ task.job \in Job /\ task.job.start \in Sent
      /\ heard \in Session /\ rest \in Nat \ {0}
  BY HeardType DEF Task, Job
<1>2. /\ Orderly(heard) /\ heard.tasks = s.tasks /\ heard.prompt = s.prompt
      /\ heard.tab[p][t].queue.remaining \in {s.tab[p][t].queue.remaining, <<>>}
  BY HeardOrderly
<1>3. CASE ~HasPlace(heard.tab[p][t], task.lane, task.job.start)
  <2>1. r = heard
    BY <1>3, LandLiveForms
  <2> HIDE DEF heard, p, t, r
  <2>2. Unsent(s, r, p, t)
    BY <1>2, <2>1, UnsentSame
  <2> QED
    BY <2>2 DEF r, p, t, Unsent
<1>4. CASE HasPlace(heard.tab[p][t], task.lane, task.job.start)
  <2>1. /\ landed \in Session /\ landed.tasks = heard.tasks /\ landed.prompt = heard.prompt
        /\ landed.tab[p][t].queue.remaining = heard.tab[p][t].queue.remaining
    <3> DEFINE all == heard
    <3>1. /\ all \in Session /\ Orderly(all)
          /\ HasPlace(all.tab[task.profile][task.tab], task.lane, task.job.start)
      BY <1>1, <1>2, <1>4
    <3> HIDE DEF all
    <3>2. /\ WrittenIn(all, task, outcome) \in Session
          /\ WrittenIn(all, task, outcome).tasks = all.tasks
          /\ WrittenIn(all, task, outcome).prompt = all.prompt
          /\ WrittenIn(all, task, outcome).tab[task.profile][task.tab].queue.remaining
               = all.tab[task.profile][task.tab].queue.remaining
      BY <3>1, WrittenInOrderly
    <3> HIDE DEF heard
    <3> QED
      BY <3>2 DEF all
  <2>2. r = IF task.lane # NoRun THEN LandLane(landed, p, t, task.job.start, rest)
            ELSE IF task.job.refresh = "None"
                 THEN IF front = NoProfile THEN landed ELSE AdvanceQueue(landed, front, t, rest)
            ELSE FollowUp(landed, p, t, task.job, kind # "Failed")
    BY <1>4, LandLiveForms
  <2> HIDE DEF landed, heard, rest, kind, p, t, r
  <2>4. Unsent(s, landed, p, t)
    BY <1>2, <2>1, UnsentSame
  <2>5. CASE task.lane # NoRun \/ task.job.refresh # "None" \/ front = NoProfile
    <3>1. Unsent(landed, LandLane(landed, p, t, task.job.start, rest), p, t)
      BY <1>1, <2>1, LandLaneUnsent
    <3> DEFINE succeeded == kind # "Failed"
    <3>2. succeeded \in BOOLEAN
      OBVIOUS
    <3> HIDE DEF succeeded
    <3>3. Unsent(landed, FollowUp(landed, p, t, task.job, succeeded), p, t)
      BY <1>1, <2>1, <3>2, FollowUpUnsent
    <3>4. \/ r = landed \/ r = LandLane(landed, p, t, task.job.start, rest)
          \/ r = FollowUp(landed, p, t, task.job, succeeded)
      BY <2>2, <2>5 DEF succeeded
    <3>5. Unsent(s, r, p, t)
      BY <2>4, <3>1, <3>3, <3>4, UnsentAfter
    <3> QED
      BY <3>5 DEF r, p, t, Unsent
  <2>6. CASE task.lane = NoRun /\ task.job.refresh = "None" /\ front # NoProfile
    <3> DEFINE q == front
    <3>1. q \in Profiles /\ r = AdvanceQueue(landed, q, t, rest)
      BY <2>2, <2>6
    <3> HIDE DEF q
    <3>2. /\ landed.tasks \subseteq r.tasks
          /\ p # q => Unsent(landed, r, p, t)
          /\ landed.tab[q][t].queue.remaining = <<>> => Unsent(landed, r, q, t)
          /\ LastFailed(r.tab[q][t].queue.done) => Unsent(landed, r, q, t)
      BY <1>1, <2>1, <3>1, AdvanceQueueSends
    <3>3. \/ Unsent(landed, r, p, t)
          \/ /\ landed.tab[p][t].queue.remaining # <<>>
             /\ ~LastFailed(r.tab[p][t].queue.done)
      BY <3>2
    <3>4. \/ Unsent(s, r, p, t)
          \/ /\ s.tab[p][t].queue.remaining # <<>>
             /\ ~LastFailed(r.tab[p][t].queue.done)
      BY <1>2, <2>1, <2>4, <3>3, UnsentAfter
    <3>5. s.tasks \subseteq r.tasks
      BY <1>2, <2>1, <3>2
    <3> QED
      BY <2>6, <3>4, <3>5 DEF r, p, t
  <2> QED
    BY <2>5, <2>6
<1> QED
  BY <1>3, <1>4

-----------------------------------------------------------------------------
(* What is gone.  Only a landing takes a statement back: every other step  *)
(* leaves what is out, if only as what a connection left behind.           *)

TokensKept == \A u \in tasks : \E v \in tasks' : Token(v) = Token(u)

LEMMA StaysKept ==
  ASSUME NEW s, Becomes(s), tasks \subseteq s.tasks
  PROVE  TokensKept
BY DEF TokensKept, Becomes

LEMMA RetiredKept ==
  ASSUME NEW s, NEW p, Becomes(s), tasks \in SUBSET Task, s.tasks = Retired(p, tasks)
  PROVE  TokensKept
<1> DEFINE retired(task) == IF task.profile = p
                            THEN [task EXCEPT !.live = FALSE, !.grid = NoGrid] ELSE task
<1>1. \A task \in tasks :
        /\ retired(task).id = task.id /\ retired(task).profile = task.profile
        /\ retired(task).tab = task.tab /\ retired(task).lane = task.lane
        /\ retired(task).job = task.job
  BY DEF Task
<1>2. tasks' = {retired(task) : task \in tasks}
  BY DEF Retired, Becomes
<1> HIDE DEF retired
<1> QED
  BY <1>1, <1>2 DEF TokensKept, Token

LEMMA ExecutesKept ==
  ASSUME TypeOK, NEW s \in Session, s.tasks = tasks, NEW p \in Profiles, NEW t \in Tabs,
         NEW job,
         Becomes(ExecuteUnchecked(s, p, t, job)) \/ Becomes(ExecuteAndThen(s, p, t, job))
  PROVE  TokensKept
<1>1. /\ tasks \subseteq ExecuteUnchecked(s, p, t, job).tasks
      /\ tasks \subseteq ExecuteAndThen(s, p, t, job).tasks
  BY UncheckedSends, ExecutesSends DEF SendsAtMost
<1> QED
  BY <1>1, StaysKept

LEMMA CommandsKept ==
  ASSUME TypeOK, NEW p \in Profiles, NEW t \in Tabs, Commands(p, t)
  PROVE  TokensKept
<1> DEFINE now == Now
<1>1. now \in Session /\ now.tasks = tasks
  BY NowType DEF Now
<1>2. ASSUME NEW queue \in Queue, NEW at \in Sent, Becomes(RunQueued(Now, p, t, queue, at))
      PROVE  TokensKept
  <2> DEFINE s == [Now EXCEPT !.tab[p][t].queue = queue]
  <2>1. s \in Session /\ s.tasks = tasks
    BY NowType, QueueReplaced DEF Now
  <2>2. Becomes(ExecuteAndThen(s, p, t, Ask(at, at)))
    BY <1>2 DEF RunQueued
  <2> HIDE DEF s
  <2> QED
    BY <2>1, <2>2, ExecutesKept
<1>3. ASSUME NEW job, \/ Becomes(ExecuteUnchecked(Now, p, t, job))
                      \/ Becomes(ExecuteAndThen(Now, p, t, job))
      PROVE  TokensKept
  <2>1. Becomes(ExecuteUnchecked(now, p, t, job)) \/ Becomes(ExecuteAndThen(now, p, t, job))
    BY <1>3
  <2> HIDE DEF now
  <2> QED
    BY <1>1, <2>1, ExecutesKept
<1>4. ASSUME StartsLanes(p, t)
      PROVE  TokensKept
  <2>1. PICK tb \in Tab, n \in Nat :
          Becomes(StartWaiting([Now EXCEPT !.tab[p][t] = tb], p, t, n))
    BY <1>4 DEF StartsLanes
  <2> DEFINE s == [Now EXCEPT !.tab[p][t] = tb]
  <2>2. s \in Session /\ s.tasks = tasks
    BY NowType, TabReplaced DEF Now
  <2> HIDE DEF s
  <2>3. tasks \subseteq StartWaiting(s, p, t, n).tasks
    BY <2>2, StartWaitingKeeps DEF Keeps
  <2> DEFINE r == StartWaiting(s, p, t, n)
  <2>4. Becomes(r)
    BY <2>1 DEF s
  <2> HIDE DEF r
  <2> QED
    BY <2>3, <2>4, StaysKept DEF r
<1>5. ASSUME NEW start \in Statements, RunQuery(p, t, start) \/ ExplainQuery(p, t, start)
      PROVE  TokensKept
  <2>1. CASE RunQuery(p, t, start)
    BY <2>1, <1>2, RunQueryStep
  <2>2. CASE ExplainQuery(p, t, start)
    BY <2>2, <1>3 DEF ExplainQuery
  <2> QED
    BY <1>5, <2>1, <2>2
<1>6. ASSUME NEW selection \in Selections,
             RunStatements(p, t, selection) \/ RunAtOnce(p, t, selection)
      PROVE  TokensKept
  <2>1. CASE RunStatements(p, t, selection)
    BY <2>1, <1>2, RunStatementsStep
  <2>2. CASE RunAtOnce(p, t, selection)
    BY <2>2, <1>4, RunAtOnceStep
  <2> QED
    BY <1>6, <2>1, <2>2
<1>7. CASE RefuseRun(p, t)
  <2> DEFINE s == [Now EXCEPT !.tab[p][t].state = Ended("Failed")]
  <2>1. Becomes(s) /\ s.tasks = tasks
    BY <1>7 DEF RefuseRun, Now
  <2> HIDE DEF s
  <2> QED
    BY <2>1, StaysKept
<1>8. CASE ReorderQuery(p, t)
  BY <1>8, <1>3 DEF ReorderQuery
<1>9. CASE RerunQueued(p, t)
  BY <1>9, <1>4, RerunQueuedStep
<1>10. CASE ApplyEdits(p, t)
  <2>1. \E job : Becomes(ExecuteAndThen(Now, p, t, job))
    BY <1>10 DEF ApplyEdits
  <2> QED
    BY <2>1, <1>3
<1>11. CASE CancelQuery(p, t)
  <2>1. PICK tb \in Tab :
          \/ Becomes([Now EXCEPT !.tab[p][t] = tb])
          \/ Becomes(DropRestOfQueue([Now EXCEPT !.tab[p][t] = tb], p, t))
    BY <1>11, CancelQueryStep
  <2> DEFINE s == [Now EXCEPT !.tab[p][t] = tb]
  <2>2. s \in Session /\ s.tasks = tasks
    BY NowType, TabReplaced DEF Now
  <2>3. Becomes(s) \/ Becomes(DropRestOfQueue(s, p, t))
    BY <2>1
  <2> HIDE DEF s
  <2>4. tasks \subseteq DropRestOfQueue(s, p, t).tasks
    BY <2>2, DropRestOfQueueKeeps DEF Keeps
  <2> QED
    BY <2>2, <2>3, <2>4, StaysKept
<1>12. ASSUME NEW index, ShowQueuedResult(p, t, index)
       PROVE  TokensKept
  <2> DEFINE s == [Now EXCEPT !.tab[p][t].queue.showing = index]
  <2>1. Becomes(s) /\ s.tasks = tasks
    BY <1>12 DEF ShowQueuedResult, Now
  <2> HIDE DEF s
  <2> QED
    BY <2>1, StaysKept
<1>13. CASE ActivateTab(p, t)
  BY <1>13 DEF ActivateTab, TokensKept
<1> QED
  BY <1>5, <1>6, <1>7, <1>8, <1>9, <1>10, <1>11, <1>12, <1>13 DEF Commands

LEMMA AnswersKept ==
  ASSUME TypeOK, NEW p \in Profiles, Answers(p)
  PROVE  TokensKept
<1> DEFINE unparked == [Now EXCEPT !.prompt[p] = {}]
           unasked == [Now EXCEPT !.failure[p] = {}]
<1>1. unparked \in Session /\ unparked.tasks = tasks
  BY NowType DEF Session, Now
<1>2. unasked \in Session /\ unasked.tasks = tasks
  BY NowType DEF Session, Now
<1>3. CASE ApprovePendingRun(p)
  <2>1. PICK parked \in prompt[p] :
          Becomes(ExecuteUnchecked(unparked, p, parked.tab, parked.job))
    BY <1>3 DEF ApprovePendingRun
  <2>2. parked.tab \in Tabs
    BY DEF TypeOK, Parked
  <2> DEFINE t == parked.tab
             job == parked.job
             failed == [unparked EXCEPT !.tab[p][t].state = Ended("Failed")]
  <2>3. failed.tasks = tasks
    BY <1>1 DEF Session
  <2>4. ExecuteUnchecked(unparked, p, t, job) \in
          {unparked, failed, Send(unparked, p, t, job)}
    BY DEF ExecuteUnchecked
  <2> HIDE DEF unparked, failed
  <2>5. tasks \subseteq Send(unparked, p, t, job).tasks
    BY <1>1, <2>2, SendSends DEF SendsAtMost
  <2> DEFINE r == ExecuteUnchecked(unparked, p, t, job)
  <2>6. tasks \subseteq r.tasks /\ Becomes(r)
    BY <1>1, <2>1, <2>3, <2>4, <2>5
  <2> HIDE DEF r
  <2> QED
    BY <2>6, StaysKept
<1>4. CASE CancelPendingRun(p)
  <2>1. PICK parked \in prompt[p] : Becomes(StopQueueOn(unparked, p, parked.tab))
    BY <1>4 DEF CancelPendingRun
  <2>2. parked.tab \in Tabs
    BY DEF TypeOK, Parked
  <2> HIDE DEF unparked
  <2>3. tasks \subseteq StopQueueOn(unparked, p, parked.tab).tasks
    BY <1>1, <2>2, StopQueueOnKeeps DEF Keeps
  <2> QED
    BY <2>1, <2>3, StaysKept
<1>5. CASE StopQueue(p)
  <2>1. PICK t \in failure[p] :
          Becomes([Now EXCEPT !.failure[p] = {}, !.tab[p][t].queue.remaining = <<>>])
    BY <1>5 DEF StopQueue
  <2> DEFINE s == [Now EXCEPT !.failure[p] = {}, !.tab[p][t].queue.remaining = <<>>]
  <2>2. s.tasks = tasks /\ Becomes(s)
    BY <2>1 DEF Now
  <2> HIDE DEF s
  <2> QED
    BY <2>2, StaysKept
<1>6. CASE ContinueQueue(p)
  <2>1. PICK t \in failure[p] : Becomes(SendNextStatement(unasked, p, t))
    BY <1>6 DEF ContinueQueue
  <2>2. t \in Tabs
    BY DEF TypeOK
  <2> DEFINE popped == Popped(unasked.tab[p][t])
             r == [unasked EXCEPT !.tab[p][t] = popped]
             next == unasked.tab[p][t].queue.remaining[1]
             job == Ask(next, next)
  <2>3. CASE unasked.tab[p][t].queue.remaining = <<>>
    <3>1. SendNextStatement(unasked, p, t) = unasked
      BY <2>3 DEF SendNextStatement
    <3> HIDE DEF unasked
    <3> QED
      BY <1>2, <2>1, <3>1, StaysKept
  <2>4. CASE unasked.tab[p][t].queue.remaining # <<>>
    <3>1. SendNextStatement(unasked, p, t) = ExecuteAndThen(r, p, t, job)
      BY <2>4 DEF SendNextStatement, Popped
    <3> HIDE DEF unasked
    <3>2. popped \in Tab
      BY <1>2, <2>2, <2>4, SessionParts, PoppedType
    <3> HIDE DEF popped, job
    <3>3. r \in Session
      BY <1>2, <2>2, <3>2, TabReplaced
    <3>4. r.tasks = tasks
      BY <1>2 DEF Session
    <3> HIDE DEF r
    <3> QED
      BY <2>1, <2>2, <3>1, <3>3, <3>4, ExecutesKept
  <2> QED
    BY <2>3, <2>4
<1> QED
  BY <1>3, <1>4, <1>5, <1>6 DEF Answers

LEMMA ConnectionsKept ==
  ASSUME TypeOK, NEW p \in Profiles, Connections(p)
  PROVE  TokensKept
<1>1. Now \in Session /\ Now.tasks = tasks /\ tasks \in SUBSET Task
  BY NowType DEF Now, TypeOK
<1>2. ASSUME NEW s \in Session, s.tasks = tasks, Becomes(BeginConnect(s, p))
      PROVE  TokensKept
  <2> DEFINE r == BeginConnect(s, p)
  <2>1. r.tasks = Retired(p, tasks)
    BY <1>2 DEF BeginConnect, Session
  <2> HIDE DEF r
  <2> QED
    BY <1>1, <1>2, <2>1, RetiredKept DEF r
<1>3. CASE Activate(p)
  <2> DEFINE s == [Now EXCEPT !.prompt[p] = {}]
  <2>1. s \in Session /\ s.tasks = tasks
    BY <1>1 DEF Session
  <2>2. Becomes(s) \/ Becomes(BeginConnect(s, p))
    BY <1>3 DEF Activate
  <2> HIDE DEF s
  <2> QED
    BY <1>2, <2>1, <2>2, StaysKept
<1>4. CASE Reconnect(p)
  <2> DEFINE s == Now
  <2>1. s \in Session /\ s.tasks = tasks /\ Becomes(BeginConnect(s, p))
    BY <1>1, <1>4 DEF Reconnect
  <2> HIDE DEF s
  <2> QED
    BY <1>2, <2>1
<1>5. CASE Disconnect(p)
  <2> DEFINE s == [Now EXCEPT !.conn[p] = "Idle", !.tab[p] = QueuesStopped(p),
                              !.prompt[p] = {}, !.failure[p] = {},
                              !.tasks = Retired(p, @)]
  <2>1. s.tasks = Retired(p, tasks)
    BY <1>1 DEF Session
  <2>2. Becomes(s)
    BY <1>5 DEF Disconnect
  <2> HIDE DEF s
  <2> QED
    BY <1>1, <2>1, <2>2, RetiredKept
<1>6. ASSUME NEW opened \in BOOLEAN, ConnectLands(p, opened)
      PROVE  TokensKept
  BY <1>6 DEF ConnectLands, TokensKept
<1>7. ASSUME NEW inSession \in BOOLEAN, SetDatabase(p, inSession)
      PROVE  TokensKept
  <2> DEFINE tabs == [t \in Tabs |-> Left(p, t)]
             s == [Now EXCEPT !.tab[p] = tabs, !.prompt[p] = {}, !.failure[p] = {}]
             r == [s EXCEPT !.tasks = Retired(p, @)]
  <2>1. s.tasks = tasks
    BY <1>1 DEF Session
  <2>2. s \in Session
    <3>1. tabs \in [Tabs -> Tab]
      BY <1>7, LeftType DEF SetDatabase
    <3> HIDE DEF tabs
    <3> QED
      BY <1>1, <3>1 DEF Session
  <2>3. Becomes(r) \/ Becomes(BeginConnect(s, p))
    BY <1>7 DEF SetDatabase
  <2> HIDE DEF s
  <2>4. r.tasks = Retired(p, tasks)
    BY <2>1, <2>2 DEF Session
  <2> HIDE DEF r
  <2> QED
    BY <1>1, <1>2, <2>1, <2>2, <2>3, <2>4, RetiredKept
<1> QED
  BY <1>3, <1>4, <1>5, <1>6, <1>7 DEF Connections

LEMMA PourKept ==
  ASSUME NEW task \in tasks, Pour(task)
  PROVE  TokensKept
<1> DEFINE s == [Now EXCEPT !.tab[task.profile][task.tab].rows[task.grid] =
                              RowsOf(task.job.start, 1, "arriving")]
<1>1. Becomes(s) /\ s.tasks = tasks
  BY DEF Pour, Now
<1> HIDE DEF s
<1> QED
  BY <1>1, StaysKept

-----------------------------------------------------------------------------
(* Nothing after a stop.                                                   *)

Stops(p, t) ==
  (\E task \in Gone(p, t) : \/ ~task.live
                            \/ tab[p][t].state.cancelling
                            \/ LastFailed(tab'[p][t].queue.done))
    => SentNow(p, t) = {} /\ prompt'[p] \subseteq prompt[p]

LEMMA KeptStops ==
  ASSUME TokensKept, NEW p, NEW t
  PROVE  Stops(p, t)
<1>1. Gone(p, t) = {}
  BY DEF TokensKept, Gone, Of
<1> QED
  BY <1>1 DEF Stops

\* A statement that is out was sent before.
LEMMA UnsentStops ==
  ASSUME NEW s, NEW r, NEW p, NEW t, Unsent(s, r, p, t), s.tasks \subseteq tasks,
         s.prompt = prompt, tasks' = r.tasks, prompt' = r.prompt
  PROVE  SentNow(p, t) = {} /\ prompt'[p] \subseteq prompt[p]
BY DEF SentNow, Unsent

LEMMA LandStops ==
  ASSUME TypeOK, TypeOK', OwnedRuns, OrderKept, NEW task \in tasks, NEW outcome,
         NEW sets \in 1..MaxSets, Land(task, outcome, sets),
         NEW p \in Profiles, NEW t \in Tabs
  PROVE  Stops(p, t)
<1> DEFINE s0 == [Now EXCEPT !.tasks = @ \ {task}]
           s == IF task.live THEN LandLive(s0, task, outcome, sets)
                             ELSE DropStaleRun(s0, task)
           done == tab'[p][t].queue.done
<1>1. /\ task \in Task /\ sets \in Nat \ {0} /\ front \in Profiles \cup {NoProfile}
      /\ Follows(task.job)
  <2>1. task \in Now.tasks
    BY DEF Now
  <2> QED
    BY <2>1, SetsAssumption DEF TypeOK, OrderKept, Orderly, AllFollow
<1>2. /\ s0 \in Session /\ s0.tab = tab /\ s0.prompt = prompt
      /\ s0.tasks = tasks \ {task}
  BY NowType DEF Session, Now
<1>3. Becomes(s)
  BY DEF Land
<1> HIDE DEF s0
<1>4. Orderly(s0)
  <2>1. Now.tasks = tasks /\ Now.prompt = prompt /\ Now.tab = tab
    BY DEF Now
  <2>2. Orderly(Now)
    BY DEF OrderKept
  <2> DEFINE now == Now
  <2> HIDE DEF now
  <2>3. Orderly(now) /\ now.tasks = tasks /\ now.prompt = prompt /\ now.tab = tab
    BY <2>1, <2>2 DEF now
  <2>4. \A q \in Profiles, u \in Tabs : Halts(s0.tab[q][u])
    BY <1>2, <2>3 DEF Orderly
  <2> QED
    BY <1>2, <2>3, <2>4, FewerOrderly
<1>5. /\ s0.tasks \subseteq s.tasks
      /\ task.live =>
           \/ Unsent(s0, s, task.profile, task.tab)
           \/ /\ task.lane = NoRun
              /\ s0.tab[task.profile][task.tab].queue.remaining # <<>>
              /\ ~LastFailed(s.tab[task.profile][task.tab].queue.done)
      /\ ~task.live => Unsent(s0, s, task.profile, task.tab)
  <2>1. CASE task.live
    <3> DEFINE r == LandLive(s0, task, outcome, sets)
    <3>1. /\ s0.tasks \subseteq r.tasks
          /\ \/ Unsent(s0, r, task.profile, task.tab)
             \/ /\ task.lane = NoRun
                /\ s0.tab[task.profile][task.tab].queue.remaining # <<>>
                /\ ~LastFailed(r.tab[task.profile][task.tab].queue.done)
      BY <1>1, <1>2, <1>4, LandLiveSends
    <3>2. s = r
      BY <2>1
    <3> HIDE DEF s, r
    <3> QED
      BY <2>1, <3>1, <3>2
  <2>2. CASE ~task.live
    <3> DEFINE r == DropStaleRun(s0, task)
    <3>1. r.tasks = s0.tasks /\ r.prompt = s0.prompt
      BY <1>1, <1>2, <1>4, DropStaleRunOrderly
    <3>2. s = r
      BY <2>2
    <3> HIDE DEF s, r
    <3> QED
      BY <2>2, <3>1, <3>2, UnsentSame
  <2> QED
    BY <2>1, <2>2
<1> HIDE DEF s
<1>6. tasks' = s.tasks /\ prompt' = s.prompt
  BY <1>3 DEF Becomes
<1>7. done = s.tab[p][t].queue.done
  <2> DEFINE tb == s.tab[p][t]
             rows == [g \in Grids |-> IF g \in Taken(s, p, t) THEN tb.rows[g] ELSE Empty]
             new == tab'[p][t]
  <2>1. new = [tb EXCEPT !.rows = rows]
    BY <1>3 DEF Becomes, Collected
  <2>2. {"lent", "state", "queue"} \subseteq DOMAIN new
    BY DEF TypeOK, Tab
  <2> HIDE DEF tb, rows, new
  <2>3. new.queue = tb.queue
    BY <2>1, <2>2
  <2> QED
    BY <2>3 DEF new, tb
<1> HIDE DEF done
<1> SUFFICES ASSUME NEW gone \in Gone(p, t),
                    \/ ~gone.live \/ tab[p][t].state.cancelling \/ LastFailed(done)
             PROVE  SentNow(p, t) = {} /\ prompt'[p] \subseteq prompt[p]
  BY DEF Stops, done
<1>8. gone = task /\ task.profile = p /\ task.tab = t
  <2>1. gone \in tasks /\ gone.profile = p /\ gone.tab = t
        /\ \A other \in tasks' : Token(other) # Token(gone)
    BY DEF Gone, Of
  <2>2. gone \notin tasks'
    BY <2>1
  <2> QED
    BY <1>2, <1>5, <1>6, <2>1, <2>2
<1>9. ~(/\ task.live /\ task.lane = NoRun /\ tab[p][t].queue.remaining # <<>>
        /\ ~LastFailed(done))
  <2> SUFFICES ASSUME task.live, task.lane = NoRun, tab[p][t].queue.remaining # <<>>,
                      ~LastFailed(done)
               PROVE  FALSE
    OBVIOUS
  <2>1. tab[p][t].state.cancelling
    BY <1>8
  <2>2. tab[p][t].state.kind = "Running"
    BY <1>8, OwnedOwnsSlot DEF TaskOwnsSlot
  <2>3. Halts(tab[p][t])
    BY FreeHalts
  <2> QED
    BY <2>1, <2>2, <2>3 DEF Halts, Cancelled, IsRunning
<1>10. Unsent(s0, s, p, t)
  BY <1>2, <1>5, <1>7, <1>8, <1>9
<1>11. s0.tasks \subseteq tasks
  BY <1>2
<1> QED
  BY <1>2, <1>6, <1>10, <1>11, UnsentStops

LEMMA NextStops ==
  ASSUME TypeOK, TypeOK', OwnedRuns, OrderKept, [Next]_vars,
         NEW p \in Profiles, NEW t \in Tabs
  PROVE  Stops(p, t)
<1>1. ASSUME NEW q \in Profiles, NEW u \in Tabs, Commands(q, u)
      PROVE  Stops(p, t)
  BY <1>1, CommandsKept, KeptStops
<1>2. ASSUME NEW q \in Profiles, Answers(q) \/ Connections(q)
      PROVE  Stops(p, t)
  BY <1>2, AnswersKept, ConnectionsKept, KeptStops
<1>3. ASSUME NEW task \in tasks, Pour(task)
      PROVE  Stops(p, t)
  BY <1>3, PourKept, KeptStops
<1>4. ASSUME NEW task \in tasks, Lands(task)
      PROVE  Stops(p, t)
  BY <1>4, LandStops DEF Lands
<1>5. CASE UNCHANGED vars
  <2>1. TokensKept
    BY <1>5 DEF vars, TokensKept
  <2> QED
    BY <2>1, KeptStops
<1> QED
  BY <1>1, <1>2, <1>3, <1>4, <1>5 DEF Next

\* Once a statement failed, was cancelled, or was left behind by its
\* connection, its landing sends nothing further of the queue, nor asks leave
\* to: land_in_slot and advance_queue of src/workspace/queries.rs, whose
\* decision QueryQueue::next of src/session.rs makes, and cancel_query and
\* drop_stale_run, which leave the queue nothing to send.
THEOREM NothingFurther == Spec => NothingAfterStop
<1>1. ASSUME TypeOK, TypeOK', OwnedRuns, OrderKept, [Next]_vars
      PROVE  \A p \in Profiles, t \in Tabs :
               LET done == tab'[p][t].queue.done
               IN  (\E task \in Gone(p, t) :
                      \/ ~task.live
                      \/ tab[p][t].state.cancelling
                      \/ done # <<>> /\ Last(done).state.kind = "Failed")
                   => SentNow(p, t) = {} /\ prompt'[p] \subseteq prompt[p]
  <2>1. \A p \in Profiles, t \in Tabs : Stops(p, t)
    BY <1>1, NextStops
  <2> QED
    BY <2>1 DEF Stops, LastFailed
<1>2. Init => OrderKept
  BY InitOrderKept
<1>3. TypeOK /\ TypeOK' /\ OrderKept /\ [Next]_vars => OrderKept'
  BY NextOrderKept
<1> QED
  BY <1>1, <1>2, <1>3, TypeCorrect, OwnedRunsInvariant, PTL DEF Spec, NothingAfterStop

-----------------------------------------------------------------------------
(* One tab, and a user who answers what is asked.  The queue is then in    *)
(* one of four places: nothing is owed, a statement of it is out, the next *)
(* is parked until the user answers, or it stopped part way and the user   *)
(* is being asked.                                                         *)

\* No other tab parks its statement over this one's, or takes the decision
\* from it: there is one of each to a connection.
Alone == Single /\ \A t, u \in Tabs : t = u

\* A statement the queue sends.
Queued(job) == ~job.explain /\ job.refresh = "None" /\ job.from # Batch

\* What is asked for over a statement that is out: a plan, or a batch of edits.
Beside(job) == job.explain \/ job.from = Batch

\* Nothing of a queue is parked, though one of those may be.
Aside(s, p) == \A parked \in s.prompt[p] : Beside(parked.job)

Rests(s, p, t) == Rested(s.tab[p][t].queue) /\ s.failure[p] = {}

Advances(s, p, t) ==
  /\ s.tab[p][t].queue.awaiting /\ IsRunning(s.tab[p][t].state) /\ s.failure[p] = {}
  /\ Aside(s, p)
  /\ \E u \in Own(s, p, t) :
       u.lane = NoRun /\ Queued(u.job) /\ u.job.from = s.tab[p][t].ran

AwaitsLeave(s, p, t) ==
  /\ s.tab[p][t].queue.awaiting /\ ~IsRunning(s.tab[p][t].state) /\ s.failure[p] = {}
  /\ \E parked \in Parked :
       s.prompt[p] = {parked} /\ parked.tab = t /\ Queued(parked.job)

IsStopped(s, p, t) ==
  LET tb == s.tab[p][t]
  IN  /\ ~tb.queue.awaiting /\ ~IsRunning(tb.state) /\ tb.queue.remaining # <<>>
      /\ LastFailed(tb.queue.done) /\ s.failure[p] = {t} /\ Aside(s, p)

Placed(s, p, t) ==
  /\ AllNamed(s.tab[p][t].queue.done)
  /\ \/ Rests(s, p, t) \/ Advances(s, p, t)
     \/ AwaitsLeave(s, p, t) \/ IsStopped(s, p, t)

\* At rest, with what else is said of the place.
AtRest(s, p, t) == AllNamed(s.tab[p][t].queue.done) /\ Rests(s, p, t)

LEMMA AtRestPlaced ==
  ASSUME NEW s, NEW p, NEW t, AtRest(s, p, t)
  PROVE  Placed(s, p, t)
BY DEF AtRest, Placed

LEMMA NothingNamed == AllNamed(<<>>) /\ AllNamed(NoQueue.done) /\ Rested(NoQueue)
<1>1. AllNamed(<<>>)
  BY DEF AllNamed
<1> QED
  BY <1>1 DEF NoQueue, Rested

\* A session with the tab's queue at rest, as it was or put there.
LEMMA SameRests ==
  ASSUME NEW s, NEW r, NEW p, NEW t, AtRest(s, p, t),
         Rested(s.tab[p][t].queue) => Rested(r.tab[p][t].queue),
         AllNamed(s.tab[p][t].queue.done) => AllNamed(r.tab[p][t].queue.done),
         r.failure[p] \in {s.failure[p], {}}
  PROVE  AtRest(r, p, t)
BY DEF AtRest, Rests

LEMMA TabRests ==
  ASSUME NEW s \in Session, NEW p \in Profiles, NEW t \in Tabs, NEW tb,
         AtRest(s, p, t), Rested(tb.queue), AllNamed(tb.queue.done)
  PROVE  AtRest([s EXCEPT !.tab[p][t] = tb], p, t)
<1> DEFINE r == [s EXCEPT !.tab[p][t] = tb]
<1>1. r.tab[p][t] = tb /\ r.failure = s.failure
  BY DEF Session
<1> HIDE DEF r
<1> QED
  BY <1>1, SameRests DEF r

LEMMA StateRests ==
  ASSUME NEW s \in Session, NEW p \in Profiles, NEW t \in Tabs, NEW state, AtRest(s, p, t)
  PROVE  AtRest([s EXCEPT !.tab[p][t].state = state], p, t)
<1> DEFINE tb == [s.tab[p][t] EXCEPT !.state = state]
<1>1. tb.queue = s.tab[p][t].queue
  BY SessionParts DEF Tab
<1>2. [s EXCEPT !.tab[p][t].state = state] = [s EXCEPT !.tab[p][t] = tb]
  BY DEF Session
<1> HIDE DEF tb
<1> QED
  BY <1>1, <1>2, TabRests DEF AtRest, Rests

LEMMA QueueRests ==
  ASSUME NEW s \in Session, NEW p \in Profiles, NEW t \in Tabs, NEW queue,
         AtRest(s, p, t), Rested(queue), AllNamed(queue.done)
  PROVE  AtRest([s EXCEPT !.tab[p][t].queue = queue], p, t)
<1> DEFINE tb == [s.tab[p][t] EXCEPT !.queue = queue]
<1>1. tb.queue = queue
  BY SessionParts DEF Tab
<1>2. [s EXCEPT !.tab[p][t].queue = queue] = [s EXCEPT !.tab[p][t] = tb]
  BY DEF Session
<1> HIDE DEF tb
<1> QED
  BY <1>1, <1>2, TabRests

LEMMA PromptRests ==
  ASSUME NEW s \in Session, NEW p, NEW t, NEW q, NEW all, AtRest(s, p, t)
  PROVE  AtRest([s EXCEPT !.prompt[q] = all], p, t)
<1>1. /\ [s EXCEPT !.prompt[q] = all].tab = s.tab
      /\ [s EXCEPT !.prompt[q] = all].failure = s.failure
  BY DEF Session
<1> QED
  BY <1>1 DEF AtRest, Rests

-----------------------------------------------------------------------------
(* Sending, for a queue in its place.                                      *)

\* What Send leaves, as the queue's place is told from it.
LEMMA SendParts ==
  ASSUME NEW s \in Session, NEW p \in Profiles, NEW t \in Tabs, NEW job \in Job
  PROVE  LET r == Send(s, p, t, job)
             tb == r.tab[p][t]
         IN  /\ tb.queue = s.tab[p][t].queue /\ tb.ran = job.from /\ IsRunning(tb.state)
             /\ r.failure = s.failure /\ r.prompt = s.prompt /\ r.conn = s.conn
             /\ \E u \in Own(r, p, t) : u.lane = NoRun /\ u.job = job
             /\ \A u \in r.tasks \ s.tasks : u.profile = p
<1> DEFINE run == FreshRun(s)
           lent == IF job.refresh = "Earlier" THEN Lend(s.tab[p][t], job.index)
                                              ELSE s.tab[p][t]
           rows == IF job.explain THEN lent.rows
                                  ELSE [lent.rows EXCEPT ![lent.grid] = Empty]
           sent == [lent EXCEPT !.state = Running(run), !.ran = job.from, !.rows = rows]
           task == [id |-> run, profile |-> p, tab |-> t, live |-> TRUE,
                    lane |-> NoRun, job |-> job, grid |-> lent.grid]
           r == [s EXCEPT !.tab[p][t] = sent, !.tasks = @ \cup {task}]
<1>1. r = Send(s, p, t, job)
  BY DEF Send
<1>2. lent \in Tab /\ lent.queue = s.tab[p][t].queue
  <2>1. s.tab[p][t] \in Tab
    BY SessionParts
  <2> DEFINE tb == s.tab[p][t]
  <2>2. tb \in Tab
    BY <2>1
  <2> HIDE DEF tb
  <2>3. Lend(tb, job.index) \in Tab
    BY <2>2, LendType
  <2>4. Lend(tb, job.index).queue = tb.queue
    BY <2>2 DEF Lend, Tab
  <2> QED
    BY <2>2, <2>3, <2>4 DEF tb
<1>3. sent.queue = lent.queue /\ sent.ran = job.from /\ sent.state = Running(run)
  <2> HIDE DEF lent, rows, run
  <2> QED
    BY <1>2 DEF Tab
<1>4. IsRunning(Running(run))
  BY DEF Running, IsRunning
<1>5. task.job = job /\ task.lane = NoRun /\ task.profile = p /\ task.tab = t
  OBVIOUS
<1> HIDE DEF sent, task, lent
<1>6. /\ r.tab[p][t] = sent /\ r.tasks = s.tasks \cup {task}
      /\ r.failure = s.failure /\ r.prompt = s.prompt /\ r.conn = s.conn
  BY DEF Session
<1> HIDE DEF r
<1>7. task \in Own(r, p, t)
  BY <1>5, <1>6 DEF Own
<1>8. LET tb == r.tab[p][t]
      IN  /\ tb.queue = s.tab[p][t].queue /\ tb.ran = job.from /\ IsRunning(tb.state)
          /\ r.failure = s.failure /\ r.prompt = s.prompt /\ r.conn = s.conn
          /\ \E u \in Own(r, p, t) : u.lane = NoRun /\ u.job = job
          /\ \A u \in r.tasks \ s.tasks : u.profile = p
  BY <1>2, <1>3, <1>4, <1>5, <1>6, <1>7
<1> QED
  BY <1>1, <1>8

\* A queue at rest stays there, whatever runs on the tab.
LEMMA ExecuteUncheckedRests ==
  ASSUME NEW s \in Session, NEW p \in Profiles, NEW t \in Tabs, NEW job \in Job,
         AtRest(s, p, t)
  PROVE  AtRest(ExecuteUnchecked(s, p, t, job), p, t)
<1>1. AtRest([s EXCEPT !.tab[p][t].state = Ended("Failed")], p, t)
  BY StateRests
<1>2. AtRest(Send(s, p, t, job), p, t)
  BY SendParts, SameRests
<1> QED
  BY <1>1, <1>2 DEF ExecuteUnchecked

LEMMA ExecuteAndThenRests ==
  ASSUME NEW s \in Session, NEW p \in Profiles, NEW t \in Tabs, NEW job \in Job,
         AtRest(s, p, t)
  PROVE  AtRest(ExecuteAndThen(s, p, t, job), p, t)
BY ExecuteUncheckedRests, PromptRests DEF ExecuteAndThen

\* A statement of a queue that waits for it goes out.
LEMMA ExecuteUncheckedPlaced ==
  ASSUME NEW s \in Session, NEW p \in Profiles, NEW t \in Tabs, NEW job \in Job,
         s.failure[p] = {}, s.conn[p] = "Connected", ~Busy(s, p, t), Queued(job),
         s.tab[p][t].queue.awaiting, AllNamed(s.tab[p][t].queue.done), Aside(s, p)
  PROVE  Placed(ExecuteUnchecked(s, p, t, job), p, t)
<1> DEFINE r == Send(s, p, t, job)
<1>1. ExecuteUnchecked(s, p, t, job) = r
  BY DEF ExecuteUnchecked
<1>2. /\ r.tab[p][t].queue = s.tab[p][t].queue /\ r.tab[p][t].ran = job.from
      /\ IsRunning(r.tab[p][t].state) /\ r.failure = s.failure /\ r.prompt = s.prompt
      /\ \E u \in Own(r, p, t) : u.lane = NoRun /\ u.job = job
  BY SendParts
<1> HIDE DEF r
<1>3. Advances(r, p, t)
  BY <1>2 DEF Advances, Aside
<1> QED
  BY <1>1, <1>2, <1>3 DEF Placed

\* Or is parked.
LEMMA ExecuteAndThenPlaced ==
  ASSUME NEW s \in Session, NEW p \in Profiles, NEW t \in Tabs, NEW job \in Job,
         s.failure[p] = {}, s.conn[p] = "Connected", ~Busy(s, p, t), Queued(job),
         s.tab[p][t].queue.awaiting, AllNamed(s.tab[p][t].queue.done), Aside(s, p)
  PROVE  Placed(ExecuteAndThen(s, p, t, job), p, t)
<1> DEFINE parked == [tab |-> t, job |-> job]
           r == [s EXCEPT !.prompt[p] = {parked}]
<1>1. CASE job.start \in Gated
  <2>1. ExecuteAndThen(s, p, t, job) = r
    BY <1>1 DEF ExecuteAndThen
  <2>2. parked \in Parked /\ parked.tab = t /\ parked.job = job
    BY DEF Parked
  <2> HIDE DEF parked
  <2>3. r.prompt[p] = {parked} /\ r.tab = s.tab /\ r.failure = s.failure
    BY DEF Session
  <2> HIDE DEF r
  <2>4. AwaitsLeave(r, p, t)
    BY <2>2, <2>3 DEF AwaitsLeave, Busy
  <2> QED
    BY <2>1, <2>3, <2>4 DEF Placed
<1>2. CASE job.start \notin Gated
  BY <1>2, ExecuteUncheckedPlaced DEF ExecuteAndThen
<1> QED
  BY <1>1, <1>2

\* Nothing else can be sent on a tab whose statement is out.
LEMMA ExecuteAndThenBusy ==
  ASSUME NEW s \in Session, NEW p \in Profiles, NEW t \in Tabs, NEW job \in Job,
         Placed(s, p, t), Busy(s, p, t), Beside(job)
  PROVE  Placed(ExecuteAndThen(s, p, t, job), p, t)
<1> DEFINE parked == [tab |-> t, job |-> job]
           r == [s EXCEPT !.prompt[p] = {parked}]
<1>1. ExecuteAndThen(s, p, t, job) \in {s, r}
  BY DEF ExecuteAndThen, ExecuteUnchecked
<1>2. r.tab = s.tab /\ r.failure = s.failure /\ r.tasks = s.tasks /\ r.prompt[p] = {parked}
  BY DEF Session
<1> HIDE DEF r
<1>3. Placed(r, p, t)
  <2>1. CASE Rests(s, p, t)
    BY <1>2, <2>1 DEF Placed, Rests
  <2>2. CASE Advances(s, p, t)
    <3>1. Advances(r, p, t)
      BY <1>2, <2>2 DEF Advances, Own, Aside
    <3> QED
      BY <1>2, <3>1 DEF Placed
  <2> QED
    BY <2>1, <2>2 DEF Placed, AwaitsLeave, IsStopped, Busy
<1> QED
  BY <1>1, <1>3

-----------------------------------------------------------------------------
(* Queues in their place.                                                  *)

\* What a lane or a batch adds to done is of the statement that landed.
LEMMA WidensNamed ==
  ASSUME NEW done, NEW all, NEW start, NEW f, Widens(done, all, start, f),
         AllNamed(done), start # Batch
  PROVE  AllNamed(all)
<1>1. ASSUME NEW k \in DOMAIN all
      PROVE  all[k].start # Batch
  <2>1. CASE \E i \in DOMAIN done : f[i] = k
    BY <2>1 DEF Widens, AllNamed
  <2>2. CASE ~\E i \in DOMAIN done : f[i] = k
    BY <2>2 DEF Widens
  <2> QED
    BY <2>1, <2>2
<1> QED
  BY <1>1 DEF AllNamed

LEMMA KeptNamed ==
  ASSUME NEW queue \in Queue, NEW at \in SUBSET DOMAIN queue.done, AllNamed(queue.done)
  PROVE  AllNamed(Kept(queue.done, at))
<1> DEFINE left == Kept(queue.done, at)
<1>1. \A k \in DOMAIN left : \E i \in at : left[k] = queue.done[i]
  BY KeptThins
<1> HIDE DEF left
<1>2. AllNamed(left)
  BY <1>1 DEF AllNamed
<1> QED
  BY <1>2 DEF left

\* The next statement of a queue, taken off it to be sent.
LEMMA TakesNext ==
  ASSUME NEW s \in Session, NEW p \in Profiles, NEW t \in Tabs,
         s.tab[p][t].queue.remaining # <<>>
  PROVE  LET tb == s.tab[p][t]
             job == Ask(tb.queue.remaining[1], tb.queue.remaining[1])
             r == [s EXCEPT !.tab[p][t] = Popped(tb)]
         IN  /\ SendNextStatement(s, p, t) = ExecuteAndThen(r, p, t, job)
             /\ job \in Job /\ Queued(job)
             /\ r \in Session /\ r.failure = s.failure /\ r.conn = s.conn
             /\ r.prompt = s.prompt /\ r.tasks = s.tasks
             /\ r.tab[p][t].state = tb.state /\ r.tab[p][t].lent = tb.lent
             /\ r.tab[p][t].queue.awaiting /\ r.tab[p][t].queue.done = tb.queue.done
<1> DEFINE tb == s.tab[p][t]
           next == tb.queue.remaining[1]
           popped == Popped(tb)
           r == [s EXCEPT !.tab[p][t] = popped]
<1>1. tb \in Tab /\ tb.queue \in Queue
  BY SessionParts, TabParts
<1>2. next \in Sent /\ next # Batch /\ popped \in Tab
  <2>1. next \in Statements
    <3> DEFINE queue == tb.queue
    <3>1. queue \in Queue /\ queue.remaining # <<>>
      BY <1>1
    <3> HIDE DEF queue
    <3>2. queue.remaining \in Seq(Statements) /\ Len(queue.remaining) \in Nat \ {0}
      BY <3>1, QueueParts, EmptySeq
    <3>3. queue.remaining[1] \in Statements
      BY <3>2, ElementOfSeq
    <3> QED
      BY <3>3 DEF queue
  <2>2. popped \in Tab
    BY <1>1, PoppedType
  <2> QED
    BY <2>1, <2>2, StatementsAssumption DEF Batch, Sent
<1>3. /\ popped.state = tb.state /\ popped.lent = tb.lent
      /\ popped.queue.awaiting /\ popped.queue.done = tb.queue.done
  <2> DEFINE grid == IF tb.queue.spare # <<>> THEN Last(tb.queue.spare) ELSE tb.grid
             showing == IF tb.queue.showing >= Len(tb.queue.done)
                        THEN Len(tb.queue.done) + 1 ELSE tb.queue.showing
             queue == [tb.queue EXCEPT !.remaining = Tail(@), !.awaiting = TRUE,
                         !.showing = showing, !.spare = SparesLeft(tb.queue)]
  <2>1. popped = [tb EXCEPT !.grid = grid, !.queue = queue]
    BY DEF Popped
  <2>2. queue.awaiting /\ queue.done = tb.queue.done
    <3> HIDE DEF tb, showing
    <3> QED
      BY <1>1 DEF Queue
  <2> HIDE DEF popped, tb, grid, queue
  <2> QED
    BY <1>1, <2>1, <2>2 DEF Tab
<1>4. SendNextStatement(s, p, t) = ExecuteAndThen(r, p, t, Ask(next, next))
  BY DEF SendNextStatement, Popped
<1>5. Ask(next, next) \in Job /\ Queued(Ask(next, next))
  BY <1>2, AskType DEF Queued, Ask
<1> HIDE DEF popped
<1>6. r \in Session /\ r.tab[p][t] = popped
  BY <1>2, TabReplaced
<1>7. /\ r.failure = s.failure /\ r.conn = s.conn
      /\ r.prompt = s.prompt /\ r.tasks = s.tasks
  BY DEF Session
<1> HIDE DEF r, tb, next
<1> QED
  BY <1>3, <1>4, <1>5, <1>6, <1>7 DEF r, popped, tb, next

\* The next of a queue whose last is back.
LEMMA SendNextPlaced ==
  ASSUME NEW s \in Session, NEW p \in Profiles, NEW t \in Tabs,
         s.failure[p] = {}, s.conn[p] = "Connected", ~Busy(s, p, t),
         s.tab[p][t].queue.remaining # <<>>, AllNamed(s.tab[p][t].queue.done), Aside(s, p)
  PROVE  Placed(SendNextStatement(s, p, t), p, t)
<1> DEFINE job == Ask(s.tab[p][t].queue.remaining[1], s.tab[p][t].queue.remaining[1])
           r == [s EXCEPT !.tab[p][t] = Popped(s.tab[p][t])]
<1>1. /\ SendNextStatement(s, p, t) = ExecuteAndThen(r, p, t, job)
      /\ job \in Job /\ Queued(job)
      /\ r \in Session /\ r.failure = s.failure /\ r.conn = s.conn /\ r.prompt = s.prompt
      /\ r.tab[p][t].state = s.tab[p][t].state
      /\ r.tab[p][t].queue.awaiting /\ r.tab[p][t].queue.done = s.tab[p][t].queue.done
  BY TakesNext
<1> HIDE DEF r, job
<1>2. ~Busy(r, p, t) /\ Aside(r, p)
  BY <1>1 DEF Busy, Aside
<1> QED
  BY <1>1, <1>2, ExecuteAndThenPlaced

\* And it goes out, or is parked where it was not.
LEMMA SendNextGoes ==
  ASSUME NEW s \in Session, NEW p \in Profiles, NEW t \in Tabs,
         s.conn[p] = "Connected", ~Busy(s, p, t), FreeRuns(s) # {},
         s.tab[p][t].queue.remaining # <<>>, Aside(s, p)
  PROVE  \/ SendNextStatement(s, p, t).tasks # s.tasks
         \/ SendNextStatement(s, p, t).prompt # s.prompt
<1> DEFINE job == Ask(s.tab[p][t].queue.remaining[1], s.tab[p][t].queue.remaining[1])
           r == [s EXCEPT !.tab[p][t] = Popped(s.tab[p][t])]
<1>1. /\ SendNextStatement(s, p, t) = ExecuteAndThen(r, p, t, job)
      /\ job \in Job /\ Queued(job)
      /\ r \in Session /\ r.conn = s.conn /\ r.prompt = s.prompt /\ r.tasks = s.tasks
      /\ r.tab[p][t].state = s.tab[p][t].state
  BY TakesNext
<1>2. FreeRuns(r) # {}
  <2>1. Popped(s.tab[p][t]) \in Tab
    BY SessionParts, PoppedType
  <2>2. r.tab[p][t] = Popped(s.tab[p][t])
    <3> DEFINE popped == Popped(s.tab[p][t])
    <3>1. popped \in Tab /\ r = [s EXCEPT !.tab[p][t] = popped]
      BY <2>1
    <3> HIDE DEF popped, r
    <3>2. r.tab[p][t] = popped
      BY <3>1, TabReplaced
    <3> QED
      BY <3>2 DEF popped
  <2>3. r.tab[p][t].lent = s.tab[p][t].lent
    BY TakesNext
  <2> HIDE DEF r
  <2>4. FreeRuns(s) \subseteq FreeRuns([s EXCEPT !.tab[p][t] = Popped(s.tab[p][t])])
    BY <1>1, <2>2, <2>3, SameFree
  <2> QED
    BY <2>4 DEF r
<1> HIDE DEF r, job
<1>3. CASE job.start \in Gated
  <2> DEFINE parked == [tab |-> t, job |-> job]
             q == [r EXCEPT !.prompt[p] = {parked}]
  <2>1. ExecuteAndThen(r, p, t, job) = q
    BY <1>3 DEF ExecuteAndThen
  <2>2. q.prompt[p] = {parked}
    BY <1>1 DEF Session
  <2>3. parked \notin s.prompt[p]
    BY <1>1 DEF Aside, Beside, Queued
  <2> HIDE DEF q, parked
  <2> QED
    BY <1>1, <2>1, <2>2, <2>3
<1>4. CASE job.start \notin Gated
  <2> DEFINE q == Send(r, p, t, job)
  <2>1. ExecuteAndThen(r, p, t, job) = q
    BY <1>1, <1>4 DEF ExecuteAndThen, ExecuteUnchecked, Busy
  <2>2. PICK u \in q.tasks : u.id = FreshRun(r)
    <3> DEFINE run == FreshRun(r)
               lent == IF job.refresh = "Earlier" THEN Lend(r.tab[p][t], job.index)
                                                  ELSE r.tab[p][t]
               sent == [lent EXCEPT !.state = Running(run), !.ran = job.from,
                          !.rows = IF job.explain THEN @ ELSE [@ EXCEPT ![lent.grid] = Empty]]
               task == [id |-> run, profile |-> p, tab |-> t, live |-> TRUE,
                        lane |-> NoRun, job |-> job, grid |-> lent.grid]
    <3>1. q = [r EXCEPT !.tab[p][t] = sent, !.tasks = @ \cup {task}]
      BY DEF Send
    <3>2. task.id = run
      OBVIOUS
    <3> HIDE DEF q, sent, task, run
    <3>3. q.tasks = r.tasks \cup {task}
      BY <1>1, <3>1 DEF Session
    <3>4. task \in q.tasks
      BY <3>3
    <3>5. \E u \in q.tasks : u.id = run
      BY <3>2, <3>4
    <3> QED
      BY <3>5 DEF run
  <2>3. FreshRun(r) \in FreeRuns(r)
    BY <1>2, FreshRunFree
  <2>4. u \notin r.tasks
    BY <2>2, <2>3, FreeMeans
  <2> HIDE DEF q
  <2> QED
    BY <1>1, <2>1, <2>2, <2>4
<1> QED
  BY <1>3, <1>4

\* Nothing put in is nothing changed.
LEMMA BesidesNothing ==
  ASSUME NEW S, NEW done \in Seq(S), NEW at \in 1..Len(done) + 1, NEW all,
         all = Besides(done, at, <<>>)
  PROVE  all \in Seq(S) /\ Len(all) = Len(done) /\ \A k \in 1..Len(done) : all[k] = done[k]
<1>1. ASSUME NEW further \in Seq(S), Len(further) = 0
      PROVE  LET every == Besides(done, at, further)
             IN  /\ every \in Seq(S) /\ Len(every) = Len(done)
                 /\ \A k \in 1..Len(every) : k < at => every[k] = done[k]
                 /\ \A k \in 1..Len(every) : at <= k => every[k] = done[k]
  <2> DEFINE every == Besides(done, at, further)
  <2>1. LET none == Besides(done, at, further)
        IN  /\ none \in Seq(S) /\ Len(none) = Len(done) + Len(further)
            /\ \A k \in 1..Len(none) : k < at => k \in 1..Len(done) /\ none[k] = done[k]
            /\ \A k \in 1..Len(none) : at <= k /\ k < at + Len(further) =>
                 k - at + 1 \in 1..Len(further) /\ none[k] = further[k - at + 1]
            /\ \A k \in 1..Len(none) : at + Len(further) <= k =>
                 k - Len(further) \in 1..Len(done) /\ none[k] = done[k - Len(further)]
    BY BesidesParts
  <2>2. Len(done) \in Nat /\ at \in Int
    BY LenProperties
  <2> HIDE DEF every
  <2>3. /\ every \in Seq(S) /\ Len(every) = Len(done) + Len(further)
        /\ \A k \in 1..Len(every) : k < at => every[k] = done[k]
        /\ \A k \in 1..Len(every) : at + Len(further) <= k => every[k] = done[k - Len(further)]
    BY <2>1 DEF every
  <2>4. Len(every) = Len(done) /\ \A k \in 1..Len(every) : at <= k => every[k] = done[k]
    BY <1>1, <2>2, <2>3
  <2> QED
    BY <2>3, <2>4 DEF every
<1>2. <<>> \in Seq(S) /\ Len(<<>>) = 0 /\ Len(done) \in Nat /\ at \in Int
  BY LenProperties
<1>3. /\ all \in Seq(S) /\ Len(all) = Len(done)
      /\ \A k \in 1..Len(all) : k < at => all[k] = done[k]
      /\ \A k \in 1..Len(all) : at <= k => all[k] = done[k]
  BY <1>1, <1>2
<1> QED
  BY <1>2, <1>3

\* A failure is the last result of its queue.
LEMMA LastIsFailure ==
  ASSUME NEW tb \in Tab, tb.state.kind = "Failed"
  PROVE  LastFailed(Advanced(tb, 1).queue.done)
<1> DEFINE entry == [start |-> tb.ran, set |-> 1, state |-> tb.state, grid |-> tb.grid]
           following == tb.queue.showing > Len(tb.queue.done)
           done == Append(tb.queue.done, entry)
           pushed == [tb.queue EXCEPT !.awaiting = FALSE, !.done = done]
           taken == Shown(pushed, 1)
           left == Len(pushed.spare) - taken
           at == Len(pushed.done) + 1
           further == [k \in 1..taken |->
                         [start |-> tb.ran, set |-> k + 1, state |-> Ended("Complete"),
                          grid |-> pushed.spare[Len(pushed.spare) + 1 - k]]]
           queue == LandSets(pushed, at, tb.ran, 1)
           moved == [queue EXCEPT !.showing = IF following THEN Len(queue.done) ELSE @]
           n == Len(done)
<1>1. /\ tb.queue \in Queue /\ tb.queue.done \in Seq(Finished) /\ entry \in Finished
  BY TabParts, QueueParts DEF Finished
<1>2. entry.state = tb.state
  OBVIOUS
<1> HIDE DEF entry
<1>3. done \in Seq(Finished) /\ n \in Nat \ {0} /\ done[n] = entry
  <2>1. done \in Seq(Finished) /\ Len(done) = Len(tb.queue.done) + 1
        /\ done[Len(tb.queue.done) + 1] = entry /\ Len(tb.queue.done) \in Nat
    BY <1>1, AppendProperties, LenProperties
  <2> QED
    BY <2>1
<1> HIDE DEF done
<1>4. pushed \in Queue /\ pushed.done = done
  BY <1>1, <1>3 DEF Queue
<1> HIDE DEF pushed
<1>5. taken = 0
  <2>1. Len(pushed.spare) \in Nat
    BY <1>4, QueueParts
  <2> QED
    BY <2>1, MinOfTwo DEF Shown
<1>6. further = <<>> /\ further \in Seq(Finished) /\ Len(further) = 0
  <2> HIDE DEF taken
  <2>1. further = <<>>
    BY <1>5
  <2> HIDE DEF further
  <2> QED
    BY <2>1
<1>7. queue = [pushed EXCEPT !.done = Besides(done, n + 1, further),
                 !.showing = IF @ >= at THEN @ + taken ELSE @,
                 !.spare = SubSeq(@, 1, left)]
  BY <1>4 DEF LandSets
<1> DEFINE all == Besides(done, n + 1, further)
<1>8. /\ all \in Seq(Finished) /\ Len(all) = n /\ all[n] = done[n]
  <2> HIDE DEF n
  <2>1. n + 1 \in 1..Len(done) + 1 /\ n \in 1..Len(done)
    BY <1>3 DEF n
  <2> HIDE DEF further
  <2>2. all = Besides(done, n + 1, <<>>)
    BY <1>6
  <2> HIDE DEF all, done
  <2> QED
    BY <1>3, <2>1, <2>2, BesidesNothing DEF n
<1> HIDE DEF all, taken, left, further, at, n
<1>9. queue.done = all /\ DOMAIN queue = {"remaining", "done", "showing", "awaiting", "spare"}
  BY <1>4, <1>7 DEF Queue, all
<1> HIDE DEF queue
<1>10. moved.done = all
  BY <1>9
<1> HIDE DEF moved
<1>11. Advanced(tb, 1).queue = moved
  <2> DEFINE with == [tb EXCEPT !.queue = moved]
  <2>1. Advanced(tb, 1) = WithSets(with, tb.ran, tb.queue)
    BY DEF Advanced, moved, queue, at, pushed, done, entry
  <2>2. with.queue = moved /\ {"queue", "rows"} \subseteq DOMAIN with
    BY DEF Tab
  <2> HIDE DEF with
  <2>3. WithSets(with, tb.ran, tb.queue).queue = with.queue
    BY <2>2 DEF WithSets
  <2> QED
    BY <2>1, <2>2, <2>3
<1>12. all # <<>> /\ Last(all) = all[n]
  BY <1>3, <1>8 DEF Last
<1> QED
  BY <1>2, <1>3, <1>8, <1>10, <1>11, <1>12 DEF LastFailed

\* A statement of the queue back: the next goes out or is parked, or the user
\* is asked, or the queue is done.
LEMMA AdvanceQueuePlaced ==
  ASSUME NEW s \in Session, NEW p \in Profiles, NEW t \in Tabs, NEW sets \in Nat \ {0},
         ~Busy(s, p, t), s.failure[p] = {}, s.tab[p][t].queue.awaiting,
         s.tab[p][t].ran # Batch, AllNamed(s.tab[p][t].queue.done), Aside(s, p),
         s.tab[p][t].queue.remaining # <<>> => s.conn[p] = "Connected",
         s.tab[p][t].state.kind = "Failed" => sets = 1
  PROVE  Placed(AdvanceQueue(s, p, t, sets), p, t)
<1> DEFINE tb == s.tab[p][t]
           following == tb.queue.showing > Len(tb.queue.done)
           entry == [start |-> tb.ran, set |-> 1, state |-> tb.state, grid |-> tb.grid]
           pushed == [tb.queue EXCEPT !.awaiting = FALSE, !.done = Append(@, entry)]
           queue == LandSets(pushed, Len(pushed.done) + 1, tb.ran, sets)
           moved == [queue EXCEPT !.showing = IF following THEN Len(queue.done) ELSE @]
           landed == Advanced(tb, sets)
           next == QueueLanded(s, p, t, sets)
           step == NextStep(tb.state.kind = "Failed", moved.remaining)
           sent == SendNextStatement(next, p, t)
           asked == [next EXCEPT !.failure[p] = {t}]
           gone == [next EXCEPT !.tab[p][t].queue = NoQueue]
           r == AdvanceQueue(s, p, t, sets)
<1>1. tb \in Tab /\ tb.queue \in Queue /\ ~IsRunning(tb.state)
  BY SessionParts, TabParts DEF Busy
<1>2. landed.queue = moved
  <2> DEFINE with == [tb EXCEPT !.queue = moved]
  <2>1. landed = WithSets(with, tb.ran, tb.queue)
    BY DEF Advanced
  <2>2. with.queue = moved /\ {"queue", "rows"} \subseteq DOMAIN with
    <3> HIDE DEF moved, tb
    <3> QED
      BY <1>1 DEF Tab
  <2> HIDE DEF with
  <2>3. WithSets(with, tb.ran, tb.queue).queue = with.queue
    BY <2>2 DEF WithSets
  <2> QED
    BY <2>1, <2>2, <2>3
<1>3. r = CASE step = "Next" -> sent
            [] step = "Ask" -> asked
            [] step = "Finished" -> IF Len(moved.done) < 2 THEN gone ELSE next
  BY Zenon DEF AdvanceQueue, Advanced, QueueLanded, Awaits
<1> HIDE DEF moved
<1>4. /\ landed \in Tab /\ landed.state = tb.state
      /\ landed.queue.remaining = tb.queue.remaining /\ ~landed.queue.awaiting
      /\ AllNamed(landed.queue.done)
  <2> DEFINE done == Append(tb.queue.done, entry)
  <2>1. /\ landed.state = tb.state /\ landed.queue.remaining = tb.queue.remaining
        /\ ~landed.queue.awaiting /\ landed \in Tab
        /\ \E f : Widens(done, landed.queue.done, tb.ran, f)
    <3> HIDE DEF tb
    <3> QED
      BY <1>1, AdvancedType, AdvancedParts
  <2>2. AllNamed(done)
    <3>1. tb.queue.done \in Seq(Finished) /\ entry \in Finished
      BY <1>1, TabParts, QueueParts DEF Finished
    <3>2. entry.start # Batch
      OBVIOUS
    <3>3. AllNamed(tb.queue.done)
      OBVIOUS
    <3> HIDE DEF tb, entry
    <3> QED
      BY <3>1, <3>2, <3>3, AppendProperties, LenProperties DEF AllNamed
  <2> HIDE DEF done, landed
  <2> QED
    BY <2>1, <2>2, WidensNamed
<1>5. step = IF tb.queue.remaining = <<>> THEN "Finished"
             ELSE IF tb.state.kind = "Failed" THEN "Ask" ELSE "Next"
  BY <1>2, <1>4 DEF NextStep
<1>6. next = [s EXCEPT !.tab[p][t] = landed]
  BY DEF QueueLanded
<1> HIDE DEF step, sent, asked, gone, landed, next, r
<1>7. /\ next \in Session /\ next.tab[p][t] = landed
      /\ next.conn = s.conn /\ next.failure = s.failure /\ Aside(next, p)
  <2> DEFINE v == [s EXCEPT !.tab[p][t] = landed]
  <2>1. v \in Session /\ v.tab[p][t] = landed
    BY <1>4, TabReplaced
  <2>2. v.conn = s.conn /\ v.failure = s.failure /\ v.prompt = s.prompt
    BY DEF Session
  <2> HIDE DEF v
  <2> QED
    BY <1>6, <2>1, <2>2 DEF v, Aside
<1>8. CASE tb.queue.remaining = <<>>
  <2>1. AtRest(next, p, t)
    BY <1>4, <1>7, <1>8 DEF AtRest, Rests, Rested
  <2>2. AtRest(gone, p, t)
    BY <1>7, <2>1, NothingNamed, QueueRests DEF gone
  <2> QED
    BY <1>3, <1>5, <1>8, <2>1, <2>2, AtRestPlaced DEF r
<1>9. CASE tb.queue.remaining # <<>> /\ tb.state.kind = "Failed"
  <2>1. r = asked
    BY <1>3, <1>5, <1>9
  <2>2. asked.tab = next.tab /\ asked.failure[p] = {t} /\ Aside(asked, p)
    BY <1>7 DEF asked, Session, Aside
  <2>3. LastFailed(landed.queue.done)
    BY <1>1, <1>9, LastIsFailure DEF landed
  <2>4. IsStopped(asked, p, t)
    BY <1>1, <1>4, <1>7, <1>9, <2>2, <2>3 DEF IsStopped
  <2> QED
    BY <1>4, <1>7, <2>1, <2>2, <2>4 DEF Placed, r
<1>10. CASE tb.queue.remaining # <<>> /\ tb.state.kind # "Failed"
  <2>1. r = sent
    BY <1>3, <1>5, <1>10
  <2>2. ~Busy(next, p, t) /\ next.failure[p] = {} /\ next.conn[p] = "Connected"
    BY <1>1, <1>4, <1>7, <1>10 DEF Busy
  <2> QED
    BY <1>4, <1>7, <1>10, <2>1, <2>2, SendNextPlaced DEF r, sent
<1> QED
  BY <1>8, <1>9, <1>10

-----------------------------------------------------------------------------
(* What leaves a queue at rest.                                            *)

LEMMA StartLanesRests ==
  ASSUME NEW s \in Session, NEW p \in Profiles, NEW t \in Tabs, NEW at, AtRest(s, p, t)
  PROVE  AtRest(StartLanes(s, p, t, at), p, t)
<1> DEFINE tb == s.tab[p][t]
           run == FreshRuns(s, Cardinality(at))
           runOf(i) == run[Cardinality({j \in at : j <= i})]
           grids == {tb.queue.done[i].grid : i \in at}
           lane(i) == [id |-> runOf(i), profile |-> p, tab |-> t, live |-> TRUE,
                       lane |-> tb.state.run,
                       job |-> Ask(tb.queue.done[i].start, Batch),
                       grid |-> tb.queue.done[i].grid]
           done == [i \in DOMAIN tb.queue.done |->
                      IF i \in at
                      THEN [tb.queue.done[i] EXCEPT !.state = Running(runOf(i))]
                      ELSE tb.queue.done[i]]
           rows == [g \in Grids |-> IF g \in grids THEN Empty ELSE tb.rows[g]]
           started == [tb EXCEPT !.queue.done = done, !.rows = rows]
           more == {lane(i) : i \in at}
           r == [s EXCEPT !.tab[p][t] = started, !.tasks = @ \cup more]
<1>1. StartLanes(s, p, t, at) = r
  BY DEF StartLanes
<1>2. tb \in Tab /\ tb.queue \in Queue /\ Rested(tb.queue) /\ AllNamed(tb.queue.done)
  BY SessionParts, TabParts DEF AtRest, Rests
<1>3. AllNamed(done)
  <2>1. \A i \in DOMAIN tb.queue.done : tb.queue.done[i] \in Finished
    BY <1>2, QueueParts
  <2> HIDE DEF tb, runOf
  <2> QED
    BY <1>2, <2>1 DEF AllNamed, Finished
<1>4. Rested(started.queue) /\ AllNamed(started.queue.done)
  <2> HIDE DEF tb, done, rows
  <2>1. started.queue = [tb.queue EXCEPT !.done = done]
    BY <1>2 DEF Tab
  <2> HIDE DEF started
  <2> QED
    BY <1>2, <1>3, <2>1 DEF Rested, Queue
<1> HIDE DEF started, more
<1>5. r.tab[p][t] = started /\ r.failure = s.failure
  BY DEF Session
<1> HIDE DEF r
<1>6. AtRest(r, p, t)
  BY <1>4, <1>5, SameRests
<1> QED
  BY <1>1, <1>6

LEMMA HandBackRests ==
  ASSUME NEW tb \in Tab, Rested(tb.queue), AllNamed(tb.queue.done), ~AtOnce(tb.queue)
  PROVE  Rested(HandBack(tb).queue) /\ AllNamed(HandBack(tb).queue.done)
BY HandBackParts, NothingNamed

LEMMA FailLanesRests ==
  ASSUME NEW s \in Session, NEW p \in Profiles, NEW t \in Tabs, AtRest(s, p, t)
  PROVE  AtRest(FailLanes(s, p, t), p, t)
<1> DEFINE tb == s.tab[p][t]
           done == [i \in DOMAIN tb.queue.done |->
                      IF tb.queue.done[i].state.kind = "Idle"
                      THEN [tb.queue.done[i] EXCEPT !.state = Ended("Failed")]
                      ELSE tb.queue.done[i]]
           failed == LanesFailed(tb)
           left == IF AtOnce(failed.queue) THEN failed ELSE HandBack(failed)
<1>1. /\ tb \in Tab /\ tb.queue \in Queue /\ Rested(tb.queue)
      /\ AllNamed(tb.queue.done) /\ failed \in Tab
  BY SessionParts, TabParts, LanesFailedType DEF AtRest, Rests
<1>2. failed = [tb EXCEPT !.queue.done = done]
  <2> HIDE DEF tb
  <2> QED
    BY <1>1 DEF LanesFailed, Tab, Queue
<1>3. AllNamed(done)
  <2>1. \A i \in DOMAIN tb.queue.done : tb.queue.done[i] \in Finished
    BY <1>1, QueueParts
  <2> HIDE DEF tb
  <2> QED
    BY <1>1, <2>1 DEF AllNamed, Finished
<1>4. Rested(failed.queue) /\ AllNamed(failed.queue.done)
  <2> HIDE DEF failed, tb, done
  <2>1. failed.queue = [tb.queue EXCEPT !.done = done]
    BY <1>1, <1>2 DEF Tab
  <2> QED
    BY <1>1, <1>3, <2>1 DEF Rested, Queue
<1>5. Rested(left.queue) /\ AllNamed(left.queue.done)
  <2> HIDE DEF failed
  <2> QED
    BY <1>1, <1>4, HandBackRests
<1>6. FailLanes(s, p, t) = [s EXCEPT !.tab[p][t] = left]
  BY DEF FailLanes, LanesFailed
<1> HIDE DEF left
<1> QED
  BY <1>5, <1>6, TabRests

LEMMA StartWaitingRests ==
  ASSUME NEW s \in Session, NEW p \in Profiles, NEW t \in Tabs, NEW n, AtRest(s, p, t)
  PROVE  AtRest(StartWaiting(s, p, t, n), p, t)
BY StartLanesRests, FailLanesRests DEF StartWaiting

LEMMA LandLaneRests ==
  ASSUME NEW s \in Session, NEW p \in Profiles, NEW t \in Tabs,
         NEW start \in Sent, NEW sets \in Nat \ {0}, AtRest(s, p, t), start # Batch
  PROVE  AtRest(LandLane(s, p, t, start, sets), p, t)
<1> DEFINE tb == s.tab[p][t]
           at == Lane(tb.queue, start) + 1
           queue == LandSets(tb.queue, at, start, sets)
           moved == [tb EXCEPT !.queue = queue]
           landed == LaneLanded(tb, start, sets)
           r == [s EXCEPT !.tab[p][t] = landed]
<1>1. /\ tb \in Tab /\ landed \in Tab /\ tb.queue \in Queue
      /\ Rested(tb.queue) /\ AllNamed(tb.queue.done)
  BY SessionParts, LaneLandedType, TabParts DEF AtRest, Rests
<1>2. landed = WithSets(moved, start, tb.queue)
  BY DEF LaneLanded
<1>3. at \in 1..Len(tb.queue.done) + 1
  <2> DEFINE lane == Lane(tb.queue, start)
             len == Len(tb.queue.done)
  <2>1. lane \in Nat /\ len \in Nat /\ lane <= len
    BY <1>1, LaneType, QueueParts
  <2> HIDE DEF lane, len
  <2>2. lane + 1 \in 1..len + 1
    BY <2>1
  <2> QED
    BY <2>2 DEF lane, len
<1> HIDE DEF tb, at
<1>4. queue \in Queue /\ Rested(queue) /\ AllNamed(queue.done)
  <2>1. /\ queue \in Queue /\ queue.remaining = tb.queue.remaining
        /\ queue.awaiting = tb.queue.awaiting
        /\ \E f : Widens(tb.queue.done, queue.done, start, f)
    BY <1>1, <1>3, LandSetsType, LandSetsParts
  <2> HIDE DEF queue
  <2> QED
    BY <1>1, <2>1, WidensNamed DEF Rested
<1> HIDE DEF queue
<1>5. moved \in Tab /\ moved.queue = queue
  BY <1>1, <1>4 DEF Tab
<1> HIDE DEF moved, landed
<1>6. landed.queue = queue
  BY <1>2, <1>5, WithSetsRest
<1>7. r \in Session /\ AtRest(r, p, t)
  BY <1>1, <1>4, <1>6, TabReplaced, TabRests
<1>8. ~AtOnce(queue) => AtRest([s EXCEPT !.tab[p][t] = HandBack(landed)], p, t)
  <2> DEFINE back == HandBack(landed)
  <2>1. ~AtOnce(queue) => Rested(back.queue) /\ AllNamed(back.queue.done)
    BY <1>1, <1>4, <1>6, HandBackRests
  <2> HIDE DEF back
  <2> QED
    BY <2>1, TabRests DEF back
<1>9. /\ AtOnce(queue) => LandLane(s, p, t, start, sets) = StartWaiting(r, p, t, 1)
      /\ ~AtOnce(queue) =>
           LandLane(s, p, t, start, sets) = [s EXCEPT !.tab[p][t] = HandBack(landed)]
  BY DEF LandLane, LaneLanded, queue, landed, tb, at
<1> HIDE DEF r
<1> QED
  BY <1>7, <1>8, <1>9, StartWaitingRests

\* What a queue has left to send is dropped.
LEMMA DropRestParts ==
  ASSUME NEW s \in Session, NEW p \in Profiles, NEW t \in Tabs,
         AllNamed(s.tab[p][t].queue.done)
  PROVE  LET r == DropRestOfQueue(s, p, t)
             tb == r.tab[p][t]
         IN  /\ tb.queue.remaining = <<>> /\ tb.queue.awaiting = s.tab[p][t].queue.awaiting
             /\ AllNamed(tb.queue.done) /\ tb.state = s.tab[p][t].state
             /\ tb.ran = s.tab[p][t].ran /\ r.failure[p] = s.failure[p] \ {t}
             /\ r.tasks = s.tasks /\ r.conn = s.conn /\ r.prompt = s.prompt
<1> DEFINE tb == s.tab[p][t]
           asked == s.failure[p] \ {t}
           done == Kept(tb.queue.done, DOMAIN tb.queue.done \ WaitingIn(tb.queue.done))
           queue == [tb.queue EXCEPT !.remaining = <<>>, !.done = done]
           left == [tb EXCEPT !.queue = queue]
           r == [s EXCEPT !.failure[p] = asked, !.tab[p][t] = left]
<1>1. tb \in Tab /\ tb.queue \in Queue /\ AllNamed(tb.queue.done)
  BY SessionParts, TabParts
<1>2. AllNamed(done)
  <2> HIDE DEF tb
  <2> QED
    BY <1>1, KeptNamed
<1>3. /\ queue.remaining = <<>> /\ queue.awaiting = tb.queue.awaiting /\ queue.done = done
  <2> HIDE DEF done, tb
  <2> QED
    BY <1>1 DEF Queue
<1>4. left.queue = queue /\ left.state = tb.state /\ left.ran = tb.ran
  <2> HIDE DEF queue, tb
  <2> QED
    BY <1>1 DEF Tab
<1>5. DropRestOfQueue(s, p, t) = r
  <2>1. DropRestOfQueue(s, p, t) = [s EXCEPT !.failure[p] = asked, !.tab[p][t].queue = queue]
    BY DEF DropRestOfQueue
  <2> HIDE DEF asked, queue
  <2> QED
    BY <2>1 DEF Session
<1> HIDE DEF left, queue, done
<1>6. /\ r.tab[p][t] = left /\ r.failure[p] = asked
      /\ r.tasks = s.tasks /\ r.conn = s.conn /\ r.prompt = s.prompt
  BY DEF Session
<1> HIDE DEF r
<1> QED
  BY <1>2, <1>3, <1>4, <1>5, <1>6

LEMMA StopQueueOnRests ==
  ASSUME NEW s \in Session, NEW p \in Profiles, NEW t \in Tabs,
         AllNamed(s.tab[p][t].queue.done), s.failure[p] \subseteq {t}
  PROVE  AtRest(StopQueueOn(s, p, t), p, t)
<1> DEFINE r == DropRestOfQueue(s, p, t)
           queue == r.tab[p][t].queue
           let == [queue EXCEPT !.awaiting = FALSE]
<1>1. /\ r \in Session /\ queue.remaining = <<>> /\ AllNamed(queue.done)
      /\ r.failure[p] = {}
  BY DropRestParts, DropRestOfQueueType
<1> HIDE DEF r
<1>2. queue \in Queue
  BY <1>1, SessionParts, TabParts
<1>3. CASE queue.awaiting
  <2>1. /\ let \in Queue /\ let.remaining = <<>> /\ let.awaiting = FALSE
        /\ let.done = queue.done
    <3> HIDE DEF queue
    <3> QED
      BY <1>1, <1>2 DEF Queue
  <2> HIDE DEF let
  <2> DEFINE last == Clamped(let)
  <2>2. Rested(last) /\ AllNamed(last.done)
    BY <1>1, <2>1, ClampedRest DEF Rested
  <2> HIDE DEF last
  <2> DEFINE tb == [r.tab[p][t] EXCEPT !.queue = last]
             q == [r EXCEPT !.tab[p][t] = tb]
  <2>3. tb.queue = last
    BY <1>1, SessionParts DEF Tab
  <2>4. ReleaseQueue(r, p, t) = [r EXCEPT !.tab[p][t].queue = last]
    BY <1>3 DEF ReleaseQueue, last, let
  <2>5. [r EXCEPT !.tab[p][t].queue = last] = q
    BY <1>1 DEF Session
  <2> HIDE DEF tb
  <2>6. q.tab[p][t] = tb /\ q.failure = r.failure
    BY <1>1 DEF Session
  <2> HIDE DEF q
  <2>7. AtRest(q, p, t)
    BY <1>1, <2>2, <2>3, <2>6 DEF AtRest, Rests
  <2> QED
    BY <2>4, <2>5, <2>7 DEF StopQueueOn, r
<1>4. CASE ~queue.awaiting
  <2>1. ReleaseQueue(r, p, t) = r
    BY <1>4 DEF ReleaseQueue
  <2>2. AtRest(r, p, t)
    BY <1>1, <1>4 DEF AtRest, Rests, Rested
  <2> QED
    BY <2>1, <2>2 DEF StopQueueOn, r
<1> QED
  BY <1>3, <1>4

LEMMA GiveBackRests ==
  ASSUME NEW tb, {"lent", "grid", "state", "queue"} \subseteq DOMAIN tb, tb.queue \in Queue,
         Rested(tb.queue), AllNamed(tb.queue.done)
  PROVE  Rested(GiveBack(tb).queue) /\ AllNamed(GiveBack(tb).queue.done)
<1>1. CASE tb.lent = NoLoan
  BY <1>1 DEF GiveBack
<1>2. CASE tb.lent # NoLoan
  <2> DEFINE left == IF Out(tb.state) THEN Ended("Failed") ELSE tb.state
             done == [i \in DOMAIN tb.queue.done |->
                        IF SlotEntry(tb) # {} /\ i = Min(SlotEntry(tb))
                        THEN [tb.queue.done[i] EXCEPT !.state = left] ELSE tb.queue.done[i]]
             queue == [tb.queue EXCEPT !.done = done]
  <2>1. AllNamed(done)
    <3>1. \A i \in DOMAIN tb.queue.done : tb.queue.done[i] \in Finished
      BY QueueParts
    <3> HIDE DEF left
    <3> QED
      BY <3>1 DEF AllNamed, Finished
  <2>2. GiveBack(tb).queue = queue
    BY <1>2 DEF GiveBack
  <2> HIDE DEF done
  <2>3. Rested(queue) /\ queue.done = done
    BY DEF Rested, Queue
  <2> QED
    BY <2>1, <2>2, <2>3
<1> QED
  BY <1>1, <1>2

LEMMA GivenBackRests ==
  ASSUME NEW s \in Session, NEW p \in Profiles, NEW t \in Tabs, AtRest(s, p, t)
  PROVE  AtRest([s EXCEPT !.tab[p][t] = GiveBack(@)], p, t)
<1> DEFINE tb == s.tab[p][t]
           back == GiveBack(tb)
<1>1. /\ {"lent", "grid", "state", "queue"} \subseteq DOMAIN tb /\ tb.queue \in Queue
      /\ Rested(tb.queue) /\ AllNamed(tb.queue.done)
  <2>1. tb \in Tab
    BY SessionParts
  <2> QED
    BY <2>1, TabParts DEF AtRest, Rests, Tab
<1>2. [s EXCEPT !.tab[p][t] = GiveBack(@)] = [s EXCEPT !.tab[p][t] = back]
  OBVIOUS
<1> HIDE DEF tb
<1>3. Rested(back.queue) /\ AllNamed(back.queue.done)
  BY <1>1, GiveBackRests
<1> HIDE DEF back
<1> QED
  BY <1>2, <1>3, TabRests

LEMMA FollowUpRests ==
  ASSUME NEW s \in Session, NEW p \in Profiles, NEW t \in Tabs, NEW job \in Job,
         NEW succeeded \in BOOLEAN, AtRest(s, p, t)
  PROVE  AtRest(FollowUp(s, p, t, job, succeeded), p, t)
<1> DEFINE back == [s EXCEPT !.tab[p][t] = GiveBack(@)]
           following == [Ask(job.then, Batch) EXCEPT !.refresh = "Return"]
           again == ExecuteAndThen(s, p, t, following)
           over == [again EXCEPT !.tab[p][t] = GiveBack(@)]
           plain == ExecuteAndThen(s, p, t, Ask(job.then, Batch))
<1>1. Ask(job.then, Batch) \in Job
  BY AskType DEF Job, Sent
<1>2. following \in Job
  BY <1>1 DEF Job, Refreshes
<1>3. AtRest(back, p, t) /\ AtRest(plain, p, t)
  BY <1>1, GivenBackRests, ExecuteAndThenRests
<1>4. again \in Session /\ AtRest(again, p, t)
  <2> HIDE DEF following
  <2> QED
    BY <1>2, ExecuteAndThenType, ExecuteAndThenRests
<1>5. AtRest(over, p, t)
  <2> HIDE DEF again
  <2> QED
    BY <1>4, GivenBackRests
<1>6. FollowUp(s, p, t, job, succeeded) \in {s, back, plain, again, over}
  <2>1. FollowUp(s, p, t, job, succeeded) =
          IF job.refresh = "None" THEN s
          ELSE IF job.refresh = "Return" THEN back
          ELSE IF ~succeeded THEN IF job.refresh = "Earlier" THEN back ELSE s
          ELSE IF front # p THEN back
          ELSE IF job.refresh = "Statement" THEN plain
          ELSE IF Busy(again, p, t) THEN again ELSE over
    BY Zenon DEF FollowUp
  <2> HIDE DEF back, plain, again, over
  <2> QED
    BY <2>1
<1> HIDE DEF back, plain, again, over
<1> QED
  BY <1>3, <1>4, <1>5, <1>6

\* A statement left behind by its connection comes back: the queue that waits
\* for it is let go of.
LEMMA DropStaleRunRests ==
  ASSUME NEW s \in Session, NEW task \in Task, NEW p, NEW t,
         p = task.profile, t = task.tab,
         AllNamed(s.tab[p][t].queue.done), s.failure[p] = {},
         \/ Rested(s.tab[p][t].queue)
         \/ task.lane = NoRun /\ s.tab[p][t].queue.awaiting
  PROVE  AtRest(DropStaleRun(s, task), p, t)
<1> DEFINE tb == s.tab[p][t]
           lane == task.lane # NoRun
           pruned == IF lane THEN PrunedOf(tb.queue, task.job.start) ELSE tb.queue
           idled == IdledOf(tb, pruned)
           fewer == [s EXCEPT !.tab[p][t].queue = pruned]
           back == [s EXCEPT !.tab[p][t] = GiveBack(idled)]
<1>1. p \in Profiles /\ t \in Tabs
  BY DEF Task
<1>2. tb \in Tab /\ tb.queue \in Queue /\ AllNamed(tb.queue.done)
      /\ (Rested(tb.queue) \/ (~lane /\ tb.queue.awaiting))
  BY <1>1, SessionParts, TabParts
<1>3. \/ lane /\ DropStaleRun(s, task) \in {s, fewer}
      \/ DropStaleRun(s, task) = back
  BY Zenon DEF DropStaleRun, PrunedOf, IdledOf
<1> HIDE DEF lane
<1>4. pruned \in Queue /\ AllNamed(pruned.done)
      /\ pruned.remaining = tb.queue.remaining /\ pruned.awaiting = tb.queue.awaiting
  <2> DEFINE at == DOMAIN tb.queue.done \ (EntriesOf(tb.queue.done, task.job.start)
                                             \cup WaitingIn(tb.queue.done))
             kept == Kept(tb.queue.done, at)
             left == [tb.queue EXCEPT !.done = kept]
  <2>1. kept \in Seq(Finished) /\ AllNamed(kept)
    <3> HIDE DEF tb
    <3>1. at \in SUBSET DOMAIN tb.queue.done
      OBVIOUS
    <3> HIDE DEF at
    <3> QED
      BY <1>2, <3>1, KeptType, KeptNamed
  <2>2. /\ left \in Queue /\ left.remaining = tb.queue.remaining
        /\ left.awaiting = tb.queue.awaiting /\ left.done = kept
    <3> HIDE DEF kept, tb
    <3> QED
      BY <1>2, <2>1 DEF Queue
  <2>3. PrunedOf(tb.queue, task.job.start) = Clamped(left)
    BY DEF PrunedOf
  <2> HIDE DEF left, tb, kept
  <2>4. /\ Clamped(left).remaining = left.remaining /\ Clamped(left).done = left.done
        /\ Clamped(left).awaiting = left.awaiting /\ Clamped(left) \in Queue
    BY <2>2, ClampedRest, ClampedType
  <2> QED
    BY <1>2, <2>1, <2>2, <2>3, <2>4
<1>5. /\ {"lent", "grid", "state", "queue"} \subseteq DOMAIN idled /\ idled.queue \in Queue
      /\ Rested(idled.queue) /\ AllNamed(idled.queue.done)
  <2> HIDE DEF pruned, tb
  <2> DEFINE ended == [pruned EXCEPT !.awaiting = FALSE, !.remaining = <<>>]
             released == IF pruned.awaiting THEN Clamped(ended) ELSE pruned
  <2>1. ended \in Queue /\ Rested(ended) /\ ended.done = pruned.done
    BY <1>4, EmptySeq DEF Queue, Rested
  <2> HIDE DEF ended
  <2>2. released \in Queue /\ Rested(released) /\ AllNamed(released.done)
    BY <1>2, <1>4, <2>1, ClampedRest, ClampedType DEF Rested
  <2>3. {"lent", "grid", "state", "queue"} \subseteq DOMAIN idled /\ idled.queue = released
    <3> HIDE DEF released
    <3>1. idled = [tb EXCEPT !.queue = released,
                             !.state = IF IsRunning(@) THEN Ended("Idle") ELSE @,
                             !.rows[tb.grid] = IF @.how = "arriving" THEN Empty ELSE @]
      BY DEF IdledOf, released, ended
    <3> QED
      BY <1>2, <3>1 DEF Tab
  <2> QED
    BY <2>2, <2>3
<1>6. AtRest(back, p, t)
  <2> HIDE DEF idled, tb
  <2> DEFINE given == GiveBack(idled)
  <2>1. Rested(given.queue) /\ AllNamed(given.queue.done)
    BY <1>5, GiveBackRests
  <2> HIDE DEF given
  <2>2. back.tab[p][t] = given /\ back.failure = s.failure
    BY <1>1 DEF Session, given
  <2> HIDE DEF back
  <2> QED
    BY <2>1, <2>2 DEF AtRest, Rests
<1>7. lane => AtRest(s, p, t) /\ AtRest(fewer, p, t)
  <2>1. lane => AtRest(s, p, t)
    BY <1>2 DEF AtRest, Rests
  <2>2. Rested(tb.queue) => Rested(pruned)
    BY <1>4 DEF Rested
  <2> HIDE DEF pruned
  <2> QED
    BY <1>1, <1>2, <1>4, <2>1, <2>2, QueueRests
<1> HIDE DEF fewer, back
<1> QED
  BY <1>3, <1>6, <1>7

-----------------------------------------------------------------------------
(* What is out and still answered for is on a connection that is open: a   *)
(* queue is not advanced over one that is not.                             *)

Linked(s) == \A u \in s.tasks : u.live => s.conn[u.profile] = "Connected"

LEMMA SameLinked ==
  ASSUME NEW s, NEW r, Linked(s), r.tasks \subseteq s.tasks, r.conn = s.conn
  PROVE  Linked(r)
BY DEF Linked

LEMMA MoreLinked ==
  ASSUME NEW s, NEW r, NEW p, Linked(s), r.conn = s.conn, s.conn[p] = "Connected",
         \A u \in r.tasks \ s.tasks : u.profile = p
  PROVE  Linked(r)
BY DEF Linked

LEMMA TabLinked ==
  ASSUME NEW s \in Session, NEW p, NEW t, NEW tb, Linked(s)
  PROVE  Linked([s EXCEPT !.tab[p][t] = tb])
<1>1. /\ [s EXCEPT !.tab[p][t] = tb].tasks = s.tasks
      /\ [s EXCEPT !.tab[p][t] = tb].conn = s.conn
  BY DEF Session
<1> QED
  BY <1>1 DEF Linked

LEMMA ExecuteUncheckedLinked ==
  ASSUME NEW s \in Session, NEW p \in Profiles, NEW t \in Tabs, NEW job \in Job, Linked(s)
  PROVE  Linked(ExecuteUnchecked(s, p, t, job))
<1>1. /\ [s EXCEPT !.tab[p][t].state = Ended("Failed")].tasks = s.tasks
      /\ [s EXCEPT !.tab[p][t].state = Ended("Failed")].conn = s.conn
  BY DEF Session
<1>2. Linked([s EXCEPT !.tab[p][t].state = Ended("Failed")])
  BY <1>1 DEF Linked
<1>3. s.conn[p] = "Connected" => Linked(Send(s, p, t, job))
  BY SendParts, MoreLinked
<1> QED
  BY <1>2, <1>3 DEF ExecuteUnchecked

LEMMA ExecuteAndThenLinked ==
  ASSUME NEW s \in Session, NEW p \in Profiles, NEW t \in Tabs, NEW job \in Job, Linked(s)
  PROVE  Linked(ExecuteAndThen(s, p, t, job))
<1>1. /\ [s EXCEPT !.prompt[p] = {[tab |-> t, job |-> job]}].tasks = s.tasks
      /\ [s EXCEPT !.prompt[p] = {[tab |-> t, job |-> job]}].conn = s.conn
  BY DEF Session
<1>2. Linked([s EXCEPT !.prompt[p] = {[tab |-> t, job |-> job]}])
  BY <1>1 DEF Linked
<1> QED
  BY <1>2, ExecuteUncheckedLinked DEF ExecuteAndThen

LEMMA StartWaitingLinked ==
  ASSUME NEW s \in Session, NEW p \in Profiles, NEW t \in Tabs, NEW n, Linked(s)
  PROVE  Linked(StartWaiting(s, p, t, n))
<1>1. Linked(FailLanes(s, p, t))
  <2>1. FailLanes(s, p, t).tasks = s.tasks /\ FailLanes(s, p, t).conn = s.conn
    BY DEF FailLanes, Session
  <2> QED
    BY <2>1, SameLinked
<1>2. ASSUME NEW at, s.conn[p] = "Connected"
      PROVE  Linked(StartLanes(s, p, t, at))
  <2> DEFINE tb == s.tab[p][t]
             run == FreshRuns(s, Cardinality(at))
             runOf(i) == run[Cardinality({j \in at : j <= i})]
             lane(i) == [id |-> runOf(i), profile |-> p, tab |-> t, live |-> TRUE,
                         lane |-> tb.state.run,
                         job |-> Ask(tb.queue.done[i].start, Batch),
                         grid |-> tb.queue.done[i].grid]
  <2>1. \A i \in at : lane(i).profile = p
    OBVIOUS
  <2>2. /\ StartLanes(s, p, t, at).tasks = s.tasks \cup {lane(i) : i \in at}
        /\ StartLanes(s, p, t, at).conn = s.conn
    BY DEF StartLanes, Session
  <2> HIDE DEF lane
  <2>3. \A u \in {lane(i) : i \in at} : u.profile = p
    BY <2>1
  <2> QED
    BY <1>2, <2>2, <2>3, MoreLinked
<1> QED
  BY <1>1, <1>2 DEF StartWaiting

LEMMA LandLaneLinked ==
  ASSUME NEW s \in Session, NEW p \in Profiles, NEW t \in Tabs,
         NEW start \in Sent, NEW sets \in Nat \ {0}, Linked(s)
  PROVE  Linked(LandLane(s, p, t, start, sets))
<1> DEFINE landed == LaneLanded(s.tab[p][t], start, sets)
           r == [s EXCEPT !.tab[p][t] = landed]
           back == [s EXCEPT !.tab[p][t] = HandBack(landed)]
<1>1. landed \in Tab
  BY SessionParts, LaneLandedType
<1>2. LandLane(s, p, t, start, sets) \in {StartWaiting(r, p, t, 1), back}
  BY DEF LandLane, LaneLanded
<1> HIDE DEF landed
<1>3. r \in Session /\ Linked(r) /\ Linked(back)
  BY <1>1, TabReplaced, TabLinked
<1> HIDE DEF r, back
<1> QED
  BY <1>2, <1>3, StartWaitingLinked

LEMMA SendNextLinked ==
  ASSUME NEW s \in Session, NEW p \in Profiles, NEW t \in Tabs, Linked(s)
  PROVE  Linked(SendNextStatement(s, p, t))
<1> DEFINE tb == s.tab[p][t]
           next == tb.queue.remaining[1]
           popped == Popped(tb)
           r == [s EXCEPT !.tab[p][t] = popped]
<1>1. CASE tb.queue.remaining = <<>>
  BY <1>1 DEF SendNextStatement
<1>2. CASE tb.queue.remaining # <<>>
  <2>1. next \in Sent /\ popped \in Tab
    BY <1>2, SessionParts, PoppedType
  <2>2. SendNextStatement(s, p, t) = ExecuteAndThen(r, p, t, Ask(next, next))
    BY <1>2 DEF SendNextStatement, Popped
  <2> HIDE DEF popped, next
  <2>3. r \in Session /\ Linked(r) /\ Ask(next, next) \in Job
    BY <2>1, TabReplaced, TabLinked, AskType
  <2> HIDE DEF r
  <2> QED
    BY <2>2, <2>3, ExecuteAndThenLinked
<1> QED
  BY <1>1, <1>2

LEMMA AdvanceQueueLinked ==
  ASSUME NEW s \in Session, NEW p \in Profiles, NEW t \in Tabs,
         NEW sets \in Nat \ {0}, Linked(s)
  PROVE  Linked(AdvanceQueue(s, p, t, sets))
<1> DEFINE landed == Advanced(s.tab[p][t], sets)
           next == QueueLanded(s, p, t, sets)
           asked == [next EXCEPT !.failure[p] = {t}]
           gone == [next EXCEPT !.tab[p][t].queue = NoQueue]
<1>1. landed \in Tab
  BY SessionParts, AdvancedType
<1>2. next = [s EXCEPT !.tab[p][t] = landed]
  BY DEF QueueLanded
<1>3. AdvanceQueue(s, p, t, sets) \in {s, next, SendNextStatement(next, p, t), asked, gone}
  BY AdvanceQueueForms
<1> HIDE DEF landed, next
<1>4. next \in Session /\ Linked(next)
  BY <1>1, <1>2, TabReplaced, TabLinked
<1>5. /\ asked.tasks = next.tasks /\ asked.conn = next.conn
      /\ gone.tasks = next.tasks /\ gone.conn = next.conn
  BY <1>4 DEF Session
<1>6. Linked(asked) /\ Linked(gone)
  BY <1>4, <1>5 DEF Linked
<1> HIDE DEF asked, gone
<1> QED
  BY <1>3, <1>4, <1>6, SendNextLinked

LEMMA FollowUpLinked ==
  ASSUME NEW s \in Session, NEW p \in Profiles, NEW t \in Tabs, NEW job \in Job,
         NEW succeeded \in BOOLEAN, Linked(s)
  PROVE  Linked(FollowUp(s, p, t, job, succeeded))
<1> DEFINE back == [s EXCEPT !.tab[p][t] = GiveBack(@)]
           following == [Ask(job.then, Batch) EXCEPT !.refresh = "Return"]
           again == ExecuteAndThen(s, p, t, following)
           over == [again EXCEPT !.tab[p][t] = GiveBack(@)]
           plain == ExecuteAndThen(s, p, t, Ask(job.then, Batch))
<1>1. Ask(job.then, Batch) \in Job
  BY AskType DEF Job, Sent
<1>2. following \in Job
  BY <1>1 DEF Job, Refreshes
<1>3. Linked(back) /\ Linked(plain)
  BY <1>1, TabLinked, ExecuteAndThenLinked
<1>4. again \in Session /\ Linked(again)
  <2> HIDE DEF following
  <2> QED
    BY <1>2, ExecuteAndThenType, ExecuteAndThenLinked
<1>5. Linked(over)
  <2> HIDE DEF again
  <2> QED
    BY <1>4, TabLinked
<1>6. FollowUp(s, p, t, job, succeeded) \in {s, back, plain, again, over}
  <2>1. FollowUp(s, p, t, job, succeeded) =
          IF job.refresh = "None" THEN s
          ELSE IF job.refresh = "Return" THEN back
          ELSE IF ~succeeded THEN IF job.refresh = "Earlier" THEN back ELSE s
          ELSE IF front # p THEN back
          ELSE IF job.refresh = "Statement" THEN plain
          ELSE IF Busy(again, p, t) THEN again ELSE over
    BY Zenon DEF FollowUp
  <2> HIDE DEF back, plain, again, over
  <2> QED
    BY <2>1
<1> HIDE DEF back, plain, again, over
<1> QED
  BY <1>3, <1>4, <1>5, <1>6

\* The session a statement is found lost in is down before anything is sent.
LEMMA LandLiveLinked ==
  ASSUME NEW s \in Session, NEW task \in Task, NEW outcome, NEW sets \in Nat \ {0},
         front \in Profiles \cup {NoProfile}, Linked(Heard(s, task, outcome))
  PROVE  Linked(LandLive(s, task, outcome, sets))
<1> DEFINE p == task.profile
           t == task.tab
           heard == Heard(s, task, outcome)
           landed == WrittenIn(heard, task, outcome)
           kind == KindIn(heard, task, outcome)
           rest == IF kind = "Complete" THEN sets ELSE 1
           succeeded == kind # "Failed"
<1>1. /\ p \in Profiles /\ t \in Tabs /\ task.job \in Job /\ task.job.start \in Sent
      /\ heard \in Session /\ rest \in Nat \ {0} /\ Linked(heard) /\ succeeded \in BOOLEAN
  BY HeardType DEF Task, Job
<1>2. CASE ~HasPlace(heard.tab[p][t], task.lane, task.job.start)
  <2>1. LandLive(s, task, outcome, sets) = heard
    BY <1>2, LandLiveForms
  <2> QED
    BY <1>1, <2>1
<1>3. CASE HasPlace(heard.tab[p][t], task.lane, task.job.start)
  <2>1. landed \in Session
    <3> HIDE DEF heard
    <3> QED
      BY <1>1, <1>3, WrittenInType
  <2>2. Linked(landed)
    <3>1. PICK tb : landed = [heard EXCEPT !.tab[p][t] = tb]
      BY DEF WrittenIn
    <3> HIDE DEF heard, landed
    <3> QED
      BY <1>1, <3>1, TabLinked
  <2>3. LandLive(s, task, outcome, sets) =
          IF task.lane # NoRun THEN LandLane(landed, p, t, task.job.start, rest)
          ELSE IF task.job.refresh = "None"
               THEN IF front = NoProfile THEN landed ELSE AdvanceQueue(landed, front, t, rest)
          ELSE FollowUp(landed, p, t, task.job, succeeded)
    BY <1>3, LandLiveForms
  <2> HIDE DEF landed, heard, rest, kind, succeeded, p, t
  <2>4. /\ Linked(LandLane(landed, p, t, task.job.start, rest))
        /\ front # NoProfile => Linked(AdvanceQueue(landed, front, t, rest))
        /\ Linked(FollowUp(landed, p, t, task.job, succeeded))
    BY <1>1, <2>1, <2>2, LandLaneLinked, AdvanceQueueLinked, FollowUpLinked
  <2> QED
    BY <2>2, <2>3, <2>4
<1> QED
  BY <1>2, <1>3

-----------------------------------------------------------------------------
(* What comes back, for a queue in its place.                              *)

\* A session found lost: what the queue has not sent is gone with it.
LEMMA HeardParts ==
  ASSUME NEW s \in Session, NEW task \in Task, NEW outcome
  PROVE  LET heard == Heard(s, task, outcome)
             tb == s.tab[task.profile][task.tab]
             new == heard.tab[task.profile][task.tab]
         IN  /\ new.state = tb.state /\ new.ran = tb.ran
             /\ new.queue.done = tb.queue.done /\ new.queue.awaiting = tb.queue.awaiting
             /\ new.queue.remaining = IF outcome = "Lost" THEN <<>> ELSE tb.queue.remaining
             /\ heard.failure = s.failure /\ heard.prompt = s.prompt
             /\ heard.tasks = s.tasks /\ (outcome # "Lost" => heard = s)
             /\ \A q \in Profiles : heard.conn[q] # s.conn[q] => q = task.profile
<1> DEFINE p == task.profile
           t == task.tab
           queue == [s.tab[p][t].queue EXCEPT !.remaining = <<>>]
           stopped == [s.tab[p][t] EXCEPT !.queue = queue]
           lost == [s EXCEPT !.conn[p] = "Failed", !.tab[p][t].queue.remaining = <<>>]
<1>1. p \in Profiles /\ t \in Tabs
  BY DEF Task
<1>2. s.tab[p][t] \in Tab /\ s.tab[p][t].queue \in Queue
  <2> HIDE DEF p, t
  <2> QED
    BY <1>1, SessionParts, TabParts
<1>3. /\ queue.done = s.tab[p][t].queue.done /\ queue.remaining = <<>>
      /\ queue.awaiting = s.tab[p][t].queue.awaiting
  <2> HIDE DEF p, t
  <2> QED
    BY <1>2 DEF Queue
<1>4. /\ stopped.queue = queue /\ stopped.state = s.tab[p][t].state
      /\ stopped.ran = s.tab[p][t].ran
  <2> HIDE DEF queue, p, t
  <2> QED
    BY <1>2 DEF Tab
<1>5. lost = [s EXCEPT !.conn[p] = "Failed", !.tab[p][t] = stopped]
  <2> HIDE DEF p, t
  <2> QED
    BY <1>1, <1>2 DEF Session, Tab
<1>6. /\ lost.tab[p][t] = stopped /\ lost.failure = s.failure /\ lost.prompt = s.prompt
      /\ lost.tasks = s.tasks
      /\ \A q \in Profiles : lost.conn[q] # s.conn[q] => q = p
  <2> HIDE DEF lost, stopped, p, t
  <2> QED
    BY <1>1, <1>5 DEF Session, ConnStates
<1>7. Heard(s, task, outcome) = IF outcome = "Lost" THEN lost ELSE s
  BY DEF Heard
<1> HIDE DEF lost, stopped, queue, p, t
<1>8. LET heard == Heard(s, task, outcome)
          tb == s.tab[p][t]
          new == heard.tab[p][t]
      IN  /\ new.state = tb.state /\ new.ran = tb.ran
          /\ new.queue.done = tb.queue.done /\ new.queue.awaiting = tb.queue.awaiting
          /\ new.queue.remaining = IF outcome = "Lost" THEN <<>> ELSE tb.queue.remaining
          /\ heard.failure = s.failure /\ heard.prompt = s.prompt
          /\ heard.tasks = s.tasks /\ (outcome # "Lost" => heard = s)
          /\ \A q \in Profiles : heard.conn[q] # s.conn[q] => q = p
  BY <1>3, <1>4, <1>6, <1>7
<1> QED
  BY <1>8 DEF p, t

\* A result written where its run belongs.
LEMMA WrittenInParts ==
  ASSUME NEW s \in Session, NEW task \in Task, NEW outcome,
         HasPlace(s.tab[task.profile][task.tab], task.lane, task.job.start)
  PROVE  LET r == WrittenIn(s, task, outcome)
             tb == s.tab[task.profile][task.tab]
             new == r.tab[task.profile][task.tab]
         IN  /\ r \in Session
             /\ new.queue.awaiting = tb.queue.awaiting
             /\ new.queue.remaining = tb.queue.remaining
             /\ AllNamed(tb.queue.done) => AllNamed(new.queue.done)
             /\ r.failure = s.failure /\ r.prompt = s.prompt /\ r.conn = s.conn
             /\ r.tasks = s.tasks
             /\ task.lane = NoRun => /\ new.state = Ended(KindIn(s, task, outcome))
                                     /\ new.ran = tb.ran
<1> DEFINE p == task.profile
           t == task.tab
           tb == s.tab[p][t]
           kind == KindOf(tb, task, outcome)
           at == Lane(tb.queue, task.job.start)
           stated == WithStateAt(tb, task.lane, task.job.start, Ended(kind))
           r == WrittenIn(s, task, outcome)
<1>1. p \in Profiles /\ t \in Tabs
  BY DEF Task
<1>2. PICK new \in Tab : r = [s EXCEPT !.tab[p][t] = new] /\ Shows(stated, new)
  BY WrittenInRest
<1>3. kind = KindIn(s, task, outcome)
  BY DEF KindIn
<1> HIDE DEF r, kind, p, t
<1>4. tb \in Tab /\ tb.queue \in Queue
  BY <1>1, SessionParts, TabParts
<1> HIDE DEF tb
<1>5. /\ stated.queue.awaiting = tb.queue.awaiting
      /\ stated.queue.remaining = tb.queue.remaining
      /\ AllNamed(tb.queue.done) => AllNamed(stated.queue.done)
      /\ task.lane = NoRun => stated.state = Ended(kind) /\ stated.ran = tb.ran
  <2>1. CASE task.lane = NoRun
    <3>1. stated = [tb EXCEPT !.state = Ended(kind)]
      BY <2>1 DEF WithStateAt
    <3> HIDE DEF stated
    <3> QED
      BY <1>4, <3>1 DEF Tab
  <2>2. CASE task.lane # NoRun
    <3> DEFINE done == [tb.queue.done EXCEPT ![at] = [@ EXCEPT !.state = Ended(kind)]]
    <3>1. stated = [tb EXCEPT !.queue.done[at].state = Ended(kind)]
      BY <2>2 DEF WithStateAt
    <3> HIDE DEF stated, at
    <3>2. /\ stated.queue.awaiting = tb.queue.awaiting
          /\ stated.queue.remaining = tb.queue.remaining
          /\ stated.queue.done = done
      BY <1>4, <3>1 DEF Tab, Queue
    <3>3. DOMAIN done = DOMAIN tb.queue.done
      BY <1>4
    <3>4. ASSUME NEW i \in DOMAIN done PROVE done[i].start = tb.queue.done[i].start
      <4>1. tb.queue.done[i] \in Finished
        BY <1>4, <3>3, <3>4, QueueParts
      <4> QED
        BY <3>3, <3>4, <4>1 DEF Finished
    <3> HIDE DEF done
    <3> QED
      BY <2>2, <3>2, <3>3, <3>4 DEF AllNamed
  <2> QED
    BY <2>1, <2>2
<1> HIDE DEF stated
<1>6. /\ r \in Session /\ r.tab[p][t] = new /\ r.failure = s.failure /\ r.prompt = s.prompt
      /\ r.conn = s.conn /\ r.tasks = s.tasks
  <2>1. r \in Session
    BY <1>1, <1>2, TabReplaced
  <2> QED
    BY <1>1, <1>2, <2>1 DEF Session
<1>7. /\ r \in Session
      /\ r.tab[p][t].queue.awaiting = tb.queue.awaiting
      /\ r.tab[p][t].queue.remaining = tb.queue.remaining
      /\ AllNamed(tb.queue.done) => AllNamed(r.tab[p][t].queue.done)
      /\ r.failure = s.failure /\ r.prompt = s.prompt /\ r.conn = s.conn
      /\ r.tasks = s.tasks
      /\ task.lane = NoRun => /\ r.tab[p][t].state = Ended(KindIn(s, task, outcome))
                              /\ r.tab[p][t].ran = tb.ran
  BY <1>2, <1>3, <1>5, <1>6 DEF Shows
<1> QED
  BY <1>7 DEF r, tb, p, t

LEMMA HeardRests ==
  ASSUME NEW s \in Session, NEW task \in Task, NEW outcome,
         AtRest(s, task.profile, task.tab)
  PROVE  AtRest(Heard(s, task, outcome), task.profile, task.tab)
<1>0. LET heard == Heard(s, task, outcome)
           tb == s.tab[task.profile][task.tab]
           new == heard.tab[task.profile][task.tab]
       IN  /\ new.state = tb.state /\ new.ran = tb.ran
           /\ new.queue.done = tb.queue.done /\ new.queue.awaiting = tb.queue.awaiting
           /\ new.queue.remaining = IF outcome = "Lost" THEN <<>> ELSE tb.queue.remaining
           /\ heard.failure = s.failure /\ heard.prompt = s.prompt
           /\ heard.tasks = s.tasks /\ (outcome # "Lost" => heard = s)
           /\ \A q \in Profiles : heard.conn[q] # s.conn[q] => q = task.profile
  BY HeardParts
<1> DEFINE p == task.profile
           t == task.tab
           heard == Heard(s, task, outcome)
<1>1. /\ heard.tab[p][t].queue.awaiting = s.tab[p][t].queue.awaiting
      /\ heard.tab[p][t].queue.done = s.tab[p][t].queue.done
      /\ heard.failure = s.failure /\ heard.prompt = s.prompt
  BY <1>0
<1>2. heard.tab[p][t].queue.remaining
        = IF outcome = "Lost" THEN <<>> ELSE s.tab[p][t].queue.remaining
  BY <1>0
<1>3. AtRest(s, p, t)
  OBVIOUS
<1> HIDE DEF heard, p, t
<1>4. AtRest(heard, p, t)
  BY <1>1, <1>2, <1>3 DEF Rested, AtRest, Rests
<1> QED
  BY <1>4 DEF heard, p, t

LEMMA WrittenInRests ==
  ASSUME NEW s \in Session, NEW task \in Task, NEW outcome,
         HasPlace(s.tab[task.profile][task.tab], task.lane, task.job.start),
         AtRest(s, task.profile, task.tab)
  PROVE  /\ WrittenIn(s, task, outcome) \in Session
         /\ AtRest(WrittenIn(s, task, outcome), task.profile, task.tab)
         /\ task.lane # NoRun => task.job.start # Batch
<1>0. LET r == WrittenIn(s, task, outcome)
           tb == s.tab[task.profile][task.tab]
           new == r.tab[task.profile][task.tab]
       IN  /\ r \in Session
           /\ new.queue.awaiting = tb.queue.awaiting
           /\ new.queue.remaining = tb.queue.remaining
           /\ AllNamed(tb.queue.done) => AllNamed(new.queue.done)
           /\ r.failure = s.failure /\ r.prompt = s.prompt /\ r.conn = s.conn
           /\ r.tasks = s.tasks
           /\ task.lane = NoRun => /\ new.state = Ended(KindIn(s, task, outcome))
                                   /\ new.ran = tb.ran
  BY WrittenInParts
<1> DEFINE p == task.profile
           t == task.tab
           tb == s.tab[p][t]
           r == WrittenIn(s, task, outcome)
<1>1. /\ r \in Session /\ r.failure = s.failure
      /\ r.tab[p][t].queue.awaiting = s.tab[p][t].queue.awaiting
      /\ r.tab[p][t].queue.remaining = s.tab[p][t].queue.remaining
      /\ AllNamed(s.tab[p][t].queue.done) => AllNamed(r.tab[p][t].queue.done)
  BY <1>0
<1>2. p \in Profiles /\ t \in Tabs
  BY DEF Task
<1>3. AtRest(s, p, t) /\ HasPlace(tb, task.lane, task.job.start)
  OBVIOUS
<1> HIDE DEF r, p, t
<1>4. AtRest(r, p, t)
  BY <1>1, <1>3 DEF AtRest, Rests, Rested
<1>5. tb.queue \in Queue /\ AllNamed(tb.queue.done)
  BY <1>2, <1>3, SessionParts, TabParts DEF AtRest
<1> HIDE DEF tb
<1>6. task.lane # NoRun => EntriesOf(tb.queue.done, task.job.start) # {}
  BY <1>3 DEF HasPlace, Lane
<1>7. task.lane # NoRun => task.job.start # Batch
  BY <1>5, <1>6 DEF EntriesOf, AllNamed
<1> QED
  BY <1>1, <1>4, <1>7 DEF r, p, t

\* A queue at rest is not moved by what lands beside it.
LEMMA LandLiveRests ==
  ASSUME NEW s \in Session, NEW task \in Task, NEW outcome, NEW sets \in Nat \ {0},
         front \in {task.profile, NoProfile}, AtRest(s, task.profile, task.tab)
  PROVE  AtRest(LandLive(s, task, outcome, sets), task.profile, task.tab)
<1> DEFINE p == task.profile
           t == task.tab
           start == task.job.start
           heard == Heard(s, task, outcome)
           landed == WrittenIn(heard, task, outcome)
           kind == KindIn(heard, task, outcome)
           rest == IF kind = "Complete" THEN sets ELSE 1
           succeeded == kind # "Failed"
<1>1. /\ p \in Profiles /\ t \in Tabs /\ task.job \in Job /\ start \in Sent
      /\ heard \in Session /\ rest \in Nat \ {0} /\ succeeded \in BOOLEAN
  BY HeardType DEF Task, Job
<1>2. heard \in Session /\ AtRest(heard, p, t)
  BY HeardType, HeardRests
<1>3. CASE ~HasPlace(heard.tab[p][t], task.lane, start)
  <2>1. LandLive(s, task, outcome, sets) = heard
    BY <1>3, LandLiveForms
  <2> QED
    BY <1>2, <2>1
<1>4. CASE HasPlace(heard.tab[p][t], task.lane, start)
  <2>1. landed \in Session /\ AtRest(landed, p, t) /\ (task.lane # NoRun => start # Batch)
    <3> HIDE DEF heard
    <3> QED
      BY <1>2, <1>4, WrittenInRests
  <2>2. LandLive(s, task, outcome, sets) =
          IF task.lane # NoRun THEN LandLane(landed, p, t, start, rest)
          ELSE IF task.job.refresh = "None"
               THEN IF front = NoProfile THEN landed ELSE AdvanceQueue(landed, front, t, rest)
          ELSE FollowUp(landed, p, t, task.job, succeeded)
    BY <1>4, LandLiveForms
  <2>3. front # NoProfile => front = p
    OBVIOUS
  <2> HIDE DEF landed, heard, rest, kind, succeeded, p, t, start
  <2>4. AdvanceQueue(landed, p, t, rest) = landed
    BY <2>1 DEF AdvanceQueue, Awaits, AtRest, Rests, Rested
  <2>5. /\ task.lane # NoRun => AtRest(LandLane(landed, p, t, start, rest), p, t)
        /\ AtRest(FollowUp(landed, p, t, task.job, succeeded), p, t)
    BY <1>1, <2>1, LandLaneRests, FollowUpRests
  <2>6. AtRest(LandLive(s, task, outcome, sets), p, t)
    BY <2>1, <2>2, <2>3, <2>4, <2>5
  <2> QED
    BY <2>6 DEF p, t
<1> QED
  BY <1>3, <1>4

\* The tab a statement of the queue has been written in.
LEMMA WrittenInAwaits ==
  ASSUME NEW s \in Session, NEW task \in Task, NEW outcome, task.lane = NoRun
  PROVE  LET heard == Heard(s, task, outcome)
             r == WrittenIn(heard, task, outcome)
             tb == s.tab[task.profile][task.tab]
             new == r.tab[task.profile][task.tab]
         IN  /\ r \in Session /\ new.queue.awaiting = tb.queue.awaiting
             /\ new.queue.remaining # <<>> => r.conn = s.conn
             /\ AllNamed(tb.queue.done) => AllNamed(new.queue.done)
             /\ r.failure = s.failure /\ r.prompt = s.prompt /\ new.ran = tb.ran
             /\ new.state = Ended(KindIn(heard, task, outcome))
<1>0. LET heard == Heard(s, task, outcome)
           tb == s.tab[task.profile][task.tab]
           new == heard.tab[task.profile][task.tab]
       IN  /\ new.state = tb.state /\ new.ran = tb.ran
           /\ new.queue.done = tb.queue.done /\ new.queue.awaiting = tb.queue.awaiting
           /\ new.queue.remaining = IF outcome = "Lost" THEN <<>> ELSE tb.queue.remaining
           /\ heard.failure = s.failure /\ heard.prompt = s.prompt
           /\ heard.tasks = s.tasks /\ (outcome # "Lost" => heard = s)
           /\ \A q \in Profiles : heard.conn[q] # s.conn[q] => q = task.profile
  BY HeardParts
<1> DEFINE p == task.profile
           t == task.tab
           tb == s.tab[p][t]
           heard == Heard(s, task, outcome)
           r == WrittenIn(heard, task, outcome)
<1>1. heard \in Session /\ HasPlace(heard.tab[p][t], task.lane, task.job.start)
  BY HeardType DEF HasPlace
<1>2. /\ heard.tab[p][t].ran = s.tab[p][t].ran
      /\ heard.tab[p][t].queue.awaiting = s.tab[p][t].queue.awaiting
      /\ heard.tab[p][t].queue.done = s.tab[p][t].queue.done
      /\ heard.failure = s.failure /\ heard.prompt = s.prompt
  BY <1>0
<1>3. /\ heard.tab[p][t].queue.remaining = IF outcome = "Lost" THEN <<>> ELSE tb.queue.remaining
      /\ outcome # "Lost" => heard = s
  BY <1>0
<1> HIDE DEF heard
<1>40. /\ r \in Session
       /\ r.tab[p][t].queue.awaiting = heard.tab[p][t].queue.awaiting
       /\ r.tab[p][t].queue.remaining = heard.tab[p][t].queue.remaining
       /\ AllNamed(heard.tab[p][t].queue.done) => AllNamed(r.tab[p][t].queue.done)
       /\ r.failure = heard.failure /\ r.prompt = heard.prompt /\ r.conn = heard.conn
       /\ r.tasks = heard.tasks
       /\ task.lane = NoRun => /\ r.tab[p][t].state = Ended(KindIn(heard, task, outcome))
                               /\ r.tab[p][t].ran = heard.tab[p][t].ran
  BY <1>1, WrittenInParts
<1>4. /\ r \in Session /\ r.failure = heard.failure /\ r.conn = heard.conn
      /\ r.tab[p][t].queue.awaiting = heard.tab[p][t].queue.awaiting
      /\ r.tab[p][t].queue.remaining = heard.tab[p][t].queue.remaining
  BY <1>40
<1>41. r.prompt = heard.prompt
  BY <1>40
<1>5. AllNamed(heard.tab[p][t].queue.done) => AllNamed(r.tab[p][t].queue.done)
  BY <1>40
<1>6. /\ r.tab[p][t].state = Ended(KindIn(heard, task, outcome))
      /\ r.tab[p][t].ran = heard.tab[p][t].ran
  BY <1>40
<1> HIDE DEF r
<1>7. r.tab[p][t].queue.remaining # <<>> => r.conn = s.conn
  BY <1>3, <1>4
<1> QED
  BY <1>2, <1>4, <1>41, <1>5, <1>6, <1>7 DEF heard, r

\* A statement of the queue lands: the queue goes on, stops or is through.
LEMMA LandLiveAdvances ==
  ASSUME NEW s \in Session, NEW task \in Task, NEW outcome, NEW sets \in Nat \ {0},
         front = task.profile, front # NoProfile, task.lane = NoRun, Queued(task.job),
         s.tab[task.profile][task.tab].queue.awaiting,
         s.tab[task.profile][task.tab].ran = task.job.from,
         AllNamed(s.tab[task.profile][task.tab].queue.done),
         s.failure[task.profile] = {}, s.conn[task.profile] = "Connected",
         Aside(s, task.profile)
  PROVE  Placed(LandLive(s, task, outcome, sets), task.profile, task.tab)
<1>0. LET heard == Heard(s, task, outcome)
           r == WrittenIn(heard, task, outcome)
           tb == s.tab[task.profile][task.tab]
           new == r.tab[task.profile][task.tab]
       IN  /\ r \in Session /\ new.queue.awaiting = tb.queue.awaiting
           /\ new.queue.remaining # <<>> => r.conn = s.conn
           /\ AllNamed(tb.queue.done) => AllNamed(new.queue.done)
           /\ r.failure = s.failure /\ r.prompt = s.prompt /\ new.ran = tb.ran
           /\ new.state = Ended(KindIn(heard, task, outcome))
  BY WrittenInAwaits
<1>60. LET heard == Heard(s, task, outcome)
           landed == WrittenIn(heard, task, outcome)
           kind == KindIn(heard, task, outcome)
           rest == IF kind = "Complete" THEN sets ELSE 1
       IN  LandLive(s, task, outcome, sets) =
             IF ~HasPlace(heard.tab[task.profile][task.tab], task.lane, task.job.start)
             THEN heard
             ELSE IF task.lane # NoRun
                  THEN LandLane(landed, task.profile, task.tab, task.job.start, rest)
             ELSE IF task.job.refresh = "None"
                  THEN IF front = NoProfile THEN landed
                       ELSE AdvanceQueue(landed, front, task.tab, rest)
             ELSE FollowUp(landed, task.profile, task.tab, task.job, kind # "Failed")
  BY LandLiveForms
<1> DEFINE p == task.profile
           t == task.tab
           tb == s.tab[p][t]
           heard == Heard(s, task, outcome)
           landed == WrittenIn(heard, task, outcome)
           kind == KindIn(heard, task, outcome)
           rest == IF kind = "Complete" THEN sets ELSE 1
<1>1. p \in Profiles /\ t \in Tabs /\ rest \in Nat \ {0}
  BY DEF Task
<1>2. /\ landed \in Session /\ landed.failure = s.failure
      /\ landed.tab[p][t].queue.awaiting = tb.queue.awaiting
      /\ landed.tab[p][t].queue.remaining # <<>> => landed.conn = s.conn
  BY <1>0
<1>3. AllNamed(tb.queue.done) => AllNamed(landed.tab[p][t].queue.done)
  BY <1>0
<1>31. landed.prompt = s.prompt
  BY <1>0
<1>4. landed.tab[p][t].state = Ended(kind) /\ landed.tab[p][t].ran = tb.ran
  BY <1>0
<1>5. kind # "Running"
  BY KindEnds DEF KindIn, Kinds
<1>6. LandLive(s, task, outcome, sets) = AdvanceQueue(landed, p, t, rest)
  <2>1. HasPlace(heard.tab[p][t], task.lane, task.job.start)
    BY DEF HasPlace
  <2> QED
    BY <1>60, <2>1 DEF Queued
<1>7. /\ tb.queue.awaiting /\ tb.ran # Batch /\ AllNamed(tb.queue.done)
      /\ s.failure[p] = {} /\ s.conn[p] = "Connected" /\ Aside(s, p)
  BY DEF Queued
<1>8. kind = "Failed" => rest = 1
  OBVIOUS
<1> HIDE DEF landed, heard, rest, kind, p, t, tb
<1>9. /\ ~Busy(landed, p, t) /\ (landed.tab[p][t].state.kind = "Failed" => rest = 1)
      /\ Aside(landed, p)
  BY <1>31, <1>4, <1>5, <1>7, <1>8 DEF Busy, IsRunning, Ended, Aside
<1>10. Placed(AdvanceQueue(landed, p, t, rest), p, t)
  BY <1>1, <1>2, <1>3, <1>4, <1>7, <1>9, AdvanceQueuePlaced
<1> QED
  BY <1>6, <1>10 DEF p, t

-----------------------------------------------------------------------------
(* Steps.                                                                  *)

\* Every queue in its place, and at rest while no connection is in front.
AllPlaced(s, shown) ==
  /\ Linked(s)
  /\ \A p \in Profiles, t \in Tabs :
       Placed(s, p, t) /\ (shown = NoProfile => AtRest(s, p, t))

QueuesPlaced == AllPlaced(Now, front)

\* The one tab there is.
LEMMA AloneAll ==
  ASSUME Alone, NEW s, NEW shown, NEW p \in Profiles, NEW t \in Tabs,
         Linked(s), Placed(s, p, t), shown = NoProfile => AtRest(s, p, t)
  PROVE  AllPlaced(s, shown)
BY DEF Alone, Single, AllPlaced

LEMMA AloneRests ==
  ASSUME Alone, NEW s, NEW shown, NEW p \in Profiles, NEW t \in Tabs,
         Linked(s), AtRest(s, p, t)
  PROVE  AllPlaced(s, shown)
BY AloneAll, AtRestPlaced

\* A session the same to the queue of a tab.
Echoes(s, r, p, t) ==
  /\ r.tab[p][t].state = s.tab[p][t].state /\ r.tab[p][t].queue = s.tab[p][t].queue
  /\ r.tab[p][t].ran = s.tab[p][t].ran
  /\ r.failure[p] = s.failure[p] /\ r.prompt[p] = s.prompt[p]

LEMMA EchoPlaced ==
  ASSUME NEW s, NEW r, NEW p, NEW t, Echoes(s, r, p, t), Placed(s, p, t),
         \A u \in Own(s, p, t) : u.lane = NoRun =>
           \E v \in Own(r, p, t) : v.lane = NoRun /\ v.job = u.job
  PROVE  Placed(r, p, t)
<1>1. Rests(s, p, t) => Rests(r, p, t)
  BY DEF Echoes, Rests
<1>2. IsStopped(s, p, t) => IsStopped(r, p, t)
  BY DEF Echoes, IsStopped, Aside
<1>3. AwaitsLeave(s, p, t) => AwaitsLeave(r, p, t)
  BY DEF Echoes, AwaitsLeave
<1>4. ASSUME Advances(s, p, t) PROVE Advances(r, p, t)
  <2>1. PICK u \in Own(s, p, t) :
          u.lane = NoRun /\ Queued(u.job) /\ u.job.from = s.tab[p][t].ran
    BY <1>4 DEF Advances
  <2>2. PICK v \in Own(r, p, t) : v.lane = NoRun /\ v.job = u.job
    BY <2>1
  <2> QED
    BY <1>4, <2>1, <2>2 DEF Advances, Echoes, Aside
<1> QED
  BY <1>1, <1>2, <1>3, <1>4 DEF Placed, Echoes

LEMMA EchoRests ==
  ASSUME NEW s, NEW r, NEW p, NEW t, Echoes(s, r, p, t), AtRest(s, p, t)
  PROVE  AtRest(r, p, t)
BY DEF Echoes, AtRest, Rests

LEMMA BecomesPlaced ==
  ASSUME TypeOK', NEW s, AllPlaced(s, front'), Becomes(s)
  PROVE  QueuesPlaced'
<1> DEFINE r == Now'
<1>1. r.tab = tab' /\ r.tasks = s.tasks /\ r.prompt = s.prompt /\ r.failure = s.failure
      /\ r.conn = s.conn
  BY DEF Becomes, Now
<1> HIDE DEF r
<1>2. ASSUME NEW p \in Profiles, NEW t \in Tabs
      PROVE  Echoes(s, r, p, t) /\ Own(r, p, t) = Own(s, p, t)
  <2> DEFINE tb == s.tab[p][t]
             rows == [g \in Grids |-> IF g \in Taken(s, p, t) THEN tb.rows[g] ELSE Empty]
  <2>1. tab'[p][t] = [tb EXCEPT !.rows = rows]
    BY DEF Becomes, Collected
  <2>2. {"ran", "state", "queue"} \subseteq DOMAIN tab'[p][t]
    BY DEF TypeOK, Tab
  <2> DEFINE new == tab'[p][t]
  <2> HIDE DEF rows, tb
  <2>3. new.ran = tb.ran /\ new.state = tb.state /\ new.queue = tb.queue
    BY <2>1, <2>2
  <2>4. new = r.tab[p][t]
    BY <1>1
  <2> HIDE DEF new
  <2> QED
    BY <1>1, <2>3, <2>4 DEF Echoes, Own, tb
<1>3. Linked(r)
  BY <1>1 DEF Linked, AllPlaced
<1>4. AllPlaced(r, front')
  BY <1>2, <1>3, EchoPlaced, EchoRests DEF AllPlaced
<1> QED
  BY <1>4 DEF QueuesPlaced, r

\* The tab a statement comes back to: at rest, or its queue is waiting for
\* exactly that statement.
LEMMA ComesTo ==
  ASSUME NEW n \in Session, NEW u \in n.tasks, Accounted(n, {}),
         Placed(n, u.profile, u.tab),
         \/ u.lane = NoRun
         \/ u.live
         \/ /\ IsRunning(n.tab[u.profile][u.tab].state)
            /\ n.tab[u.profile][u.tab].state.run = u.lane
  PROVE  \/ AtRest(n, u.profile, u.tab)
         \/ /\ u.lane = NoRun /\ Queued(u.job) /\ n.failure[u.profile] = {}
            /\ Aside(n, u.profile)
            /\ n.tab[u.profile][u.tab].queue.awaiting
            /\ n.tab[u.profile][u.tab].ran = u.job.from
<1> DEFINE p == u.profile
           t == u.tab
           tb == n.tab[p][t]
           own == Own(n, p, t)
<1>1. CASE u.lane = NoRun
  <2>1. IsRunning(tb.state) /\ Still(own \ {u})
    BY <1>1, SlotTask
  <2>2. ~AwaitsLeave(n, p, t) /\ ~IsStopped(n, p, t)
    BY <2>1 DEF AwaitsLeave, IsStopped
  <2>3. ASSUME Advances(n, p, t)
        PROVE  /\ Queued(u.job) /\ n.failure[p] = {} /\ Aside(n, p)
               /\ tb.queue.awaiting /\ tb.ran = u.job.from
    <3>1. PICK v \in own : v.lane = NoRun /\ Queued(v.job) /\ v.job.from = tb.ran
      BY <2>3 DEF Advances
    <3>2. v = u
      BY <2>1, <3>1 DEF Still
    <3> QED
      BY <2>3, <3>1, <3>2 DEF Advances
  <2> QED
    BY <1>1, <2>2, <2>3 DEF Placed, AtRest
<1>2. CASE u.lane # NoRun
  <2>1. Lanes(tb, own)
    BY <1>2, LaneTask, StaleLane
  <2>2. Rested(tb.queue)
    BY <2>1 DEF Lanes, Rested
  <2>3. ~Advances(n, p, t) /\ ~AwaitsLeave(n, p, t) /\ ~IsStopped(n, p, t)
    BY <2>2 DEF Advances, AwaitsLeave, IsStopped, Rested
  <2> QED
    BY <2>3 DEF Placed, AtRest
<1> QED
  BY <1>1, <1>2

\* A session found lost was lost to the one statement that was answered for.
LEMMA HeardLinked ==
  ASSUME Alone, NEW n \in Session, NEW s \in Session, NEW u \in n.tasks, Accounted(n, {}),
         Takes(n, s, u), s.conn = n.conn, Linked(n),
         NEW outcome, outcome = "Lost" => u.lane = NoRun
  PROVE  Linked(Heard(s, u, outcome))
<1>1. u \in Task /\ u.profile \in Profiles /\ u.tab \in Tabs
  BY TaskParts DEF Session
<1>2. Heard(s, u, outcome).tasks = s.tasks /\ (outcome # "Lost" => Heard(s, u, outcome) = s)
  BY <1>1, HeardParts
<1>3. Linked(s)
  BY SameLinked DEF Takes
<1>4. CASE outcome = "Lost"
  <2>1. Still(Own(n, u.profile, u.tab) \ {u})
    BY <1>4, SlotTask
  <2>2. ASSUME NEW v \in s.tasks PROVE ~v.live
    <3>1. v \in n.tasks \ {u} /\ v \in Task
      BY TaskParts DEF Takes, Session
    <3>2. v.profile = u.profile /\ v.tab = u.tab
      BY <1>1, <3>1 DEF Alone, Single, Task
    <3> QED
      BY <2>1, <3>1, <3>2 DEF Still, Own
  <2> QED
    BY <1>2, <2>2 DEF Linked
<1> QED
  BY <1>2, <1>3, <1>4

LEMMA DropStaleRunSame ==
  ASSUME NEW s \in Session, NEW task
  PROVE  DropStaleRun(s, task).tasks = s.tasks /\ DropStaleRun(s, task).conn = s.conn
BY DEF DropStaleRun, Session

LEMMA LandPlaced ==
  ASSUME Alone, TypeOK, TypeOK', OwnedRuns, QueuesPlaced, NEW task \in tasks, NEW outcome,
         NEW sets \in 1..MaxSets, Land(task, outcome, sets)
  PROVE  QueuesPlaced'
<1> DEFINE n == Now
           p == task.profile
           t == task.tab
           s == [n EXCEPT !.tasks = @ \ {task}]
           r == IF task.live THEN LandLive(s, task, outcome, sets)
                             ELSE DropStaleRun(s, task)
<1>1. /\ task \in Task /\ p \in Profiles /\ t \in Tabs /\ sets \in Nat \ {0}
      /\ front \in Profiles \cup {NoProfile}
  BY SetsAssumption DEF TypeOK, Task
<1>2. /\ n \in Session /\ task \in n.tasks /\ Accounted(n, {}) /\ Linked(n)
      /\ Placed(n, p, t) /\ (front = NoProfile => AtRest(n, p, t))
  BY <1>1, NowType DEF Now, OwnedRuns, QueuesPlaced, AllPlaced
<1>3. Becomes(r) /\ front' = front /\ (outcome = "Lost" => task.lane = NoRun)
  BY DEF Land
<1> HIDE DEF n
<1>4. /\ s \in Session /\ s.tab = n.tab /\ s.failure = n.failure /\ s.prompt = n.prompt
      /\ s.tasks = n.tasks \ {task} /\ s.conn = n.conn
  BY <1>2 DEF Session
<1> HIDE DEF s
<1>5. Takes(n, s, task) /\ front \in {p, NoProfile}
  BY <1>1, <1>4, NoProfileAssumption DEF Takes, Alone, Single
<1>6. CASE task.live
  <2>1. Linked(r)
    <3>1. Linked(Heard(s, task, outcome))
      BY <1>2, <1>3, <1>4, <1>5, HeardLinked
    <3> QED
      BY <1>1, <1>4, <1>6, <3>1, LandLiveLinked
  <2>2. CASE AtRest(n, p, t)
    <3>1. AtRest(s, p, t)
      BY <1>4, <2>2 DEF AtRest, Rests
    <3>2. AtRest(r, p, t)
      BY <1>1, <1>4, <1>5, <1>6, <3>1, LandLiveRests
    <3> HIDE DEF r
    <3>3. AllPlaced(r, front')
      BY <1>1, <2>1, <3>2, AloneRests
    <3> QED
      BY <1>3, <3>3, BecomesPlaced
  <2>3. CASE ~AtRest(n, p, t)
    <3>1. /\ task.lane = NoRun /\ Queued(task.job) /\ n.failure[p] = {} /\ Aside(n, p)
          /\ n.tab[p][t].queue.awaiting /\ n.tab[p][t].ran = task.job.from
      BY <1>2, <1>6, <2>3, ComesTo
    <3>2. front = p /\ front # NoProfile
      BY <1>2, <1>5, <2>3
    <3>3. n.conn[p] = "Connected" /\ AllNamed(n.tab[p][t].queue.done) /\ Aside(s, p)
      BY <1>2, <1>4, <1>6, <3>1 DEF Linked, Placed, Aside
    <3>4. Placed(r, p, t)
      BY <1>1, <1>4, <1>6, <3>1, <3>2, <3>3, LandLiveAdvances
    <3> HIDE DEF r, p, t
    <3>5. AllPlaced(r, front')
      BY <1>1, <1>3, <2>1, <3>2, <3>4, AloneAll
    <3> QED
      BY <1>3, <3>5, BecomesPlaced
  <2> QED
    BY <2>2, <2>3
<1>7. CASE ~task.live
  <2>1. Linked(r)
    <3>1. Linked(s)
      BY <1>2, <1>4, SameLinked
    <3>2. r.tasks = s.tasks /\ r.conn = s.conn
      BY <1>4, <1>7, DropStaleRunSame
    <3> HIDE DEF r
    <3> QED
      BY <3>1, <3>2, SameLinked
  <2>2. CASE task.lane # NoRun /\ ~(IsRunning(n.tab[p][t].state) /\ n.tab[p][t].state.run = task.lane)
    <3>1. r = s
      BY <1>4, <1>7, <2>2 DEF DropStaleRun
    <3>2. Echoes(n, s, p, t)
      BY <1>4 DEF Echoes
    <3>3. \A u \in Own(n, p, t) : u.lane = NoRun =>
            \E v \in Own(s, p, t) : v.lane = NoRun /\ v.job = u.job
      BY <1>4, <2>2 DEF Own
    <3>4. Placed(s, p, t) /\ (front = NoProfile => AtRest(s, p, t))
      BY <1>2, <3>2, <3>3, EchoPlaced, EchoRests
    <3> HIDE DEF r, p, t
    <3>5. AllPlaced(r, front')
      BY <1>1, <1>3, <2>1, <3>1, <3>4, AloneAll
    <3> QED
      BY <1>3, <3>5, BecomesPlaced
  <2>3. CASE task.lane = NoRun \/ (IsRunning(n.tab[p][t].state) /\ n.tab[p][t].state.run = task.lane)
    <3>1. \/ AtRest(n, p, t)
          \/ task.lane = NoRun /\ n.failure[p] = {} /\ n.tab[p][t].queue.awaiting
      BY <1>2, <2>3, ComesTo
    <3>2. AllNamed(n.tab[p][t].queue.done)
      BY <1>2 DEF Placed
    <3>3. /\ AllNamed(s.tab[p][t].queue.done) /\ s.failure[p] = {}
          /\ \/ Rested(s.tab[p][t].queue)
             \/ task.lane = NoRun /\ s.tab[p][t].queue.awaiting
      BY <1>4, <3>1, <3>2 DEF AtRest, Rests
    <3>4. AtRest(r, p, t)
      BY <1>1, <1>4, <1>7, <3>3, DropStaleRunRests
    <3> HIDE DEF r, p, t
    <3>5. AllPlaced(r, front')
      BY <1>1, <2>1, <3>4, AloneRests
    <3> QED
      BY <1>3, <3>5, BecomesPlaced
  <2> QED
    BY <2>2, <2>3
<1> QED
  BY <1>6, <1>7

LEMMA PourPlaced ==
  ASSUME TypeOK, TypeOK', QueuesPlaced, NEW task \in tasks, Pour(task)
  PROVE  QueuesPlaced'
<1> DEFINE n == Now
           p == task.profile
           t == task.tab
           rows == [n.tab[p][t].rows EXCEPT ![task.grid] =
                      RowsOf(task.job.start, 1, "arriving")]
           tb == [n.tab[p][t] EXCEPT !.rows = rows]
           r == [n EXCEPT !.tab[p][t] = tb]
<1>1. p \in Profiles /\ t \in Tabs /\ n \in Session /\ AllPlaced(n, front)
  BY NowType DEF TypeOK, Task, QueuesPlaced
<1>2. Becomes(r) /\ front' = front
  BY DEF Pour, Now
<1> HIDE DEF n, p, t
<1>3. tb.state = n.tab[p][t].state /\ tb.queue = n.tab[p][t].queue /\ tb.ran = n.tab[p][t].ran
  BY <1>1, SessionParts DEF Tab
<1> HIDE DEF tb
<1>4. /\ r.tasks = n.tasks /\ r.conn = n.conn
      /\ \A q \in Profiles, u \in Tabs : Echoes(n, r, q, u)
  BY <1>1, <1>3 DEF Session, Echoes
<1> HIDE DEF r
<1>5. AllPlaced(r, front')
  <2>1. Linked(r)
    BY <1>1, <1>4, SameLinked DEF AllPlaced
  <2>2. \A q \in Profiles, u \in Tabs : Own(r, q, u) = Own(n, q, u)
    BY <1>4 DEF Own
  <2> QED
    BY <1>1, <1>2, <1>4, <2>1, <2>2, EchoPlaced, EchoRests DEF AllPlaced
<1> QED
  BY <1>2, <1>5, BecomesPlaced

\* A command given while no dialog is up and the connection is open finds the
\* queue at rest, or on a statement of it.
LEMMA CommandFinds ==
  ASSUME AnswersFirst, WhenConnected, NEW p \in Profiles, NEW t \in Tabs, Command(p, t),
         Placed(Now, p, t)
  PROVE  /\ front = p /\ Now.conn[p] = "Connected" /\ Now.prompt[p] = {}
         /\ AtRest(Now, p, t) \/ (Busy(Now, p, t) /\ Advances(Now, p, t))
<1>1. /\ front = p /\ Now.conn[p] = "Connected" /\ Now.prompt[p] = {} /\ ~DecisionUp(p)
  BY DEF Command, InFront, Undisturbed, Open, Now
<1>2. ~AwaitsLeave(Now, p, t)
  BY <1>1 DEF AwaitsLeave
<1>3. ~IsStopped(Now, p, t)
  <2>1. Now.failure = failure /\ Now.tab = tab
    BY DEF Now
  <2> QED
    BY <1>1, <2>1 DEF IsStopped, DecisionUp, LastFailed, Last
<1> QED
  BY <1>1, <1>2, <1>3 DEF Placed, AtRest, Advances, Busy

\* A run begun with a queue of its own.
LEMMA RunQueuedPlaced ==
  ASSUME NEW s \in Session, NEW p \in Profiles, NEW t \in Tabs, NEW queue \in Queue,
         NEW at \in Sent, Begins(queue, at), AtRest(s, p, t), ~Busy(s, p, t),
         s.conn[p] = "Connected", s.prompt[p] = {}, Linked(s)
  PROVE  Placed(RunQueued(s, p, t, queue, at), p, t) /\ Linked(RunQueued(s, p, t, queue, at))
<1> DEFINE tb == [s.tab[p][t] EXCEPT !.queue = queue]
           r == [s EXCEPT !.tab[p][t].queue = queue]
           q == [s EXCEPT !.tab[p][t] = tb]
<1>0. s.tab[p][t] \in Tab
  BY SessionParts
<1>1. tb \in Tab /\ tb.queue = queue /\ tb.state = s.tab[p][t].state
  BY <1>0 DEF Tab
<1>2. r = q
  BY DEF Session
<1> HIDE DEF tb
<1>21. q \in Session /\ q.tab[p][t] = tb
  BY <1>1, TabReplaced
<1>22. q.failure = s.failure /\ q.conn = s.conn /\ q.prompt = s.prompt
  BY DEF Session
<1>23. Linked(q)
  BY TabLinked
<1> HIDE DEF q
<1>3. /\ r \in Session /\ r.tab[p][t] = tb /\ r.failure = s.failure /\ r.conn = s.conn
      /\ Linked(r) /\ Aside(r, p)
  <2> HIDE DEF r
  <2> QED
    BY <1>2, <1>21, <1>22, <1>23 DEF Aside
<1>4. Ask(at, at) \in Job /\ Queued(Ask(at, at)) /\ AllNamed(queue.done)
  <2>1. at # Batch
    BY StatementsAssumption DEF Begins, Batch
  <2> QED
    BY <2>1, AskType, NothingNamed DEF Begins, Queued, Ask
<1>5. RunQueued(s, p, t, queue, at) = ExecuteAndThen(r, p, t, Ask(at, at))
  BY DEF RunQueued
<1>6. s.failure[p] = {} /\ ~IsRunning(tb.state)
  BY <1>1 DEF AtRest, Rests, Busy
<1> HIDE DEF r
<1>7. CASE queue.awaiting
  <2>1. Placed(ExecuteAndThen(r, p, t, Ask(at, at)), p, t)
    BY <1>1, <1>3, <1>4, <1>6, <1>7, ExecuteAndThenPlaced DEF Busy
  <2> QED
    BY <1>3, <1>4, <1>5, <2>1, ExecuteAndThenLinked
<1>8. CASE ~queue.awaiting
  <2>1. AtRest(r, p, t)
    BY <1>1, <1>3, <1>4, <1>6, <1>8 DEF AtRest, Rests, Rested, Begins
  <2>2. Placed(ExecuteAndThen(r, p, t, Ask(at, at)), p, t)
    BY <1>3, <1>4, <2>1, ExecuteAndThenRests, AtRestPlaced
  <2> QED
    BY <1>3, <1>4, <1>5, <2>2, ExecuteAndThenLinked
<1> QED
  BY <1>7, <1>8

\* A handler that leaves the one tab's queue in its place.
LEMMA StepPlaced ==
  ASSUME Alone, TypeOK', NEW p \in Profiles, NEW t \in Tabs, NEW s,
         Placed(s, p, t), Linked(s), Becomes(s), front' # NoProfile \/ AtRest(s, p, t)
  PROVE  QueuesPlaced'
BY AloneAll, BecomesPlaced

LEMMA RestPlaced ==
  ASSUME Alone, TypeOK', NEW p \in Profiles, NEW t \in Tabs, NEW s,
         AtRest(s, p, t), Linked(s), Becomes(s)
  PROVE  QueuesPlaced'
BY AtRestPlaced, StepPlaced

-----------------------------------------------------------------------------
(* Commands, on the one tab.                                               *)

\* What the place of the one tab's queue says of every other's.
LEMMA PlacedNow ==
  ASSUME QueuesPlaced, TypeOK, NEW p \in Profiles, NEW t \in Tabs
  PROVE  /\ Now \in Session /\ Placed(Now, p, t) /\ Linked(Now)
         /\ front = NoProfile => AtRest(Now, p, t)
BY NowType DEF QueuesPlaced, AllPlaced

\* A statement asked for outside the queue.
LEMMA ExecutesPlaced ==
  ASSUME NEW s \in Session, NEW p \in Profiles, NEW t \in Tabs, NEW job \in Job,
         AtRest(s, p, t) \/ (Busy(s, p, t) /\ Placed(s, p, t) /\ Beside(job)), Linked(s)
  PROVE  Placed(ExecuteAndThen(s, p, t, job), p, t) /\ Linked(ExecuteAndThen(s, p, t, job))
BY ExecuteAndThenRests, ExecuteAndThenBusy, ExecuteAndThenLinked, AtRestPlaced

LEMMA UncheckedPlaced ==
  ASSUME NEW s \in Session, NEW p \in Profiles, NEW t \in Tabs, NEW job \in Job,
         AtRest(s, p, t) \/ (Busy(s, p, t) /\ Placed(s, p, t)), Linked(s)
  PROVE  Placed(ExecuteUnchecked(s, p, t, job), p, t) /\ Linked(ExecuteUnchecked(s, p, t, job))
<1>1. CASE AtRest(s, p, t)
  BY <1>1, ExecuteUncheckedRests, ExecuteUncheckedLinked, AtRestPlaced
<1>2. CASE Busy(s, p, t) /\ Placed(s, p, t)
  BY <1>2, ExecuteUncheckedLinked DEF ExecuteUnchecked
<1> QED
  BY <1>1, <1>2

\* What a cancel marks is in the place it was.
LEMMA MarksPlaced ==
  ASSUME NEW s \in Session, NEW p \in Profiles, NEW t \in Tabs, NEW new \in Tab,
         Marks(s.tab[p][t], new), Placed(s, p, t)
  PROVE  Placed([s EXCEPT !.tab[p][t] = new], p, t)
<1> DEFINE tb == s.tab[p][t]
           r == [s EXCEPT !.tab[p][t] = new]
<1>1. /\ r.tab[p][t] = new /\ r.failure = s.failure /\ r.prompt = s.prompt
      /\ r.tasks = s.tasks
  BY DEF Session
<1> HIDE DEF r
<1>2. tb \in Tab /\ tb.queue \in Queue /\ new.queue \in Queue
  BY SessionParts, TabParts
<1>3. /\ DOMAIN tb.queue.done = 1..Len(tb.queue.done) /\ Len(tb.queue.done) \in Nat
      /\ DOMAIN new.queue.done = 1..Len(new.queue.done) /\ Len(new.queue.done) \in Nat
      /\ tb.queue.done \in Seq(Finished) /\ new.queue.done \in Seq(Finished)
  BY <1>2, QueueParts
<1> HIDE DEF tb
<1>4. AllNamed(tb.queue.done) => AllNamed(new.queue.done)
  BY DEF Marks, AllNamed, tb
<1>5. IsRunning(tb.state) <=> IsRunning(new.state)
  BY DEF Marks, Alike, IsRunning, tb
<1>6. new.queue.awaiting = tb.queue.awaiting /\ new.queue.remaining = tb.queue.remaining
      /\ new.ran = tb.ran
  BY DEF Marks, tb
<1>7. LastFailed(tb.queue.done) => LastFailed(new.queue.done)
  <2> DEFINE d == tb.queue.done
             e == new.queue.done
  <2>1. /\ DOMAIN d = DOMAIN e
        /\ \A i \in DOMAIN d : d[i].state.kind = e[i].state.kind
    BY DEF Marks, Alike, tb
  <2>2. Len(d) = Len(e) /\ Len(d) \in Nat /\ DOMAIN d = 1..Len(d)
    BY <1>3, <2>1
  <2>3. d \in Seq(Finished) /\ e \in Seq(Finished)
    BY <1>3
  <2> HIDE DEF d, e
  <2>4. (d = <<>> <=> Len(d) = 0) /\ (e = <<>> <=> Len(e) = 0)
    BY <2>3
  <2> QED
    BY <2>1, <2>2, <2>4 DEF LastFailed, Last, d, e
<1>8. Rests(s, p, t) => Rests(r, p, t)
  BY <1>1, <1>6 DEF Rests, Rested, tb
<1>9. Advances(s, p, t) => Advances(r, p, t)
  BY <1>1, <1>5, <1>6 DEF Advances, Own, Aside, tb
<1>10. AwaitsLeave(s, p, t) => AwaitsLeave(r, p, t)
  BY <1>1, <1>5, <1>6 DEF AwaitsLeave, tb
<1>11. IsStopped(s, p, t) => IsStopped(r, p, t)
  BY <1>1, <1>5, <1>6, <1>7 DEF IsStopped, Aside, tb
<1> QED
  BY <1>1, <1>4, <1>8, <1>9, <1>10, <1>11 DEF Placed, r, tb

\* What is left of a run that was cancelled while it was out.
LEMMA DropRestPlaced ==
  ASSUME NEW s \in Session, NEW p \in Profiles, NEW t \in Tabs,
         Placed(s, p, t), IsRunning(s.tab[p][t].state)
  PROVE  Placed(DropRestOfQueue(s, p, t), p, t)
<1> DEFINE r == DropRestOfQueue(s, p, t)
           tb == r.tab[p][t]
<1>1. /\ tb.queue.remaining = <<>> /\ tb.queue.awaiting = s.tab[p][t].queue.awaiting
      /\ AllNamed(tb.queue.done) /\ tb.state = s.tab[p][t].state
      /\ tb.ran = s.tab[p][t].ran /\ r.failure[p] = s.failure[p] \ {t}
      /\ r.tasks = s.tasks /\ r.prompt = s.prompt
  BY DropRestParts DEF Placed
<1> HIDE DEF r
<1>2. Rests(s, p, t) \/ Advances(s, p, t)
  BY DEF Placed, AwaitsLeave, IsStopped
<1>3. r.failure[p] = {}
  BY <1>1, <1>2 DEF Rests, Advances
<1>4. Rests(s, p, t) => Rests(r, p, t)
  BY <1>1, <1>3 DEF Rests, Rested
<1>5. Advances(s, p, t) => Advances(r, p, t)
  BY <1>1, <1>3 DEF Advances, Own, Aside
<1> QED
  BY <1>1, <1>2, <1>4, <1>5 DEF Placed, r

LEMMA CancelQueryPlaced ==
  ASSUME Alone, TypeOK, TypeOK', QueuesPlaced, NEW p \in Profiles, NEW t \in Tabs,
         CancelQuery(p, t)
  PROVE  QueuesPlaced'
<1>1. PICK new \in Tab :
        /\ Marks(tab[p][t], new)
        /\ \/ Becomes([Now EXCEPT !.tab[p][t] = new])
           \/ /\ IsRunning(tab[p][t].state)
              /\ Becomes(DropRestOfQueue([Now EXCEPT !.tab[p][t] = new], p, t))
  BY CancelQueryMarks
<1>2. Now \in Session /\ Placed(Now, p, t) /\ Linked(Now)
  BY PlacedNow
<1>3. front' = p /\ p # NoProfile
  BY NoProfileAssumption DEF CancelQuery, InFront
<1> DEFINE n == Now
           s == [n EXCEPT !.tab[p][t] = new]
<1>4. n.tab = tab /\ n \in Session /\ Placed(n, p, t) /\ Linked(n)
  BY <1>2 DEF Now
<1> HIDE DEF n
<1>5. s \in Session /\ s.tab[p][t] = new /\ Placed(s, p, t) /\ Linked(s)
  <2>1. s \in Session /\ s.tab[p][t] = new
    BY <1>4, TabReplaced
  <2>2. Linked(s)
    BY <1>4, TabLinked
  <2>3. Marks(n.tab[p][t], new)
    BY <1>1, <1>4
  <2>4. Placed(s, p, t)
    BY <1>4, <2>3, MarksPlaced
  <2> QED
    BY <2>1, <2>2, <2>4
<1>6. IsRunning(tab[p][t].state) => IsRunning(new.state)
  BY <1>1 DEF Marks, Alike, IsRunning
<1>7. \/ Becomes(s)
      \/ IsRunning(tab[p][t].state) /\ Becomes(DropRestOfQueue(s, p, t))
  BY <1>1 DEF n
<1> HIDE DEF s
<1>8. ASSUME IsRunning(tab[p][t].state)
      PROVE  Placed(DropRestOfQueue(s, p, t), p, t) /\ Linked(DropRestOfQueue(s, p, t))
  <2>1. Placed(DropRestOfQueue(s, p, t), p, t)
    BY <1>5, <1>6, <1>8, DropRestPlaced
  <2>2. AllNamed(s.tab[p][t].queue.done)
    BY <1>5 DEF Placed
  <2> QED
    BY <1>5, <2>1, <2>2, DropRestParts, SameLinked
<1> QED
  BY <1>3, <1>5, <1>7, <1>8, StepPlaced

LEMMA CommandsPlaced ==
  ASSUME Alone, AnswersFirst, WhenConnected, TypeOK, TypeOK', QueuesPlaced,
         NEW p \in Profiles, NEW t \in Tabs, Commands(p, t)
  PROVE  QueuesPlaced'
<1>1. Now \in Session /\ Placed(Now, p, t) /\ Linked(Now) /\ p # NoProfile
  BY PlacedNow, NoProfileAssumption
<1>2. ASSUME Command(p, t)
      PROVE  /\ front = p /\ Now.conn[p] = "Connected" /\ Now.prompt[p] = {}
             /\ AtRest(Now, p, t) \/ Busy(Now, p, t)
  BY <1>1, <1>2, CommandFinds
<1>3. ASSUME NEW queue \in Queue, NEW at \in Sent, Begins(queue, at),
             Command(p, t), ~Busy(Now, p, t), front' = front,
             Becomes(RunQueued(Now, p, t, queue, at))
      PROVE  QueuesPlaced'
  <2>1. /\ AtRest(Now, p, t) /\ Now.conn[p] = "Connected" /\ Now.prompt[p] = {}
        /\ front = p
    BY <1>2, <1>3
  <2>2. /\ Placed(RunQueued(Now, p, t, queue, at), p, t)
        /\ Linked(RunQueued(Now, p, t, queue, at))
    BY <1>1, <1>3, <2>1, RunQueuedPlaced
  <2> QED
    BY <1>1, <1>3, <2>1, <2>2, StepPlaced
<1>4. ASSUME Command(p, t), ~Busy(Now, p, t), StartsLanes(p, t)
      PROVE  QueuesPlaced'
  <2>1. PICK tb \in Tab, n \in Nat :
          /\ Rested(tb.queue)
          /\ AllNamed(tab[p][t].queue.done) => AllNamed(tb.queue.done)
          /\ Becomes(StartWaiting([Now EXCEPT !.tab[p][t] = tb], p, t, n))
    BY <1>4 DEF StartsLanes
  <2> DEFINE m == Now
             s == [m EXCEPT !.tab[p][t] = tb]
  <2>2. m \in Session /\ AtRest(m, p, t) /\ Linked(m) /\ m.tab = tab
    BY <1>1, <1>2, <1>4 DEF Now
  <2> HIDE DEF m
  <2>3. AllNamed(tb.queue.done)
    BY <2>1, <2>2 DEF AtRest
  <2>4. s \in Session /\ AtRest(s, p, t) /\ Linked(s)
    BY <2>1, <2>2, <2>3, TabReplaced, TabRests, TabLinked
  <2>5. Becomes(StartWaiting(s, p, t, n))
    BY <2>1 DEF m
  <2> HIDE DEF s
  <2> QED
    BY <2>4, <2>5, StartWaitingRests, StartWaitingLinked, RestPlaced
<1>5. ASSUME NEW job \in Job, Beside(job), Command(p, t), front' = front,
             \/ Becomes(ExecuteUnchecked(Now, p, t, job))
             \/ Becomes(ExecuteAndThen(Now, p, t, job))
      PROVE  QueuesPlaced'
  <2>1. front = p /\ (AtRest(Now, p, t) \/ Busy(Now, p, t))
    BY <1>2, <1>5
  <2>2. /\ Placed(ExecuteAndThen(Now, p, t, job), p, t)
        /\ Linked(ExecuteAndThen(Now, p, t, job))
    BY <1>1, <1>5, <2>1, ExecutesPlaced
  <2>3. /\ Placed(ExecuteUnchecked(Now, p, t, job), p, t)
        /\ Linked(ExecuteUnchecked(Now, p, t, job))
    BY <1>1, <2>1, UncheckedPlaced
  <2> QED
    BY <1>1, <1>5, <2>1, <2>2, <2>3, StepPlaced
<1>6. ASSUME NEW start \in Statements, RunQuery(p, t, start)
      PROVE  QueuesPlaced'
  <2>1. Command(p, t) /\ ~Busy(Now, p, t) /\ front' = front
    BY <1>6, Zenon DEF RunQuery
  <2> QED
    BY <1>3, <1>6, <2>1, RunQueryStep
<1>7. ASSUME NEW start \in Statements, ExplainQuery(p, t, start)
      PROVE  QueuesPlaced'
  <2> DEFINE job == [Ask(start, start) EXCEPT !.explain = TRUE]
  <2>1. job \in Job /\ Beside(job)
    <3>1. Ask(start, start) \in Job
      BY AskType DEF Sent
    <3> QED
      BY <3>1 DEF Job, Beside
  <2>2. /\ Becomes(ExecuteUnchecked(Now, p, t, job)) \/ Becomes(ExecuteAndThen(Now, p, t, job))
        /\ Command(p, t) /\ front' = front
    BY <1>7 DEF ExplainQuery
  <2> HIDE DEF job
  <2> QED
    BY <1>5, <2>1, <2>2
<1>8. ASSUME NEW selection \in Selections, RunStatements(p, t, selection)
      PROVE  QueuesPlaced'
  <2>1. Command(p, t) /\ ~Busy(Now, p, t) /\ front' = front
    BY <1>8, Zenon DEF RunStatements
  <2> QED
    BY <1>3, <1>8, <2>1, RunStatementsStep
<1>9. ASSUME NEW selection \in Selections, RunAtOnce(p, t, selection)
      PROVE  QueuesPlaced'
  <2>1. Command(p, t) /\ ~Busy(Now, p, t)
    BY <1>9, Zenon DEF RunAtOnce
  <2> QED
    BY <1>4, <1>9, <2>1, RunAtOnceStep
<1>10. CASE RefuseRun(p, t)
  <2>1. AtRest(Now, p, t)
    BY <1>2, <1>10 DEF RefuseRun
  <2> DEFINE s == [Now EXCEPT !.tab[p][t].state = Ended("Failed")]
  <2>2. AtRest(s, p, t)
    BY <1>1, <2>1, StateRests
  <2>3. s.tasks = Now.tasks /\ s.conn = Now.conn
    BY DEF Now
  <2>4. Becomes(s)
    BY <1>10 DEF RefuseRun
  <2> HIDE DEF s
  <2> QED
    BY <1>1, <2>2, <2>3, <2>4, SameLinked, RestPlaced
<1>11. CASE ReorderQuery(p, t)
  <2>1. tab[p][t].last \in Sent /\ Batch \in Sent
    BY TabParts DEF TypeOK, Sent
  <2>2. Ask(tab[p][t].last, Batch) \in Job /\ Beside(Ask(tab[p][t].last, Batch))
    BY <2>1, AskType DEF Ask, Beside
  <2> QED
    BY <1>5, <1>11, <2>2 DEF ReorderQuery
<1>12. CASE RerunQueued(p, t)
  <2>1. Command(p, t) /\ ~Busy(Now, p, t)
    BY <1>12, Zenon DEF RerunQueued
  <2> QED
    BY <1>4, <1>12, <2>1, RerunQueuedStep
<1>13. CASE ApplyEdits(p, t)
  <2> DEFINE refresh == ApplyRefresh(tab[p][t])
             job == [start |-> Batch, from |-> Batch, explain |-> FALSE,
                     refresh |-> refresh.refresh, index |-> refresh.index,
                     then |-> refresh.then]
  <2>1. job \in Job /\ Beside(job)
    <3>1. tab[p][t] \in Tab
      BY DEF TypeOK
    <3> QED
      BY <3>1, ApplyRefreshType DEF Job, Refreshes, Sent, Beside
  <2>2. Becomes(ExecuteAndThen(Now, p, t, job)) /\ Command(p, t) /\ front' = front
    BY <1>13 DEF ApplyEdits
  <2> HIDE DEF job
  <2> QED
    BY <1>5, <2>1, <2>2
<1>14. CASE CancelQuery(p, t)
  BY <1>14, CancelQueryPlaced
<1>15. ASSUME NEW index, ShowQueuedResult(p, t, index)
       PROVE  QueuesPlaced'
  <2> DEFINE n == Now
             queue == [n.tab[p][t].queue EXCEPT !.showing = index]
             tb == [n.tab[p][t] EXCEPT !.queue = queue]
             s == [n EXCEPT !.tab[p][t] = tb]
  <2>1. n \in Session /\ Placed(n, p, t) /\ Linked(n)
    BY <1>1
  <2>2. /\ Becomes([n EXCEPT !.tab[p][t].queue.showing = index])
        /\ Command(p, t) /\ front' = front
    BY <1>15 DEF ShowQueuedResult
  <2> HIDE DEF n
  <2>3. n.tab[p][t] \in Tab /\ n.tab[p][t].queue \in Queue
    BY <2>1, SessionParts, TabParts
  <2>4. /\ queue.awaiting = n.tab[p][t].queue.awaiting
        /\ queue.remaining = n.tab[p][t].queue.remaining
        /\ queue.done = n.tab[p][t].queue.done
    BY <2>3 DEF Queue
  <2>5. [n EXCEPT !.tab[p][t].queue.showing = index] = s
    BY <2>1 DEF Session
  <2> HIDE DEF queue
  <2>6. tb.queue = queue /\ tb.state = n.tab[p][t].state /\ tb.ran = n.tab[p][t].ran
    BY <2>3 DEF Tab
  <2> HIDE DEF tb
  <2>7. /\ s.tab[p][t] = tb /\ s.failure = n.failure /\ s.prompt = n.prompt
        /\ s.tasks = n.tasks /\ s.conn = n.conn
    BY <2>1 DEF Session
  <2> HIDE DEF s
  <2>8. Placed(s, p, t)
    BY <2>1, <2>4, <2>6, <2>7
       DEF Placed, Rests, Rested, Advances, AwaitsLeave, IsStopped, Own, Aside
  <2>9. Linked(s) /\ front' = p
    BY <1>2, <2>1, <2>2, <2>7, SameLinked
  <2> QED
    BY <1>1, <2>2, <2>5, <2>8, <2>9, StepPlaced
<1>16. CASE ActivateTab(p, t)
  <2> DEFINE r == Now'
             n == Now
  <2>1. /\ r.tasks = n.tasks /\ r.tab = n.tab /\ r.failure = n.failure
        /\ r.conn = n.conn /\ front' = front /\ front = p
        /\ r.prompt[p] = {} /\ n.prompt[p] = {}
    BY <1>16 DEF ActivateTab, Undisturbed, Now, TypeOK
  <2>2. Placed(n, p, t) /\ Linked(n)
    BY <1>1
  <2> HIDE DEF r, n
  <2>3. Echoes(n, r, p, t) /\ Own(r, p, t) = Own(n, p, t)
    BY <2>1 DEF Echoes, Own
  <2>4. Placed(r, p, t) /\ Linked(r)
    BY <2>1, <2>2, <2>3, EchoPlaced, SameLinked
  <2>5. AllPlaced(r, front')
    BY <1>1, <2>1, <2>4, AloneAll
  <2> QED
    BY <2>5 DEF QueuesPlaced, r
<1> QED
  BY <1>6, <1>7, <1>8, <1>9, <1>10, <1>11, <1>12, <1>13, <1>14, <1>15, <1>16 DEF Commands

\* A stopped queue is what the decision is about.
LEMMA StoppedUp ==
  ASSUME NEW p \in Profiles, NEW t \in Tabs, IsStopped(Now, p, t)
  PROVE  DecisionUp(p)
<1>1. Now.failure = failure /\ Now.tab = tab
  BY DEF Now
<1> QED
  BY <1>1 DEF IsStopped, DecisionUp, LastFailed, Last

LEMMA FailureOf ==
  ASSUME NEW s, NEW p, NEW t, Placed(s, p, t)
  PROVE  s.failure[p] \subseteq {t}
BY DEF Placed, Rests, Advances, AwaitsLeave, IsStopped

LEMMA ApprovePlaced ==
  ASSUME Alone, WhenConnected, TypeOK, TypeOK', QueuesPlaced, NEW p \in Profiles,
         ApprovePendingRun(p)
  PROVE  QueuesPlaced'
<1> DEFINE n == Now
           s == [n EXCEPT !.prompt[p] = {}]
<1>1. PICK parked \in prompt[p] : Becomes(ExecuteUnchecked(s, p, parked.tab, parked.job))
  BY DEF ApprovePendingRun
<1> DEFINE t == parked.tab
           job == parked.job
<1>2. t \in Tabs /\ job \in Job
  BY DEF TypeOK, Parked
<1>3. /\ n \in Session /\ Placed(n, p, t) /\ Linked(n) /\ ~IsStopped(n, p, t)
      /\ n.conn[p] = "Connected" /\ n.prompt[p] = prompt[p]
      /\ front' = p /\ p # NoProfile
  <2>1. ~IsStopped(n, p, t)
    BY <1>2, StoppedUp DEF ApprovePendingRun
  <2> QED
    BY <1>2, <2>1, PlacedNow, NoProfileAssumption DEF ApprovePendingRun, Open, Now
<1> HIDE DEF n, t, job
<1>4. /\ s \in Session /\ s.tab = n.tab /\ s.failure = n.failure /\ s.conn = n.conn
      /\ s.tasks = n.tasks /\ Aside(s, p)
  BY <1>3 DEF Session, Aside
<1>5. Becomes(ExecuteUnchecked(s, p, t, job))
  BY <1>1 DEF t, job
<1> HIDE DEF s
<1>6. Linked(ExecuteUnchecked(s, p, t, job))
  BY <1>2, <1>3, <1>4, SameLinked, ExecuteUncheckedLinked
<1>7. CASE Rests(n, p, t)
  <2>1. AtRest(s, p, t)
    BY <1>3, <1>4, <1>7 DEF AtRest, Rests, Placed
  <2> QED
    BY <1>2, <1>3, <1>4, <1>5, <1>6, <2>1, ExecuteUncheckedRests, RestPlaced
<1>8. CASE Advances(n, p, t)
  <2>1. ExecuteUnchecked(s, p, t, job) = s
    BY <1>4, <1>8 DEF ExecuteUnchecked, Busy, Advances
  <2>2. Placed(s, p, t)
    BY <1>3, <1>4, <1>8 DEF Placed, Advances, Own, Aside
  <2> QED
    BY <1>2, <1>3, <1>5, <1>6, <2>1, <2>2, StepPlaced
<1>9. CASE AwaitsLeave(n, p, t)
  <2>1. Queued(job)
    BY <1>3, <1>9 DEF AwaitsLeave, job
  <2>2. /\ s.failure[p] = {} /\ s.conn[p] = "Connected" /\ ~Busy(s, p, t)
        /\ s.tab[p][t].queue.awaiting /\ AllNamed(s.tab[p][t].queue.done)
    BY <1>3, <1>4, <1>9 DEF AwaitsLeave, Busy, Placed
  <2>3. Placed(ExecuteUnchecked(s, p, t, job), p, t)
    BY <1>2, <1>4, <2>1, <2>2, ExecuteUncheckedPlaced
  <2> QED
    BY <1>2, <1>3, <1>5, <1>6, <2>3, StepPlaced
<1> QED
  BY <1>3, <1>7, <1>8, <1>9 DEF Placed

LEMMA StopQueueOnLinked ==
  ASSUME NEW s \in Session, NEW p \in Profiles, NEW t \in Tabs,
         AllNamed(s.tab[p][t].queue.done), Linked(s)
  PROVE  Linked(StopQueueOn(s, p, t))
<1> DEFINE r == DropRestOfQueue(s, p, t)
           q == [r EXCEPT !.tab[p][t].queue = Clamped([@ EXCEPT !.awaiting = FALSE])]
<1>1. r \in Session /\ r.tasks = s.tasks /\ r.conn = s.conn
  BY DropRestParts, DropRestOfQueueType
<1> HIDE DEF r
<1>2. q.tasks = r.tasks /\ q.conn = r.conn
  BY <1>1 DEF Session
<1>3. StopQueueOn(s, p, t) \in {r, q}
  BY DEF StopQueueOn, ReleaseQueue, r
<1> HIDE DEF q
<1> QED
  BY <1>1, <1>2, <1>3, SameLinked

LEMMA CancelPendingPlaced ==
  ASSUME Alone, TypeOK, TypeOK', QueuesPlaced, NEW p \in Profiles, CancelPendingRun(p)
  PROVE  QueuesPlaced'
<1> DEFINE n == Now
           s == [n EXCEPT !.prompt[p] = {}]
<1>1. PICK parked \in prompt[p] : Becomes(StopQueueOn(s, p, parked.tab))
  BY DEF CancelPendingRun
<1> DEFINE t == parked.tab
<1>2. t \in Tabs
  BY DEF TypeOK, Parked
<1>3. n \in Session /\ Placed(n, p, t) /\ Linked(n)
  BY <1>2, PlacedNow
<1>4. n.failure[p] \subseteq {t} /\ AllNamed(n.tab[p][t].queue.done)
  BY <1>3, FailureOf DEF Placed
<1> HIDE DEF n, t
<1>5. /\ s \in Session /\ s.tab = n.tab /\ s.failure = n.failure /\ s.conn = n.conn
      /\ s.tasks = n.tasks
  BY <1>3 DEF Session
<1>6. Becomes(StopQueueOn(s, p, t))
  BY <1>1 DEF t
<1> HIDE DEF s
<1>7. AtRest(StopQueueOn(s, p, t), p, t) /\ Linked(StopQueueOn(s, p, t))
  BY <1>2, <1>3, <1>4, <1>5, SameLinked, StopQueueOnRests, StopQueueOnLinked
<1> QED
  BY <1>2, <1>6, <1>7, RestPlaced

LEMMA StopQueuePlaced ==
  ASSUME Alone, TypeOK, TypeOK', QueuesPlaced, NEW p \in Profiles, StopQueue(p)
  PROVE  QueuesPlaced'
<1> DEFINE n == Now
<1>1. PICK t \in failure[p] :
        Becomes([n EXCEPT !.failure[p] = {}, !.tab[p][t].queue.remaining = <<>>])
  BY DEF StopQueue
<1>2. t \in Tabs
  BY DEF TypeOK
<1>3. n \in Session /\ Placed(n, p, t) /\ Linked(n) /\ t \in n.failure[p]
  BY <1>2, PlacedNow DEF Now
<1> HIDE DEF n
<1>4. ~n.tab[p][t].queue.awaiting /\ AllNamed(n.tab[p][t].queue.done)
  BY <1>3 DEF Placed, Rests, Advances, AwaitsLeave, IsStopped
<1> DEFINE queue == [n.tab[p][t].queue EXCEPT !.remaining = <<>>]
           tb == [n.tab[p][t] EXCEPT !.queue = queue]
           r == [n EXCEPT !.failure[p] = {}, !.tab[p][t] = tb]
<1>5. n.tab[p][t] \in Tab /\ n.tab[p][t].queue \in Queue
  BY <1>2, <1>3, SessionParts, TabParts
<1>6. queue.remaining = <<>> /\ ~queue.awaiting /\ queue.done = n.tab[p][t].queue.done
  BY <1>4, <1>5 DEF Queue
<1>7. [n EXCEPT !.failure[p] = {}, !.tab[p][t].queue.remaining = <<>>] = r
  BY <1>2, <1>3 DEF Session
<1> HIDE DEF queue
<1>8. tb.queue = queue
  BY <1>5 DEF Tab
<1> HIDE DEF tb
<1>9. r.tab[p][t] = tb /\ r.failure[p] = {} /\ r.tasks = n.tasks /\ r.conn = n.conn
  BY <1>2, <1>3 DEF Session
<1> HIDE DEF r
<1>10. AtRest(r, p, t) /\ Linked(r)
  BY <1>3, <1>4, <1>6, <1>8, <1>9, SameLinked DEF AtRest, Rests, Rested
<1> QED
  BY <1>1, <1>2, <1>7, <1>10, RestPlaced

LEMMA ContinueQueuePlaced ==
  ASSUME Alone, WhenConnected, TypeOK, TypeOK', QueuesPlaced, NEW p \in Profiles,
         ContinueQueue(p)
  PROVE  QueuesPlaced'
<1> DEFINE n == Now
           s == [n EXCEPT !.failure[p] = {}]
<1>1. PICK t \in failure[p] : Becomes(SendNextStatement(s, p, t))
  BY DEF ContinueQueue
<1>2. t \in Tabs
  BY DEF TypeOK
<1>3. /\ n \in Session /\ Placed(n, p, t) /\ Linked(n) /\ t \in n.failure[p]
      /\ n.conn[p] = "Connected" /\ front' = p /\ p # NoProfile
  BY <1>2, PlacedNow, NoProfileAssumption DEF ContinueQueue, Open, Now
<1> HIDE DEF n
<1>4. /\ ~IsRunning(n.tab[p][t].state) /\ n.tab[p][t].queue.remaining # <<>>
      /\ AllNamed(n.tab[p][t].queue.done) /\ Aside(n, p)
  BY <1>3 DEF Placed, Rests, Advances, AwaitsLeave, IsStopped
<1>5. /\ s \in Session /\ s.tab = n.tab /\ s.failure[p] = {} /\ s.conn = n.conn
      /\ s.tasks = n.tasks /\ Aside(s, p)
  BY <1>3, <1>4 DEF Session, Aside
<1>6. Becomes(SendNextStatement(s, p, t))
  BY <1>1
<1> HIDE DEF s
<1>7. Placed(SendNextStatement(s, p, t), p, t) /\ Linked(SendNextStatement(s, p, t))
  BY <1>2, <1>3, <1>4, <1>5, SameLinked, SendNextPlaced, SendNextLinked DEF Busy
<1> QED
  BY <1>2, <1>3, <1>6, <1>7, StepPlaced

LEMMA AnswersPlaced ==
  ASSUME Alone, WhenConnected, TypeOK, TypeOK', QueuesPlaced, NEW p \in Profiles, Answers(p)
  PROVE  QueuesPlaced'
BY ApprovePlaced, CancelPendingPlaced, StopQueuePlaced, ContinueQueuePlaced DEF Answers

-----------------------------------------------------------------------------
(* Connections, under the one tab.                                         *)

\* Retired, a statement is out as it was, and nothing of the connection is
\* answered for any more.
LEMMA RetiredParts ==
  ASSUME Alone, NEW s \in Session, NEW p \in Profiles, NEW r, r.tasks = Retired(p, s.tasks)
  PROVE  /\ Linked(r)
         /\ \A q \in Profiles, t \in Tabs : \A u \in Own(s, q, t) :
              \E v \in Own(r, q, t) : v.lane = u.lane /\ v.job = u.job
<1> DEFINE old(u) == IF u.profile = p THEN [u EXCEPT !.live = FALSE, !.grid = NoGrid] ELSE u
<1>1. s.tasks \in SUBSET Task /\ r.tasks = {old(u) : u \in s.tasks}
  BY DEF Session, Retired
<1>2. ASSUME NEW u \in Task
      PROVE  /\ old(u).lane = u.lane /\ old(u).job = u.job /\ old(u).profile = u.profile
             /\ old(u).tab = u.tab /\ ~old(u).live
  <2>1. u.profile = p
    BY DEF Alone, Single, Task
  <2> QED
    BY <2>1 DEF Task
<1> HIDE DEF old
<1> QED
  BY <1>1, <1>2 DEF Linked, Own

LEMMA BeginConnectPlaced ==
  ASSUME Alone, NEW s \in Session, NEW p \in Profiles, NEW t \in Tabs
  PROVE  /\ Linked(BeginConnect(s, p))
         /\ Placed(s, p, t) => Placed(BeginConnect(s, p), p, t)
         /\ AtRest(s, p, t) => AtRest(BeginConnect(s, p), p, t)
<1> DEFINE r == BeginConnect(s, p)
<1>1. /\ r.tasks = Retired(p, s.tasks) /\ r.tab = s.tab /\ r.prompt = s.prompt
      /\ r.failure = s.failure
  BY DEF BeginConnect, Session
<1> HIDE DEF r
<1>2. Echoes(s, r, p, t)
  BY <1>1 DEF Echoes
<1> QED
  BY <1>1, <1>2, RetiredParts, EchoPlaced, EchoRests DEF r

\* A queue stopped as its connection goes is at rest.
LEMMA QueuesStoppedRests ==
  ASSUME TypeOK, QueuesPlaced, NEW p \in Profiles, NEW t \in Tabs
  PROVE  LET tb == QueuesStopped(p)[t]
         IN  Rested(tb.queue) /\ AllNamed(tb.queue.done)
<1>1. Now \in Session /\ Placed(Now, p, t)
  BY PlacedNow
<1>2. AtRest(StopQueueOn(Now, p, t), p, t)
  BY <1>1, FailureOf, StopQueueOnRests DEF Placed
<1> QED
  BY <1>2 DEF AtRest, Rests, QueuesStopped

LEMMA ActivatePlaced ==
  ASSUME Alone, TypeOK, TypeOK', QueuesPlaced, NEW p \in Profiles, Activate(p)
  PROVE  QueuesPlaced'
<1> DEFINE n == Now
           s == [n EXCEPT !.prompt[p] = {}]
<1>1. PICK t \in Tabs : active[p] = t
  BY DEF TypeOK
<1>2. front = NoProfile
  BY DEF Activate, Alone, Single, TypeOK
<1>3. n \in Session /\ AtRest(n, p, t) /\ Linked(n)
  BY <1>1, <1>2, PlacedNow
<1>4. Becomes(s) \/ Becomes(BeginConnect(s, p))
  BY DEF Activate
<1> HIDE DEF n
<1>5. s \in Session /\ s.tasks = n.tasks /\ s.conn = n.conn
  BY <1>3 DEF Session
<1>6. AtRest(s, p, t)
  BY <1>3, PromptRests
<1> HIDE DEF s
<1>7. Linked(s) /\ AtRest(BeginConnect(s, p), p, t) /\ Linked(BeginConnect(s, p))
  BY <1>3, <1>5, <1>6, SameLinked, BeginConnectPlaced
<1> QED
  BY <1>4, <1>6, <1>7, RestPlaced

LEMMA ReconnectPlaced ==
  ASSUME Alone, TypeOK, TypeOK', QueuesPlaced, NEW p \in Profiles, Reconnect(p)
  PROVE  QueuesPlaced'
<1>1. PICK t \in Tabs : active[p] = t
  BY DEF TypeOK
<1> DEFINE r == BeginConnect(Now, p)
<1>2. Placed(r, p, t) /\ Linked(r) /\ (front = NoProfile => AtRest(r, p, t))
  BY PlacedNow, BeginConnectPlaced
<1>3. Becomes(r) /\ front' = front
  BY DEF Reconnect
<1> HIDE DEF r
<1> QED
  BY <1>2, <1>3, StepPlaced

LEMMA ConnectLandsPlaced ==
  ASSUME Alone, TypeOK, TypeOK', QueuesPlaced, NEW p \in Profiles, NEW opened \in BOOLEAN,
         ConnectLands(p, opened)
  PROVE  QueuesPlaced'
<1> DEFINE n == Now
           r == Now'
<1>1. PICK t \in Tabs : active[p] = t
  BY DEF TypeOK
<1>2. /\ n \in Session /\ Placed(n, p, t) /\ Linked(n) /\ n.conn[p] = "Connecting"
      /\ front = NoProfile => AtRest(n, p, t)
  BY PlacedNow DEF ConnectLands, Now
<1>3. /\ r.tab = n.tab /\ r.tasks = n.tasks /\ r.prompt = n.prompt
      /\ r.failure = n.failure /\ front' = front
  BY DEF ConnectLands, Now
<1> HIDE DEF n, r
<1>4. \A u \in n.tasks : ~u.live
  <2>1. \A u \in n.tasks : u.profile = p
    BY <1>2 DEF Alone, Single, Session, Task
  <2> QED
    BY <1>2, <2>1 DEF Linked
<1>5. Linked(r) /\ Echoes(n, r, p, t) /\ Own(r, p, t) = Own(n, p, t)
  BY <1>3, <1>4 DEF Linked, Echoes, Own
<1>6. Placed(r, p, t) /\ (front = NoProfile => AtRest(r, p, t))
  BY <1>2, <1>5, EchoPlaced, EchoRests
<1>7. AllPlaced(r, front')
  BY <1>3, <1>5, <1>6, AloneAll
<1> QED
  BY <1>7 DEF QueuesPlaced, r

LEMMA DisconnectPlaced ==
  ASSUME Alone, TypeOK, TypeOK', QueuesPlaced, NEW p \in Profiles, Disconnect(p)
  PROVE  QueuesPlaced'
<1>1. PICK t \in Tabs : active[p] = t
  BY DEF TypeOK
<1> DEFINE n == Now
           tabs == QueuesStopped(p)
           s == [n EXCEPT !.conn[p] = "Idle", !.tab[p] = tabs, !.prompt[p] = {},
                          !.failure[p] = {}, !.tasks = Retired(p, @)]
<1>2. Becomes(s)
  BY DEF Disconnect
<1>3. n \in Session /\ Rested(tabs[t].queue) /\ AllNamed(tabs[t].queue.done)
  BY PlacedNow, QueuesStoppedRests
<1> HIDE DEF n, tabs
<1>4. s.tasks = Retired(p, n.tasks) /\ s.tab[p] = tabs /\ s.failure[p] = {}
  BY <1>3 DEF Session
<1> HIDE DEF s
<1>5. Linked(s) /\ AtRest(s, p, t)
  BY <1>3, <1>4, RetiredParts DEF AtRest, Rests
<1> QED
  BY <1>2, <1>5, RestPlaced

LEMMA SetDatabasePlaced ==
  ASSUME Alone, TypeOK, TypeOK', QueuesPlaced, NEW p \in Profiles, NEW inSession \in BOOLEAN,
         SetDatabase(p, inSession)
  PROVE  QueuesPlaced'
<1>1. PICK t \in Tabs : active[p] = t
  BY DEF TypeOK
<1> DEFINE n == Now
           tabs == [u \in Tabs |-> Left(p, u)]
           s == [n EXCEPT !.tab[p] = tabs, !.prompt[p] = {}, !.failure[p] = {}]
           r == [s EXCEPT !.tasks = Retired(p, @)]
<1>2. Becomes(r) \/ Becomes(BeginConnect(s, p))
  BY DEF SetDatabase
<1>3. n \in Session /\ tabs \in [Tabs -> Tab]
  BY NowType, LeftType DEF SetDatabase
<1>4. Rested(tabs[t].queue) /\ AllNamed(tabs[t].queue.done)
  BY LeftParts, NothingNamed
<1> HIDE DEF n, tabs
<1>5. s \in Session /\ s.tab[p] = tabs /\ s.failure[p] = {}
  BY <1>3 DEF Session
<1> HIDE DEF s
<1>6. AtRest(s, p, t)
  BY <1>4, <1>5 DEF AtRest, Rests
<1>7. r.tasks = Retired(p, s.tasks) /\ r.tab = s.tab /\ r.failure = s.failure
  BY <1>5 DEF Session
<1> HIDE DEF r
<1>8. AtRest(r, p, t) /\ Linked(r)
  BY <1>5, <1>6, <1>7, RetiredParts DEF AtRest, Rests
<1>9. AtRest(BeginConnect(s, p), p, t) /\ Linked(BeginConnect(s, p))
  BY <1>5, <1>6, BeginConnectPlaced
<1> QED
  BY <1>2, <1>8, <1>9, RestPlaced

LEMMA ConnectionsPlaced ==
  ASSUME Alone, TypeOK, TypeOK', QueuesPlaced, NEW p \in Profiles, Connections(p)
  PROVE  QueuesPlaced'
BY ActivatePlaced, ReconnectPlaced, DisconnectPlaced, ConnectLandsPlaced,
   SetDatabasePlaced DEF Connections

-----------------------------------------------------------------------------
(* The place of the queue, in every state.                                 *)

LEMMA InitPlaced == ASSUME Init PROVE QueuesPlaced
<1> DEFINE s == Now
<1>1. /\ s.tasks = {} /\ \A p \in Profiles : s.failure[p] = {}
      /\ \A p \in Profiles, t \in Tabs : s.tab[p][t].queue = NoQueue
  BY DEF Init, Now, NewTab
<1> HIDE DEF s
<1>2. AllPlaced(s, front)
  BY <1>1, NothingNamed, AtRestPlaced DEF AllPlaced, Linked, AtRest, Rests
<1> QED
  BY <1>2 DEF QueuesPlaced, s

LEMMA NextPlaced ==
  ASSUME Alone, AnswersFirst, WhenConnected,
         TypeOK, TypeOK', OwnedRuns, QueuesPlaced, [Next]_vars
  PROVE  QueuesPlaced'
<1>1. ASSUME NEW p \in Profiles, NEW t \in Tabs, Commands(p, t)
      PROVE  QueuesPlaced'
  BY <1>1, CommandsPlaced
<1>2. ASSUME NEW p \in Profiles, Answers(p) \/ Connections(p)
      PROVE  QueuesPlaced'
  BY <1>2, AnswersPlaced, ConnectionsPlaced
<1>3. ASSUME NEW task \in tasks, Pour(task)
      PROVE  QueuesPlaced'
  BY <1>3, PourPlaced
<1>4. ASSUME NEW task \in tasks, Lands(task)
      PROVE  QueuesPlaced'
  BY <1>4, LandPlaced DEF Lands
<1>5. CASE UNCHANGED vars
  <2>1. UNCHANGED <<Now, front>>
    BY <1>5 DEF vars, Now
  <2> QED
    BY <2>1 DEF QueuesPlaced
<1> QED
  BY <1>1, <1>2, <1>3, <1>4, <1>5 DEF Next

LEMMA PlacedInvariant ==
  ASSUME Alone, AnswersFirst, WhenConnected
  PROVE  Spec => [](TypeOK /\ QueuesPlaced)
<1>1. Init => QueuesPlaced
  BY InitPlaced
<1>2. TypeOK /\ TypeOK' /\ OwnedRuns /\ QueuesPlaced /\ [Next]_vars => QueuesPlaced'
  BY NextPlaced
<1> QED
  BY <1>1, <1>2, TypeCorrect, OwnedRunsInvariant, PTL DEF Spec

\* With one tab, and a user who answers what is asked before doing more and
\* runs nothing over a connection that is not open, a queue that says a
\* statement of it is out has one out, or parked for the user to answer: no
\* refusal, cancel, lost session or reconnect leaves it waiting for nothing.
THEOREM WaitsForSomething ==
  Alone /\ AnswersFirst /\ WhenConnected => (Spec => []AwaitingIsOut)
<1>1. SUFFICES ASSUME Alone, AnswersFirst, WhenConnected PROVE Spec => []AwaitingIsOut
  OBVIOUS
<1>2. ASSUME TypeOK, QueuesPlaced
      PROVE  AwaitingIsOut
  <2>1. SUFFICES ASSUME NEW p \in Profiles, NEW t \in Tabs, tab[p][t].queue.awaiting
                 PROVE  \/ \E task \in Of(p, t) : ~task.job.explain /\ task.job.from # Batch
                        \/ \E parked \in prompt[p] : parked.tab = t
    BY DEF AwaitingIsOut
  <2>2. Placed(Now, p, t) /\ Now.tab = tab /\ Now.prompt = prompt /\ Own(Now, p, t) = Of(p, t)
    BY <1>2, PlacedNow DEF Now, Own, Of
  <2>3. Advances(Now, p, t) \/ AwaitsLeave(Now, p, t)
    BY <2>1, <2>2 DEF Placed, Rests, Rested, IsStopped
  <2> QED
    BY <2>2, <2>3 DEF Advances, AwaitsLeave, Queued
<1> QED
  BY <1>1, <1>2, PlacedInvariant, PTL

\* So nothing joins a queue's results but what the queue sent, or what was run
\* at once with it: a sort, an EXPLAIN or an edit never becomes a chip.
THEOREM OnlyOwnLand ==
  Alone /\ AnswersFirst /\ WhenConnected => (Spec => []OnlyQueuedLand)
<1>1. SUFFICES ASSUME Alone, AnswersFirst, WhenConnected PROVE Spec => []OnlyQueuedLand
  OBVIOUS
<1>2. ASSUME TypeOK, QueuesPlaced
      PROVE  OnlyQueuedLand
  <2>1. ASSUME NEW p \in Profiles, NEW t \in Tabs
        PROVE  AllNamed(tab[p][t].queue.done)
    <3>1. Placed(Now, p, t) /\ Now.tab = tab
      BY <1>2, PlacedNow DEF Now
    <3> QED
      BY <3>1 DEF Placed
  <2> QED
    BY <2>1 DEF OnlyQueuedLand, AllNamed
<1> QED
  BY <1>1, <1>2, PlacedInvariant, PTL

\* And a queue that holds statements it has not sent is the one the user is
\* being asked about, Stop or Continue: none is left half sent in silence.
THEOREM StoppedIsAsked ==
  Alone /\ AnswersFirst /\ WhenConnected => (Spec => []HeldIsAsked)
<1>1. SUFFICES ASSUME Alone, AnswersFirst, WhenConnected PROVE Spec => []HeldIsAsked
  OBVIOUS
<1>2. ASSUME TypeOK, QueuesPlaced
      PROVE  HeldIsAsked
  <2>1. SUFFICES ASSUME NEW p \in Profiles, NEW t \in Tabs,
                        tab[p][t].queue.remaining # <<>>, ~tab[p][t].queue.awaiting
                 PROVE  t \in failure[p]
    BY DEF HeldIsAsked
  <2>2. Placed(Now, p, t) /\ Now.tab = tab /\ Now.failure = failure
    BY <1>2, PlacedNow DEF Now
  <2>3. IsStopped(Now, p, t)
    BY <2>1, <2>2 DEF Placed, Rests, Rested, Advances, AwaitsLeave
  <2> QED
    BY <2>2, <2>3 DEF IsStopped
<1> QED
  BY <1>1, <1>2, PlacedInvariant, PTL

\* Continue, pressed over a queue that failed, goes on with it: the next of its
\* statements goes out, or is put to the user, whatever was done since.  No
\* statement parked before can stand in its place, as none of a queue is.
THEOREM ContinueGoesOn ==
  Alone /\ AnswersFirst /\ WhenConnected => (Spec => ContinueSends)
<1>1. SUFFICES ASSUME Alone, AnswersFirst, WhenConnected PROVE Spec => ContinueSends
  OBVIOUS
<1>2. ASSUME TypeOK, QueuesPlaced, NEW p \in Profiles, ContinueQueue(p)
      PROVE  tasks' # tasks \/ prompt' # prompt
  <2> DEFINE n == Now
             s == [n EXCEPT !.failure[p] = {}]
  <2>1. PICK t \in failure[p] : Room(p, t, 0, 1) /\ Becomes(SendNextStatement(s, p, t))
    BY <1>2 DEF ContinueQueue
  <2>2. t \in Tabs
    BY <1>2, <2>1 DEF TypeOK
  <2>3. /\ n \in Session /\ Placed(n, p, t) /\ t \in n.failure[p] /\ n.conn[p] = "Connected"
        /\ n.tasks = tasks /\ n.prompt = prompt
    BY <1>1, <1>2, <2>1, <2>2, PlacedNow DEF ContinueQueue, Open, Now
  <2>4. FreeRuns(n) # {}
    BY <2>1, RoomFree DEF Room
  <2> HIDE DEF n
  <2>5. ~IsRunning(n.tab[p][t].state) /\ n.tab[p][t].queue.remaining # <<>> /\ Aside(n, p)
    BY <2>3 DEF Placed, Rests, Advances, AwaitsLeave, IsStopped
  <2>6. /\ s \in Session /\ s.tab = n.tab /\ s.conn = n.conn /\ s.tasks = n.tasks
        /\ s.prompt = n.prompt
    BY <1>2, <2>3 DEF Session
  <2> HIDE DEF s
  <2>7. ~Busy(s, p, t) /\ Aside(s, p) /\ FreeRuns(s) # {}
    BY <2>4, <2>5, <2>6 DEF Busy, Aside, FreeRuns, RunsInUse
  <2>8. SendNextStatement(s, p, t).tasks # s.tasks \/ SendNextStatement(s, p, t).prompt # s.prompt
    BY <1>2, <2>2, <2>3, <2>5, <2>6, <2>7, SendNextGoes
  <2> QED
    BY <2>1, <2>3, <2>6, <2>8 DEF Becomes
<1>3. TypeOK /\ QueuesPlaced /\ [Next]_vars
        => [\A p \in Profiles : ContinueQueue(p) => tasks' # tasks \/ prompt' # prompt]_vars
  BY <1>2
<1> QED
  BY <1>1, <1>3, PlacedInvariant, PTL DEF Spec, ContinueSends

=============================================================================
