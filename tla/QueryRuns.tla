----------------------------- MODULE QueryRuns ------------------------------
(***************************************************************************)
(* The workspace's runs: which connection is in front, what each of its    *)
(* query tabs is running, the prompts a run can be parked behind, and the  *)
(* statements out on the connections (src/workspace/queries.rs,            *)
(* modes.rs, profiles.rs).                                                 *)
(*                                                                         *)
(* The interface runs on one thread, so every handler is one step.  What   *)
(* interleaves is the statements: each blocks on a thread of its own for   *)
(* as long as the server takes, and its completion comes back as another   *)
(* step, whatever the user has done meanwhile.  A task is one such         *)
(* statement.                                                              *)
(*                                                                         *)
(* A connection's generation is a counter in the source, only ever         *)
(* compared for equality with the profile's: a task is live while the two  *)
(* agree.  The mode gate is the set of statements it stops.  Which         *)
(* statements are plain reads, and what a submission answers with, are     *)
(* left open.  Relation tabs are not here.                                 *)
(*                                                                         *)
(* The handlers call one another, so each is an operator from one state of *)
(* the session to the next (s below), and an action is the whole chain.    *)
(***************************************************************************)
EXTENDS QueryTab

CONSTANTS Profiles,      \* the connections in the sidebar
          NoProfile,     \* none of them in front: the welcome surface
          Tabs,          \* tab ids, which count from zero in every profile
          Selections,    \* what can be selected: sequences of statements
          Gated,         \* the statements the mode gate stops
          Batches,       \* the ones that can answer with several result sets
          ExpectedSets,  \* result sets reserved for each of those
          MaxSets,       \* result sets one of them can answer with
          AtOnceLimit,   \* STATEMENTS_AT_ONCE
          AnswersFirst,  \* the user answers a dialog before doing more
          WhenConnected  \* and runs nothing while the connection is not open

ASSUME NoProfileAssumption == NoProfile \notin Profiles
ASSUME SelectionsAssumption ==
  \A selection \in Selections :
    /\ selection \in Seq(Statements)
    /\ Len(selection) >= 2
    /\ \A i, j \in 1..Len(selection) : i < j => selection[i] < selection[j]
ASSUME GatedAssumption == Gated \subseteq Sent /\ Batches \subseteq Statements
ASSUME SetsAssumption ==
  ExpectedSets \in Nat \ {0} /\ MaxSets \in Nat \ {0} /\ AtOnceLimit \in Nat \ {0}
ASSUME UserAssumption == AnswersFirst \in BOOLEAN /\ WhenConnected \in BOOLEAN

VARIABLES front,    \* the profile in front
          active,   \* the tab in front of each profile
          conn,     \* ProfileState
          tab,      \* each profile's query tabs
          prompt,   \* pending_run: a statement the gate stopped, if any
          failure,  \* queue_failure: the tab waiting on Stop or Continue
          tasks     \* the statements out, their completions still to come

vars == <<front, active, conn, tab, prompt, failure, tasks>>

ConnStates == {"Idle", "Connecting", "Connected", "Failed"}

Refreshes == {"None", "Statement", "Earlier", "Return"}

\* What execute_and_then is asked to run.  from is where in the buffer it was
\* sent from, index and then what its refresh names.
Job == [start : Sent, from : Sent, explain : BOOLEAN,
        refresh : Refreshes, index : Nat, then : Sent]

Parked == [tab : Tabs, job : Job]

Task == [id : Runs, profile : Profiles, tab : Tabs, live : BOOLEAN,
         lane : Runs \cup {NoRun}, job : Job, grid : Grids \cup {NoGrid}]

TypeOK ==
  /\ front \in Profiles \cup {NoProfile}
  /\ active \in [Profiles -> Tabs]
  /\ conn \in [Profiles -> ConnStates]
  /\ tab \in [Profiles -> [Tabs -> Tab]]
  /\ prompt \in [Profiles -> SUBSET Parked]
  /\ failure \in [Profiles -> SUBSET Tabs]
  /\ tasks \subseteq Task

-----------------------------------------------------------------------------
(* The state the handlers pass along, and what is in use in it.            *)

Now == [conn |-> conn, tab |-> tab, prompt |-> prompt, failure |-> failure,
        tasks |-> tasks]

\* The grids a tab's handles name, the ones its runs stream into included.
Taken(s, p, t) ==
  Held(s.tab[p][t])
    \cup {task.grid : task \in {u \in s.tasks : u.profile = p /\ u.tab = t}}

\* The tokens of a tab's results are those of the lanes behind them, or are
\* never looked for again.
TabRuns(tb) == {tb.state.run, tb.lent.state.run}

RunsInUse(s) ==
  (UNION {{task.id, task.lane} : task \in s.tasks})
    \cup (UNION {TabRuns(s.tab[p][t]) : p \in Profiles, t \in Tabs})

FreeRuns(s) == Runs \ RunsInUse(s)

FreshRuns(s, n) ==
  LET free == FreeRuns(s)
  IN  CHOOSE f \in [1..n -> Runs] : Cardinality(free) >= n => f \in Injection(1..n, free)

FreshRun(s) == FreshRuns(s, 1)[1]

Becomes(s) ==
  /\ conn' = s.conn
  /\ tab' = [p \in Profiles |-> [t \in Tabs |->
               Collected(s.tab[p][t], Taken(s, p, t))]]
  /\ prompt' = s.prompt
  /\ failure' = s.failure
  /\ tasks' = s.tasks

Ask(start, from) ==
  [start |-> start, from |-> from, explain |-> FALSE,
   refresh |-> "None", index |-> 0, then |-> Batch]

\* Mutant of Busy: a second run is let through.
NeverBusy(s, p, t) == FALSE

\* The tab's run, whoever asks: Session::running.
Busy(s, p, t) == IsRunning(s.tab[p][t].state)

-----------------------------------------------------------------------------
(* Sending: execute_and_then and execute_unchecked.                        *)

\* The statement goes out.  A batch on an earlier result is lent the slot, and
\* the grid is emptied for every run but an EXPLAIN, whose answer never
\* reaches it.
Send(s, p, t, job) ==
  LET run == FreshRun(s)
      tb == IF job.refresh = "Earlier" THEN Lend(s.tab[p][t], job.index)
                                       ELSE s.tab[p][t]
  IN  [s EXCEPT
         !.tab[p][t] = [tb EXCEPT
           !.state = Running(run),
           !.ran = job.from,
           !.rows = IF job.explain THEN @ ELSE [@ EXCEPT ![tb.grid] = Empty]],
         !.tasks = @ \cup {[id |-> run, profile |-> p, tab |-> t, live |-> TRUE,
                            lane |-> NoRun, job |-> job, grid |-> tb.grid]}]

\* One run at a time on a tab: a second is refused.  Without a connection the
\* slot says so.
ExecuteUnchecked(s, p, t, job) ==
  IF Busy(s, p, t) THEN s
  ELSE IF s.conn[p] # "Connected"
       THEN [s EXCEPT !.tab[p][t].state = Ended("Failed")]
       ELSE Send(s, p, t, job)

\* A stopped statement takes the place of the one parked before it.
ExecuteAndThen(s, p, t, job) ==
  IF job.start \in Gated
  THEN [s EXCEPT !.prompt[p] = {[tab |-> t, job |-> job]}]
  ELSE ExecuteUnchecked(s, p, t, job)

-----------------------------------------------------------------------------
(* A queue whose statements run at once.                                   *)

\* Entries at go out, each under a token of its own.
StartLanes(s, p, t, at) ==
  LET tb == s.tab[p][t]
      run == FreshRuns(s, Cardinality(at))
      runOf(i) == run[Cardinality({j \in at : j <= i})]
      grids == {tb.queue.done[i].grid : i \in at}
      lane(i) == [id |-> runOf(i), profile |-> p, tab |-> t, live |-> TRUE,
                  lane |-> tb.state.run, job |-> Ask(tb.queue.done[i].start, Batch),
                  grid |-> tb.queue.done[i].grid]
  IN  [s EXCEPT
         !.tab[p][t] = [tb EXCEPT
            !.queue.done = [i \in DOMAIN tb.queue.done |->
               IF i \in at
               THEN [tb.queue.done[i] EXCEPT !.state = Running(runOf(i))]
               ELSE tb.queue.done[i]],
            !.rows = [g \in Grids |-> IF g \in grids THEN Empty ELSE tb.rows[g]]],
         !.tasks = @ \cup {lane(i) : i \in at}]

\* Without a connection every statement still waiting fails in turn, and the
\* tab is handed back if none is out.
FailLanes(s, p, t) ==
  LET tb == s.tab[p][t]
      failed == [tb EXCEPT !.queue.done = [i \in DOMAIN @ |->
                   IF @[i].state.kind = "Idle"
                   THEN [@[i] EXCEPT !.state = Ended("Failed")] ELSE @[i]]]
  IN  [s EXCEPT !.tab[p][t] =
         IF AtOnce(failed.queue) THEN failed ELSE HandBack(failed)]

\* start_lane: the first n statements waiting go out.
StartWaiting(s, p, t, n) ==
  LET waiting == WaitingIn(s.tab[p][t].queue.done)
      at == {i \in waiting : Cardinality({j \in waiting : j <= i}) <= n}
  IN  IF ~Busy(s, p, t) \/ waiting = {} THEN s
      ELSE IF s.conn[p] # "Connected" THEN FailLanes(s, p, t)
      ELSE StartLanes(s, p, t, at)

\* A lane has landed in its own entry: its further sets beside it, the next
\* statement out, or the tab handed back.
LandLane(s, p, t, start, sets) ==
  LET tb == s.tab[p][t]
      queue == LandSets(tb.queue, Lane(tb.queue, start) + 1, start, sets)
      landed == WithSets([tb EXCEPT !.queue = queue], start, tb.queue)
  IN  IF AtOnce(queue)
      THEN StartWaiting([s EXCEPT !.tab[p][t] = landed], p, t, 1)
      ELSE [s EXCEPT !.tab[p][t] = HandBack(landed)]

-----------------------------------------------------------------------------
(* A queue whose statements run in turn.                                   *)

\* The next statement off the queue, with the empty grid it will fill while
\* there is one in reserve.
SendNextStatement(s, p, t) ==
  LET tb == s.tab[p][t]
      queue == tb.queue
      next == queue.remaining[1]
      popped == [tb EXCEPT
        !.grid = IF queue.spare # <<>> THEN Last(queue.spare) ELSE @,
        !.queue = [queue EXCEPT
          !.remaining = Tail(@),
          !.awaiting = TRUE,
          !.showing = IF @ >= Len(queue.done) THEN Len(queue.done) + 1 ELSE @,
          !.spare = SparesLeft(queue)]]
  IN  IF queue.remaining = <<>> THEN s
      ELSE ExecuteAndThen([s EXCEPT !.tab[p][t] = popped], p, t, Ask(next, next))

\* A statement of the queue has landed in the slot: it joins done with the
\* sets behind it, and the next goes out, or the decision is raised.  p is the
\* profile in front, which is whose tab of that id the code reads.
AdvanceQueue(s, p, t, sets) ==
  LET tb == s.tab[p][t]
      following == tb.queue.showing > Len(tb.queue.done)
      pushed == [tb.queue EXCEPT
        !.awaiting = FALSE,
        !.done = Append(@, [start |-> tb.ran, set |-> 1,
                            state |-> tb.state, grid |-> tb.grid])]
      queue == LandSets(pushed, Len(pushed.done) + 1, tb.ran, sets)
      moved == [queue EXCEPT !.showing = IF following THEN Len(queue.done) ELSE @]
      landed == WithSets([tb EXCEPT !.queue = moved], tb.ran, tb.queue)
      next == [s EXCEPT !.tab[p][t] = landed]
      step == NextStep(tb.state.kind = "Failed", moved.remaining)
  IN  IF ~Awaits(tb.queue) THEN s
      ELSE CASE step = "Next" -> SendNextStatement(next, p, t)
             [] step = "Ask" -> [next EXCEPT !.failure[p] = {t}]
             [] step = "Finished" ->
                  IF Len(moved.done) < 2 THEN [next EXCEPT !.tab[p][t].queue = NoQueue]
                                         ELSE next

\* Mutant of DropRestOfQueue: what is to be sent in turn is left.
DropWaiting(s, p, t) ==
  [s EXCEPT !.failure[p] = @ \ {t},
            !.tab[p][t].queue.done = Kept(@, DOMAIN @ \ WaitingIn(@))]

\* Unsend whatever of a queue has not gone out.
DropRestOfQueue(s, p, t) ==
  LET queue == s.tab[p][t].queue
  IN  [s EXCEPT !.failure[p] = @ \ {t},
                !.tab[p][t].queue = [queue EXCEPT
                  !.remaining = <<>>,
                  !.done = Kept(@, DOMAIN @ \ WaitingIn(@))]]

\* Mutant of ReleaseQueue: the queue goes on waiting.
KeepAwaiting(s, p, t) == s

\* Let go of a statement the queue sent that will never land.
ReleaseQueue(s, p, t) ==
  IF s.tab[p][t].queue.awaiting
  THEN [s EXCEPT !.tab[p][t].queue = Clamped([@ EXCEPT !.awaiting = FALSE])]
  ELSE s

StopQueueOn(s, p, t) == ReleaseQueue(DropRestOfQueue(s, p, t), p, t)

-----------------------------------------------------------------------------
(* The user runs, explains, sorts and edits.                               *)

\* The Stop or Continue dialog, drawn over whatever tab is in front while the
\* failed queue's last result says so: render_queue_failure.
DecisionUp(p) ==
  \E t \in failure[p] :
    LET done == tab[p][t].queue.done
    IN  done # <<>> /\ done[Len(done)].state.kind = "Failed"

InFront(p, t) == front = p /\ active[p] = t

\* The keyboard reaches past a dialog, so nothing in the code keeps a command
\* from being given while one is up.
Undisturbed(p) == AnswersFirst => prompt[p] = {} /\ ~DecisionUp(p)

\* Nor does anything keep a run from being asked for over no connection: the
\* run itself is refused.
Open(p) == WhenConnected => conn[p] = "Connected"

Command(p, t) == InFront(p, t) /\ Undisturbed(p) /\ Open(p)

\* Room in the model for a run that takes n grids and m tokens.
Room(p, t, n, m) ==
  /\ HasFreshGrids(Taken(Now, p, t), n)
  /\ Cardinality(FreeRuns(Now)) >= m

\* expected_sets of a selection: what its statements are expected to land.
Expected(selection) ==
  Len(selection)
    + (ExpectedSets - 1) * Cardinality({i \in DOMAIN selection : selection[i] \in Batches})

\* The empty grids a run is given.
Reserve(p, t, n) == FreshGrids(Taken(Now, p, t), n)

\* run_query, one statement: it replaces whatever queue the tab was showing.
RunQuery(p, t, start) ==
  /\ Command(p, t)
  /\ ~Busy(Now, p, t)
  /\ Room(p, t, Expected(<<start>>) - 1, 1)
  /\ LET spare == Reserve(p, t, Expected(<<start>>) - 1)
         queue == IF spare # <<>>
                  THEN [NoQueue EXCEPT !.awaiting = TRUE, !.spare = spare]
                  ELSE NoQueue
     IN  Becomes(ExecuteAndThen([Now EXCEPT !.tab[p][t].queue = queue],
                                p, t, Ask(start, start)))
  /\ UNCHANGED <<front, active>>

\* run_statements: a selection's statements in turn.
RunStatements(p, t, selection) ==
  /\ Command(p, t)
  /\ ~Busy(Now, p, t)
  /\ Room(p, t, Expected(selection) - 1, 1)
  /\ LET queue == [remaining |-> Tail(selection), done |-> <<>>, showing |-> 1,
                   awaiting |-> TRUE,
                   spare |-> Reserve(p, t, Expected(selection) - 1)]
     IN  Becomes(ExecuteAndThen([Now EXCEPT !.tab[p][t].queue = queue],
                                p, t, Ask(selection[1], selection[1])))
  /\ UNCHANGED <<front, active>>

\* run_at_once: plain reads, each on a connection of its own.
RunAtOnce(p, t, selection) ==
  /\ Command(p, t)
  /\ ~Busy(Now, p, t)
  /\ \A i \in DOMAIN selection : selection[i] \notin Gated
  /\ Room(p, t, Expected(selection), Min({Len(selection), AtOnceLimit}) + 1)
  /\ LET n == Len(selection)
         grid == Reserve(p, t, Expected(selection))
         queue == [remaining |-> <<>>,
                   done |-> [i \in DOMAIN selection |->
                     [start |-> selection[i], set |-> 1,
                      state |-> Ended("Idle"), grid |-> grid[i]]],
                   showing |-> 1, awaiting |-> FALSE,
                   spare |-> SubSeq(grid, n + 1, Expected(selection))]
     IN  Becomes(StartWaiting([Now EXCEPT
                               !.tab[p][t] = [@ EXCEPT
                                 !.queue = queue,
                                 !.state = Running(FreshRun(Now))]],
                              p, t, AtOnceLimit))
  /\ UNCHANGED <<front, active>>

\* explain_query: the queue on the tab, if any, stays.  A plan is a read,
\* whatever it is of, and passes; Analyze runs the statement, and is stopped
\* where the statement is.
ExplainQuery(p, t, start) ==
  /\ Command(p, t)
  /\ Room(p, t, 0, 1)
  /\ LET job == [Ask(start, start) EXCEPT !.explain = TRUE]
     IN  \/ Becomes(ExecuteUnchecked(Now, p, t, job))
         \/ Becomes(ExecuteAndThen(Now, p, t, job))
  /\ UNCHANGED <<front, active>>

\* refuse_run: there was no statement to run.
RefuseRun(p, t) ==
  /\ Command(p, t)
  /\ ~Busy(Now, p, t)
  /\ Becomes([Now EXCEPT !.tab[p][t].state = Ended("Failed")])
  /\ UNCHANGED <<front, active>>

\* reorder_query on the slot's own rows, by a header or by the chip for the
\* server's sort, which is there over an error too: their statement again.  One
\* that writes, or is several, is refused.
ReorderQuery(p, t) ==
  /\ Command(p, t)
  /\ ~Busy(Now, p, t)
  /\ OnScreen(tab[p][t]) = tab[p][t].grid
  /\ tab[p][t].rows[tab[p][t].grid] # Empty
  /\ tab[p][t].last \notin Gated \cup Batches \cup {Batch}
  /\ Room(p, t, 0, 1)
  /\ Becomes(ExecuteAndThen(Now, p, t, Ask(tab[p][t].last, Batch)))
  /\ UNCHANGED <<front, active>>

\* reorder_query on an earlier result, rerun_queued: a lane of its own, once
\* the queue has nothing more to land.
RerunQueued(p, t) ==
  LET tb == tab[p][t]
      at == tb.queue.showing
  IN  /\ Command(p, t)
      /\ OnEntry(tb)
      /\ tb.queue.done[at].grid # tb.grid
      /\ tb.rows[tb.queue.done[at].grid] # Empty
      /\ ~Busy(Now, p, t)
      /\ Settled(tb.queue)
      /\ Lane(tb.queue, tb.queue.done[at].start) = at
      /\ tb.queue.done[at].start \notin Gated \cup Batches
      /\ Room(p, t, 0, 2)
      /\ Becomes(StartWaiting([Now EXCEPT
                   !.tab[p][t] = [@ EXCEPT
                     !.queue.done[at].state = Ended("Idle"),
                     !.state = Running(FreshRun(Now))]], p, t, 1))
      /\ UNCHANGED <<front, active>>

\* apply_in_buffer and run_apply_review: the edits staged on the result on
\* screen, and that result again once they have run.  Rows of a statement that
\* is not a read to run again take no edit.
ApplyEdits(p, t) ==
  LET refresh == ApplyRefresh(tab[p][t])
  IN  /\ Command(p, t)
      /\ tab[p][t].rows[OnScreen(tab[p][t])].how \in {"cut", "whole"}
      /\ refresh.refresh # "None" /\ refresh.then \notin Gated \cup Batches
      /\ Room(p, t, 0, 1)
      /\ Becomes(ExecuteAndThen(Now, p, t,
           [start |-> Batch, from |-> Batch, explain |-> FALSE,
            refresh |-> refresh.refresh, index |-> refresh.index,
            then |-> refresh.then]))
      /\ UNCHANGED <<front, active>>

-----------------------------------------------------------------------------
(* The user answers, cancels and looks around.                             *)

\* approve_pending_run: the statement runs unchecked.  A failed queue's dialog
\* is drawn over this one and takes the keys and the clicks meant for it.
ApprovePendingRun(p) ==
  /\ front = p
  /\ ~DecisionUp(p)
  /\ Open(p)
  /\ \E parked \in prompt[p] :
       /\ Room(p, parked.tab, 0, 1)
       /\ Becomes(ExecuteUnchecked([Now EXCEPT !.prompt[p] = {}],
                                   p, parked.tab, parked.job))
  /\ UNCHANGED <<front, active>>

\* cancel_pending_run: declining a statement ends the queue of its tab.
CancelPendingRun(p) ==
  /\ front = p
  /\ ~DecisionUp(p)
  /\ \E parked \in prompt[p] :
       Becomes(StopQueueOn([Now EXCEPT !.prompt[p] = {}], p, parked.tab))
  /\ UNCHANGED <<front, active>>

StopQueue(p) ==
  /\ front = p
  /\ DecisionUp(p)
  /\ \E t \in failure[p] :
       Becomes([Now EXCEPT !.failure[p] = {},
                           !.tab[p][t].queue.remaining = <<>>])
  /\ UNCHANGED <<front, active>>

ContinueQueue(p) ==
  /\ front = p
  /\ DecisionUp(p)
  /\ Open(p)
  /\ \E t \in failure[p] :
       /\ Room(p, t, 0, 1)
       /\ Becomes(SendNextStatement([Now EXCEPT !.failure[p] = {}], p, t))
  /\ UNCHANGED <<front, active>>

ShowQueuedResult(p, t, index) ==
  LET queue == tab[p][t].queue
  IN  /\ Command(p, t)
      /\ queue # NoQueue /\ index # queue.showing
      /\ IF index = Len(queue.done) + 1
         THEN queue.awaiting
         ELSE index \in DOMAIN queue.done /\ queue.done[index].state.kind # "Idle"
      /\ Becomes([Now EXCEPT !.tab[p][t].queue.showing = index])
      /\ UNCHANGED <<front, active>>

\* cancel_query: the statement running at once that is on screen alone, or
\* the tab's run with whatever of its queue is out or unsent.
CancelQuery(p, t) ==
  LET tb == tab[p][t]
      shown == tb.queue.done[tb.queue.showing].state
      marked(state) == IF IsRunning(state) THEN [state EXCEPT !.cancelling = TRUE]
                                           ELSE state
      whole == [Now EXCEPT !.tab[p][t] = [tb EXCEPT
                 !.state = marked(@),
                 !.queue.done = [i \in DOMAIN @ |->
                   [@[i] EXCEPT !.state = marked(tb.queue.done[i].state)]]]]
  IN  /\ InFront(p, t)
      /\ conn[p] = "Connected"
      /\ IF OnEntry(tb) /\ IsRunning(shown)
         THEN /\ ~shown.cancelling
              /\ Becomes([Now EXCEPT !.tab[p][t].queue.done[tb.queue.showing].state = marked(@)])
         ELSE /\ IsRunning(tb.state) /\ ~tb.state.cancelling
              /\ Becomes(DropRestOfQueue(whole, p, t))
      /\ UNCHANGED <<front, active>>

\* activate_tab: every prompt of the session goes with the tab it was over,
\* whether or not that is the tab picked.
ActivateTab(p, t) ==
  /\ front = p
  /\ Undisturbed(p)
  /\ active' = [active EXCEPT ![p] = t]
  /\ prompt' = [prompt EXCEPT ![p] = {}]
  /\ UNCHANGED <<front, conn, tab, failure, tasks>>

-----------------------------------------------------------------------------
(* Connections.                                                            *)

\* A new generation: every answer still to come was issued to the old one,
\* and the rows it was streaming have nowhere to go.
Retired(p, all) ==
  {IF task.profile = p THEN [task EXCEPT !.live = FALSE, !.grid = NoGrid] ELSE task :
     task \in all}

BeginConnect(s, p) ==
  [s EXCEPT !.conn[p] = "Connecting", !.tasks = Retired(p, @)]

\* activate: the profile comes in front, connecting unless it is connected.
Activate(p) ==
  /\ front # p
  /\ front # NoProfile => Undisturbed(front)
  /\ front' = p
  /\ LET s == [Now EXCEPT !.prompt[p] = {}]
     IN  Becomes(IF conn[p] \in {"Idle", "Failed"} THEN BeginConnect(s, p) ELSE s)
  /\ UNCHANGED active

Reconnect(p) ==
  /\ conn[p] # "Idle"
  /\ Becomes(BeginConnect(Now, p))
  /\ UNCHANGED <<front, active>>

\* The connect of the profile's own generation lands; any other is dropped.
ConnectLands(p, opened) ==
  /\ conn[p] = "Connecting"
  /\ conn' = [conn EXCEPT ![p] = IF opened THEN "Connected" ELSE "Failed"]
  /\ UNCHANGED <<front, active, tab, prompt, failure, tasks>>

\* Every query tab's queue is stopped before the connection goes.
QueuesStopped(p) ==
  [t \in Tabs |-> StopQueueOn(Now, p, t).tab[p][t]]

Disconnect(p) ==
  /\ front = p
  /\ Undisturbed(p)
  /\ front' = NoProfile
  /\ Becomes([Now EXCEPT !.conn[p] = "Idle", !.tab[p] = QueuesStopped(p),
                         !.prompt[p] = {}, !.failure[p] = {},
                         !.tasks = Retired(p, @)])
  /\ UNCHANGED active

\* leave_database: each tab keeps its text and loses its results.  A run
\* cancelled on the way stays the tab's until it comes back.
Left(p, t) ==
  LET tb == QueuesStopped(p)[t]
  IN  [tb EXCEPT
         !.state = IF IsRunning(@) THEN @ ELSE Ended("Idle"),
         !.grid = Reserve(p, t, 1)[1],
         !.queue = NoQueue,
         !.lent = NoLoan,
         !.last = Batch,
         !.ran = Batch,
         !.rows[Reserve(p, t, 1)[1]] = Empty]

\* set_database: over a new connection, or on the one there is (use_database).
SetDatabase(p, inSession) ==
  /\ front = p
  /\ Undisturbed(p)
  /\ conn[p] = "Connected"
  /\ \A t \in Tabs : Room(p, t, 1, 0)
  /\ LET s == [Now EXCEPT !.tab[p] = [t \in Tabs |-> Left(p, t)],
                          !.prompt[p] = {}, !.failure[p] = {}]
     IN  Becomes(IF inSession THEN [s EXCEPT !.tasks = Retired(p, @)]
                              ELSE BeginConnect(s, p))
  /\ UNCHANGED <<front, active>>

-----------------------------------------------------------------------------
(* Statements come back.                                                   *)

\* Rows arrive in the grid the run was sent to, while the tab is on that run.
\* A plan's never do, and a batch has none.
Pour(task) ==
  LET tb == tab[task.profile][task.tab]
  IN  /\ task.live
      /\ ~task.job.explain /\ task.job.start # Batch
      /\ HasPlace(tb, task.lane, task.job.start)
      /\ StateAt(tb, task.lane, task.job.start).run = task.id
      /\ tb.rows[task.grid] # RowsOf(task.job.start, 1, "arriving")
      /\ Becomes([Now EXCEPT !.tab[task.profile][task.tab].rows[task.grid] =
                               RowsOf(task.job.start, 1, "arriving")])
      /\ UNCHANGED <<front, active>>

Outcomes == {"Ok", "Error", "Cancelled", "Lost"}

\* Mutant of KindOf: a cancelled read is kept whether or not it had rows.
KeptIfCancelled(tb, task, outcome) ==
  IF outcome = "Cancelled" THEN "Stopped"
  ELSE IF outcome # "Ok" THEN "Failed"
  ELSE IF task.job.explain THEN "Explained"
  ELSE IF task.job.start = Batch THEN "Applied" ELSE "Complete"

\* What a result leaves the run in.  A read cancelled part way keeps the rows
\* it had.
KindOf(tb, task, outcome) ==
  IF outcome = "Ok"
  THEN IF task.job.explain THEN "Explained"
       ELSE IF task.job.start = Batch THEN "Applied" ELSE "Complete"
  ELSE IF /\ outcome = "Cancelled"
          /\ tb.rows[GridAt(tb, task.lane, task.job.start)].how = "arriving"
       THEN "Stopped" ELSE "Failed"

\* Mutant of NamesRows: another result read again names the slot's rows.
NamesAnyRows(task, kind) == kind \in {"Complete", "Stopped"} /\ task.lane = NoRun

\* Whether a result's statement is now the one behind the slot's rows.
NamesRows(task, kind) ==
  /\ kind \in {"Complete", "Stopped"}
  /\ task.lane = NoRun /\ task.job.refresh = "None"

\* The result written where the run belongs, its rows with its state.  Rows of
\* a statement that failed part way are not its result.
Written(tb, task, kind) ==
  LET grid == GridAt(tb, task.lane, task.job.start)
      rows == tb.rows[grid]
      left == CASE kind = "Complete" -> RowsOf(task.job.start, 1, "whole")
                [] kind = "Stopped" -> [rows EXCEPT !.how = "cut"]
                [] kind = "Applied" -> Empty
                [] kind = "Failed" -> IF rows.how = "arriving" THEN Empty ELSE rows
                [] OTHER -> rows
  IN  [WithStateAt(tb, task.lane, task.job.start, Ended(kind)) EXCEPT
         !.rows[grid] = left,
         !.last = IF NamesRows(task, kind) THEN task.job.start ELSE @]

\* What runs after a batch: the slot's statement, or an earlier result's own
\* in its own place.  Not once another profile is in front, whose tab of the
\* same id would take it.
FollowUp(s, p, t, job, succeeded) ==
  LET back == [s EXCEPT !.tab[p][t] = GiveBack(@)]
      again == ExecuteAndThen(s, p, t, [Ask(job.then, Batch) EXCEPT !.refresh = "Return"])
  IN  IF job.refresh = "None" THEN s
      ELSE IF job.refresh = "Return" THEN back
      ELSE IF ~succeeded THEN IF job.refresh = "Earlier" THEN back ELSE s
      ELSE IF front # p THEN back
      ELSE IF job.refresh = "Statement" THEN ExecuteAndThen(s, p, t, Ask(job.then, Batch))
      ELSE IF Busy(again, p, t) THEN again
      ELSE [again EXCEPT !.tab[p][t] = GiveBack(@)]

\* The completion of a live run.  A session found lost ends the queue here.
LandLive(s, task, outcome, sets) ==
  LET p == task.profile
      t == task.tab
      heard == IF outcome = "Lost"
               THEN [s EXCEPT !.conn[p] = "Failed", !.tab[p][t].queue.remaining = <<>>]
               ELSE s
      tb == heard.tab[p][t]
      kind == KindOf(tb, task, outcome)
      written == Written(tb, task, kind)
      shown == IF kind = "Explained" THEN ShowSlot(written) ELSE written
      landed == [heard EXCEPT !.tab[p][t] = shown]
      rest == IF kind = "Complete" THEN sets ELSE 1
  IN  IF ~HasPlace(tb, task.lane, task.job.start) THEN heard
      ELSE IF task.lane # NoRun THEN LandLane(landed, p, t, task.job.start, rest)
      ELSE IF task.job.refresh = "None"
           THEN IF front = NoProfile THEN landed ELSE AdvanceQueue(landed, front, t, rest)
      ELSE FollowUp(landed, p, t, task.job, kind # "Failed")

\* Mutant of DropStaleRun: what was issued to a connection that is gone is
\* only forgotten.
ForgetStaleRun(s, task) == s

\* drop_stale_run: the generation the run was issued to is gone.  A lane's
\* entry goes, with every statement not yet sent, and the tab is let go of
\* once the last lane is dropped; only while the tab is on the lane's run.
DropStaleRun(s, task) ==
  LET p == task.profile
      t == task.tab
      tb == s.tab[p][t]
      lane == task.lane # NoRun
      pruned == IF lane
                THEN Clamped([tb.queue EXCEPT !.done = Kept(@,
                       DOMAIN @ \ (EntriesOf(@, task.job.start) \cup WaitingIn(@)))])
                ELSE tb.queue
      released == IF pruned.awaiting
                  THEN Clamped([pruned EXCEPT !.awaiting = FALSE, !.remaining = <<>>])
                  ELSE pruned
      idled == [tb EXCEPT
        !.queue = released,
        !.state = IF IsRunning(@) THEN Ended("Idle") ELSE @,
        !.rows[tb.grid] = IF @.how = "arriving" THEN Empty ELSE @]
  IN  IF lane /\ ~(IsRunning(tb.state) /\ tb.state.run = task.lane) THEN s
      ELSE IF lane /\ \E i \in DOMAIN pruned.done : IsRunning(pruned.done[i].state)
      THEN [s EXCEPT !.tab[p][t].queue = pruned]
      ELSE [s EXCEPT !.tab[p][t] = GiveBack(idled)]

\* A cancel is told from an error only on a run that was cancelled, and a lane
\* fails on a connection of its own.
Land(task, outcome, sets) ==
  LET s == [Now EXCEPT !.tasks = @ \ {task}]
      tb == tab[task.profile][task.tab]
  IN  /\ outcome = "Lost" => task.lane = NoRun
      /\ outcome = "Cancelled" =>
           /\ HasPlace(tb, task.lane, task.job.start)
           /\ StateAt(tb, task.lane, task.job.start).cancelling
      /\ outcome # "Ok" \/ task.job.explain \/ task.job.start \notin Batches => sets = 1
      /\ Becomes(IF task.live THEN LandLive(s, task, outcome, sets)
                              ELSE DropStaleRun(s, task))
      /\ UNCHANGED <<front, active>>

-----------------------------------------------------------------------------

NewTab(g) ==
  [state |-> Ended("Idle"), grid |-> g, queue |-> NoQueue, lent |-> NoLoan,
   last |-> Batch, ran |-> Batch, rows |-> [h \in Grids |-> Empty]]

Init ==
  /\ front = NoProfile
  /\ active \in [Profiles -> Tabs]
  /\ conn = [p \in Profiles |-> "Idle"]
  /\ \E g \in Grids : /\ \A h \in Grids : g <= h
                      /\ tab = [p \in Profiles |-> [t \in Tabs |-> NewTab(g)]]
  /\ prompt = [p \in Profiles |-> {}]
  /\ failure = [p \in Profiles |-> {}]
  /\ tasks = {}

Commands(p, t) ==
  \/ \E start \in Statements : RunQuery(p, t, start) \/ ExplainQuery(p, t, start)
  \/ \E selection \in Selections :
       RunStatements(p, t, selection) \/ RunAtOnce(p, t, selection)
  \/ RefuseRun(p, t)
  \/ ReorderQuery(p, t)
  \/ RerunQueued(p, t)
  \/ ApplyEdits(p, t)
  \/ CancelQuery(p, t)
  \/ \E index \in 1..Len(tab[p][t].queue.done) + 1 : ShowQueuedResult(p, t, index)
  \/ ActivateTab(p, t)

Answers(p) ==
  \/ ApprovePendingRun(p) \/ CancelPendingRun(p)
  \/ StopQueue(p) \/ ContinueQueue(p)

Connections(p) ==
  \/ Activate(p) \/ Reconnect(p) \/ Disconnect(p)
  \/ \E opened \in BOOLEAN : ConnectLands(p, opened)
  \/ \E inSession \in BOOLEAN : SetDatabase(p, inSession)

Lands(task) == \E outcome \in Outcomes, sets \in 1..MaxSets : Land(task, outcome, sets)

Next ==
  \/ \E p \in Profiles, t \in Tabs : Commands(p, t)
  \/ \E p \in Profiles : Answers(p) \/ Connections(p)
  \/ \E task \in tasks : Pour(task) \/ Lands(task)

Spec == Init /\ [][Next]_vars

\* A statement that is out comes back: the server answers, fails, or is cut
\* off, and its completion is run.  Its landing is enabled for as long as it is
\* out, so this is weak fairness of the landings of each token.
IsOut(run) == \E task \in tasks : task.id = run

Landing(run) == \E task \in tasks \ tasks' : task.id = run

ComesBack(run) == []<>~IsOut(run) \/ []<><<Landing(run)>>_vars

FairSpec == Spec /\ \A run \in Runs : ComesBack(run)

-----------------------------------------------------------------------------
(* What has to hold.                                                       *)

Of(p, t) == {task \in tasks : task.profile = p /\ task.tab = t}

\* A tab that shows a statement running has that statement out, or a lane of
\* the run it is on: no handler leaves a spinner with nothing behind it, whose
\* tab could never run anything again.
RunHasTask ==
  \A p \in Profiles, t \in Tabs :
    IsRunning(tab[p][t].state) =>
      \E task \in Of(p, t) :
        tab[p][t].state.run = IF task.lane = NoRun THEN task.id ELSE task.lane

\* The other way about: what comes back lands in the slot unasked, so the slot
\* must be waiting for exactly that statement, and a lane's own entry for it.
\* One statement is in flight on a tab, whatever the user did since it left.
TaskOwnsSlot ==
  \A task \in tasks :
    LET tb == tab[task.profile][task.tab]
    IN  IF task.lane = NoRun
        THEN tb.state.kind = "Running" /\ tb.state.run = task.id
        ELSE task.live => /\ HasPlace(tb, task.lane, task.job.start)
                          /\ StateAt(tb, task.lane, task.job.start).run = task.id

\* A result still to come, of a queue run at once, is on a tab that is busy
\* with that queue; one that is out has a lane of it behind it.
EntryHasTask ==
  \A p \in Profiles, t \in Tabs : \A i \in DOMAIN tab[p][t].queue.done :
    LET entry == tab[p][t].queue.done[i]
    IN  /\ Out(entry.state) => IsRunning(tab[p][t].state)
        /\ IsRunning(entry.state) =>
             \E task \in Of(p, t) : /\ task.id = entry.state.run
                                    /\ task.lane = tab[p][t].state.run
                                    /\ task.job.start = entry.start

\* No two results are the same grid: a statement never fills the grid an
\* earlier one of the queue was kept in.  Queue::spare says why it is there.
OwnGrids ==
  \A p \in Profiles, t \in Tabs :
    LET tb == tab[p][t]
    IN  /\ \A i, j \in DOMAIN tb.queue.done :
             tb.queue.done[i].grid = tb.queue.done[j].grid => i = j
        /\ tb.lent.grid # tb.grid
        /\ \A i \in DOMAIN tb.queue.done :
             tb.queue.done[i].grid \notin Range(tb.queue.spare)

\* What the slot's own state is while its grid stands in for another's.
StateBehind(tb, i) ==
  IF tb.queue.done[i].grid = tb.lent.grid THEN tb.lent.state ELSE StateOf(tb, i)

\* Every result in the strip shows the rows of its own statement, all of them,
\* or of a read cancelled part way those it had: whatever was sorted, edited
\* and read again, cancelled or abandoned beside it.
OwnRows ==
  \A p \in Profiles, t \in Tabs :
    LET tb == tab[p][t]
    IN  \A i \in DOMAIN tb.queue.done :
          LET entry == tb.queue.done[i]
          IN  /\ StateBehind(tb, i).kind = "Complete" =>
                   tb.rows[entry.grid] = RowsOf(entry.start, entry.set, "whole")
              /\ StateBehind(tb, i).kind = "Stopped" =>
                   tb.rows[entry.grid] = RowsOf(entry.start, 1, "cut")

\* Only statements the queue sent land in it: never a sort, whose statement is
\* not where the buffer's was.  Queue::awaiting is there for this.
OnlyQueuedLand ==
  \A p \in Profiles, t \in Tabs : \A i \in DOMAIN tab[p][t].queue.done :
    tab[p][t].queue.done[i].start # Batch

\* The strip has only what the queue sent, in the order of the buffer however
\* it landed, a batch's sets in the order they came, and all of it before what
\* is still to be sent.
StripInOrder ==
  /\ OnlyQueuedLand
  /\ \A p \in Profiles, t \in Tabs :
      LET queue == tab[p][t].queue
      IN  /\ \A i, j \in DOMAIN queue.done :
               i < j => \/ queue.done[i].start < queue.done[j].start
                        \/ /\ queue.done[i].start = queue.done[j].start
                           /\ queue.done[i].set < queue.done[j].set
          /\ \A i \in DOMAIN queue.done, k \in DOMAIN queue.remaining :
               queue.done[i].start < queue.remaining[k]

\* While a queue says that a statement of it is still out, one is, or is
\* parked until the user answers for it.  A queue that says so with nothing
\* out holds a chip for a statement that is not coming, and takes the tab's
\* next run for its own.
AwaitingIsOut ==
  \A p \in Profiles, t \in Tabs :
    tab[p][t].queue.awaiting =>
      \/ \E task \in Of(p, t) : ~task.job.explain /\ task.job.from # Batch
      \/ \E parked \in prompt[p] : parked.tab = t

\* A queue that is run in turn holds finished results only.
FinishedInDone ==
  \A p \in Profiles, t \in Tabs :
    LET queue == tab[p][t].queue
    IN  queue.remaining # <<>> \/ queue.awaiting => ~AtOnce(queue)

\* A queue stopped part way, with statements it has not sent, is the one the
\* user is being asked about.
HeldIsAsked ==
  \A p \in Profiles, t \in Tabs :
    tab[p][t].queue.remaining # <<>> /\ ~tab[p][t].queue.awaiting => t \in failure[p]

\* The slot is lent to an earlier result only while the run it was lent for is
\* out: it always comes back.
LoanHasRun ==
  \A p \in Profiles, t \in Tabs :
    tab[p][t].lent # NoLoan =>
      \E task \in Of(p, t) : task.job.refresh \in {"Earlier", "Return"}

\* A sort, a refresh or an edit runs again the statement whose rows are in the
\* slot, never another's.
LastIsSlots ==
  \A p \in Profiles, t \in Tabs :
    LET tb == tab[p][t]
    IN  /\ tb.lent = NoLoan
        /\ ~IsRunning(tb.state)
        /\ tb.rows[tb.grid].how \in {"cut", "whole"}
        => tb.rows[tb.grid].start = tb.last

\* A statement by what does not change while it is out.
Token(task) == <<task.id, task.profile, task.tab, task.lane, task.job>>

Gone(p, t) == {task \in Of(p, t) : \A other \in tasks' : Token(other) # Token(task)}

\* The statements of the buffer that a step sends in turn.
SentNow(p, t) ==
  {task \in tasks' : /\ task.profile = p /\ task.tab = t
                     /\ task.lane = NoRun /\ task.job.from # Batch
                     /\ \A other \in tasks : Token(other) # Token(task)}

\* Once a statement failed, was cancelled, or was left behind by its
\* connection, its landing sends nothing further of the queue, nor asks leave
\* to.
NothingAfterStop ==
  [][\A p \in Profiles, t \in Tabs :
       LET done == tab'[p][t].queue.done
       IN  (\E task \in Gone(p, t) : \/ ~task.live
                                     \/ tab[p][t].state.cancelling
                                     \/ done # <<>> /\ Last(done).state.kind = "Failed")
           => SentNow(p, t) = {} /\ prompt'[p] \subseteq prompt[p]]_vars

\* "Continue sends the statement after the one that failed."
ContinueSends ==
  [][\A p \in Profiles : ContinueQueue(p) => tasks' # tasks \/ prompt' # prompt]_vars

\* A tab is not busy for ever, whatever is cancelled, disconnected or switched
\* away from meanwhile.
Freed ==
  \A p \in Profiles, t \in Tabs :
    IsRunning(tab[p][t].state) ~> ~IsRunning(tab[p][t].state)

\* A queue comes to an end, or to where the user is asked something.
QueueSettles ==
  \A p \in Profiles, t \in Tabs :
    tab[p][t].queue.awaiting ~>
      ~tab[p][t].queue.awaiting \/ prompt[p] # {} \/ failure[p] # {}

=============================================================================
