# A verification project for dbdelve

dbdelve is a desktop database client: a sidebar of connections, tabs of SQL over
each, result grids that can be sorted and edited, and engines reached through
client libraries or through plugin processes. The interface runs on one thread,
and every statement blocks on a thread of its own for as long as a server takes.
What is hard about it is what a user can do to a tab between a statement's going
out and its coming back, what a plugin, a driver or a server can do meanwhile,
and what is left on disk when it all stops in the middle.

This directory holds TLA+ models of that, TLC configurations that check them on
small instances, and TLAPS proofs. `PROJECT.json` maps every definition to the
lines it models, lists the hazards of the code with the properties that watch
them, and gives each checked property a mutated definition that breaks it.

    tlc -workers 2 -config OneTab.cfg MCQueryRuns.tla    # a run
    tlapm QueryRunsProofs.tla                            # the proofs, a module at a time
    tlapm QueryTaskProofs.tla
    tlapm QueryQueueProofs.tla
    tlapm PluginHostProofs.tla
    tlapm OdbcBridgeProofs.tla
    tlapm ConnectingProofs.tla
    tlapm ImportRowsProofs.tla
    tlapm RestartProofs.tla

Paths below are in the repository; `src/` alone is its own `src` directory.

## The system

| part | code | state | operations | hard because |
|---|---|---|---|---|
| Query tab | `src/session.rs` | the slot a run writes into, a queue of a selection's statements with the results so far, a loan of the slot to an earlier result, reserved grids | show, lend, give back, land sets, prune, hand back | several kinds of run share one slot; a grid is an entity shared by all its handles |
| Runs of a tab | `src/workspace/queries.rs` | tasks out on threads, cancel tokens, the parked statement, the failed queue | run, run in turn, run at once, explain, cancel, continue, stop, land | landings come in any order, after any command |
| Mode gate | `src/workspace/modes.rs`, `src/sql.rs` | a mode for each connection, one parked statement, a read-only hold | stop, approve, decline, change mode | the answer comes later than the question, about another tab |
| Connections | `src/workspace/profiles.rs` | a state and a generation for each | connect, reconnect, disconnect, use a database, switch | what was issued to an older generation still lands |
| Sorts and edits | `src/workspace/editing.rs`, `src/result_grid.rs` | rows, staged edits, the statement behind them | sort, apply, read again | a chain of runs, each of which may fail |
| Relation tabs | `src/workspace/objects.rs` | a page, its count, its structure | open, page, count | like a query tab without a queue |
| Tab strip | `src/workspace/tabs.rs` | order, focus | open, close, restore | a landing may find no tab |
| Files to run | `src/workspace/files.rs` | runs waiting for a connection | open, wait, send | sent by whichever connect lands |
| Export | `src/export.rs`, `src/workspace/exports.rs` | a `.partial` file, a connection of its own | start, write, rename, cancel | a crash or cancel between writing and renaming |
| Row import | `src/import_rows/` | a transaction, the rows sent | begin, chunk, commit, roll back | a cancel or a lost session at each step |
| Store | `src/store.rs` | workspace, buffers, history, on disk | save, rename, append, compact | a crash between two writes |
| Database layer | `src/db/mod.rs`, `src/db/*.rs` | a connection and its lock, a pool of read-only connections, cancel tokens | query, stream, cancel, close | a cancel races the answer |
| SSH tunnel | `src/db/ssh.rs` | a forwarded port, a keepalive | open, forward, lose | a session outlives its tunnel |
| Plugin host | `src/db/external.rs`, `src/db/external/` | a process, the requests out, credit | start, call, grant, stop, cancel, reset, close | answer, deadline and death race |
| Plugin protocol | `plugins/protocol/` | none | encode, decode, limit | limits at their edge |
| ODBC bridge | `plugins/odbc/` | one worker, its statement handle, credit | connect, run, interrupt | the reader interrupts the worker |
| SQL reading | `src/sql.rs`, `src/mql.rs`, `src/redis_cmd.rs` | none | split, classify | text |
| Explorer, palette, completion, projects, filters | `src/explorer.rs`, `src/palette.rs`, `src/completion.rs`, `src/workspace/projects.rs` | lists | rank, filter, arrange | pure functions with unit tests |
| Views, forms, themes, keys, update, import of connections | the rest of `src/` | layout | draw | drawing and one-time I/O |

How they interact: a command reaches the workspace, which changes the tab and
starts a task. The task holds the profile's id, its generation, the tab's id and
a cancel token, and calls the database layer; rows come back as they arrive, the
result once. Its completion is queued to the interface thread, which looks the
profile and tab up again by their ids, compares generations, and either lands the
result or lets go of the tab (`drop_stale_run`). Landing may send another
statement: the next of a queue, or the read that follows an edit. Nothing else
is shared between the threads but the token.

What makes each correct:

- **Runs.** One statement at a time owns a slot; a tab that shows a run has one
  out; a result is shown beside its own statement, in its own grid, with its own
  rows; nothing is sent after a failure unless the user says so; every tab is let
  go of.
- **Gate.** A statement that writes runs only once approved; one parked is
  answered for.
- **Connections.** Nothing of an older generation changes a tab, but for letting
  go of it.
- **Plugin host.** Outstanding rows never exceed the window but for one frame
  alone; every request ends once; a cancel ends in an answer or in the process's
  end; close returns.
- **Import.** The rows reported are those kept, and none after a rollback.
- **Store, export.** After a crash each name holds the whole of the old text or
  of the new.

## The modules

| module | models | |
|---|---|---|
| `QueryTab` | `src/session.rs`, part of `queries.rs` | a tab and the operations on it, as operators |
| `QueryRuns` | `queries.rs`, `modes.rs`, `profiles.rs`, `editing.rs` | the state machine of the runs, and its properties |
| `MCQueryRuns` | | the selection and the symmetries of its instances |
| `PluginHost` | `db/external.rs`, `db/external/host.rs` | the host of one plugin process and its callers, against any plugin |
| `PluginPromise` | what callers may rely on of the same | the abstract specification `PluginHost` implements |
| `OdbcBridge` | `plugins/odbc/src/main.rs`, `run.rs` | the bridge as `PluginHost`'s plugin: the composition of the two |
| `ImportRows` | `import_rows/run.rs`, `workspace/import_rows.rs`, part of `db/mssql.rs` | one import, its dialog, and the server it talks to |
| `Restart` | `store.rs`, `queries.rs`, `session.rs`, `profiles.rs`, `objects.rs` | what query tabs leave on disk and come back with |
| `Connecting` | `profiles.rs`, `modes.rs`, `files.rs` | one profile's connects, mode and waiting files |
| `QueryRunsProofs` | | lemmas about `QueryTab`'s operators and each handler, and what a tab can be on; `TypeCorrect` |
| `QueryTaskProofs` | | what each handler leaves a tab on, and does to a lent slot; `SpinnerHasTask`, `LandsWhereSent`, `ChipHasLane`, `OneConnectionFinishes`, `LoanComesBack` |
| `QueryQueueProofs` | | what each handler does to a queue that stops, and where its statements are; `NothingFurther`, `WaitsForSomething`, `OnlyOwnLand`, `StoppedIsAsked`, `ContinueGoesOn` |
| `PluginHostProofs` | | `TypeCorrect`, `NeverAfterLoss`, `ImplementsPromise`, `HoldsWithinWindow` |
| `OdbcBridgeProofs` | | one request between host and bridge; `InterruptsItsOwn`, `CountsAgree`, `BridgeObeys` |
| `ConnectingProofs` | | `TypeCorrect`, `HeldAsMode`, `NoneLeftWaiting` |
| `ImportRowsProofs` | | `TypeCorrect`, `KeepsAllOrNothing`, `SparesCommit`, `ReportsTruly`, `NotesTruly` |
| `RestartProofs` | | what each step left of a handler finds on disk; `TypeCorrect`, `IdsStayUnused`, `TextsAreKept`, `HeldOnceAlways` |

Nothing but the commands of the user joins the five systems, so they are
checked apart; within one, everything that interacts is composed.

### Runs of a query tab

`QueryRuns` has seven variables: `front` and `active` say what is in front;
`conn` is `ProfileState`; `tab` holds each profile's query tabs; `prompt` and
`failure` are `pending_run` and `queue_failure`, sets of at most one; `tasks` are
the statements out. A `tab` is `[state, grid, queue, lent, last, ran, rows]`:
the slot's `QueryState` and grid, the `Queue`, the `Loan`, `last_query`,
`ran_from`, and what rows each grid holds.

One handler is one step, since the interface has one thread. Handlers call one
another, so each is an operator from a session to a session (`ExecuteAndThen`,
`AdvanceQueue`, `LandLane`...), named as in the code, and an action applies the
whole chain with `Becomes`: a landing that advances the queue, parks the next
statement and clears the dialog is one step. What interleaves is the tasks:
`Pour` (rows arrive) and `Land` (the result does), with any outcome the database
layer can report: rows, an error, a cancel, a session found lost.

Abstractions, and why nothing is lost:

- A statement is where it starts in the buffer, by which the code finds results.
  Which statements the gate stops (`Gated`), and which may answer with several
  result sets (`Batches`), are constants; a run at once takes any selection the
  gate lets through, since which are plain reads is the classifier's business. The
  gate reads the EXPLAIN of a statement like any other text, and an EXPLAIN that
  runs what it explains is one it stops: so that of a gated statement is parked
  or goes out.
- What is sent carries the statement it was sent for (`from`), where the code
  keeps it on the tab (`sent_from`, `queries.rs:2233`) from when it was asked
  for. They differ only where a dialog is left unanswered.
- A generation is only ever compared with the profile's own for equality, so a
  task holds whether they agree (`live`) rather than a counter.
- Cancel tokens and grids nobody holds are named again, which keeps the state
  space finite. `Room` keeps a command from being given while the model is short
  of names; landings never need one more than is free, since a task that lands
  gives one back. Where `Runs` or `Grids` are short the run simply does not
  start, so the bounds cut off behaviours and add none.
- Every statement of the buffer answers with rows. One that answers with a count
  lands as one with no rows does.
- `AnswersFirst` and `WhenConnected` are assumptions about the user: that a
  dialog is answered before anything else, and that nothing is run over a
  connection that is not open. The code enforces neither, since its key bindings
  are global: ctrl-tab and Run reach past a dialog. Some properties hold only
  under them, and the runs say which; others are checked without.
- Left out of the handlers: the history, snapshots, files and window state they
  write, which no property reads; plan panes; relation tabs, which have no queue;
  closing a tab.

### Plugin host and bridge

A caller goes from `idle` through `reading` and `returning` to `ended`: waiting
for the session's lock, waiting for what the reader thread routes to it, and
back with its result but still under the lock. `running` is the query a Cancel
reaches, `pending` and `credit` the routing table, `inbox` the channel of each
caller, `slot` the process that the watcher and `Host::drop` race to take.
Callers, the user's Cancel, each cancel's deadline, the reader, the watcher and
the drop of the last handle are steps of their own. A frame is an id, a kind and
a cost; the two pipes are queues, in which the writer's channel and the reader's
buffer are counted. `HostNext` is the host's part, `AnyPlugin` a program that
does whatever it likes, and `OdbcBridge` replaces the second by the repository's:
`ReadFrame` and `Cancelled` are its stdin thread, which keeps the lock of
`Control` across SQLCancel, and the rest its one worker, before, in and after a
driver's call.

Left out: starting a plugin and the handshake, its stderr, requests too large to
send, a caller's thread that panics, and what a plugin makes of an end of input
that follows no Close. Time is left out: a deadline comes at any moment after it
is set, which is every behaviour the clock allows and more. The pipes of
`OdbcBridge` hold whatever is written to them, so a side whose write waits for
the other to read is outside it.

### Row import

`run` is the `Run`, and `NextStep`, `Landed`, `CancelRun` and `Settle` are its
methods; the dialog's steps are `StartImport`, `Opened`, `Land`, `CancelImport`
and `Abandon`, the last of a profile removed under it. The server is what the
code relies on: a session that may be lost before a statement is carried out or
after, an open transaction that a lost or dropped session rolls back, a statement
undone whole but for a document store's `insertMany`. `relogin` is a driver that
logs in again after a lost session, which under All or nothing only SQL Server's
does. All chunks have the same number of rows. A failed import run again from
its dialog is not followed: it begins as the first did. A COMMIT carried out
whose answer was lost is reported as a failure; `ReportTrue` says so by exempting
an answer that was lost (`unheard`).

### Texts and snapshots on disk

A handler is a list of steps, `todo`, each of at most one write to disk, between
which the application may crash (`Crash`) or another program put a query's file
there (`Appears`). The tab that comes to the front for one that is closed reads
its snapshots and stores the profile in such a step (`ShowNext`), before the
closed tab's files go. A text and what a run left are numbers, so that what comes
back can be told from what was there. `owed` holds each text that was written
and since neither replaced nor discarded by its user. Assumed: `profiles.toml`
is saved whenever the code saves it, snapshots are written in one step, and no
other instance writes over a file this one holds. Another program's file takes
no name that a stored tab is waiting for, and neither does a rename or a save
(`NamesReturn = FALSE`): a tab whose file vanished keeps the name in
`profiles.toml` until the next save, and would come back with whatever has the
name by then. Left out: history, and the removal of a profile.

### Connecting

`connects` are the connects on their way, each with its stamp and the mode it
set out under; `holds` the calls of `set_read_only` not yet answered; `waiting`
is `runs_on_connect`, of one profile. Answers come in any order. `doubt` is set
while two changes of mode are out at once, or after one was refused, the two
cases `set_mode` itself names as unordered or silent. A run that overtakes the
one call that holds its session, and a transaction opened before the hold, which
keeps its access mode on some servers, are outside the model. Profiles are not
removed.

## What the runs check

| run | module | instance | shows |
|---|---|---|---|
| `OneTab` | `MCQueryRuns` | one tab, 4 grids, 3 tokens, statement 2 and batches of edits gated, statement 2 answering with up to two sets, user answers dialogs first | types, and that runs, rows, order and loans match up; with every statement coming back also that no tab stays busy and every queue ends or asks |
| `AtOnceRuns` | `MCQueryRuns` | one tab, 4 grids, 3 tokens, one lane at a time, statement 1 answering with up to two sets, user answers dialogs first | lanes that land in any order beside each other's further sets, waiting statements, sorts of earlier results and edits beside them |
| `TwoTabs` | `MCQueryRuns` | two tabs, 2 grids, 2 tokens, single statements, statement 2 gated | runs that land on the tab behind, and a prompt both tabs share |
| `AnyPlugin` | `PluginHost` | any two of a run, a hold and a catalog request, window 2, frames of 1 and 3, one frame on its way | every order of answer, violation, loss, deadline, death and close, and the refinement |
| `Bridge` | `OdbcBridge` | one run, one hold, one catalog request, window 2, frames of 1 and 3, two frames a statement | credit, stop and cancel across both ends |
| `Import` | `ImportRows` | 3 chunks of 2 rows | every place a run can fail, be stopped or lose its session in |
| `Restart` | `Restart` | 2 names, 2 tabs, 2 texts, 1 run, 1 crash | every place between two writes |
| `Connect` | `Connecting` | 4 gestures, 3 changes of mode, 2 files | every order of answers |

The instances are the smallest with the case in question. Of `QueryRuns`, the
queue `<<1, 2>>` has a first statement and one after it, which is what in-turn
order, a failure with something left, and a parked second statement need; two
tabs with a queue each are beyond minutes. A window of 2 with frames of 1 and 3
has a frame that fits, two that fill the window, one that must wait and one that
goes alone. `MaxOut` bounds the frames a plugin has on their way, which only the
reader's pace decides; one is enough for every order of what the host does with
them, and the bridge is not bounded by it. `MaxCalls` is two with three requests
to choose from, so that every pair of kinds meets over one session; `Bridge` has
all three, and the theorems have any number. Three chunks have a first, a last and
one between. One crash is enough to reach any state a crash leaves, since a
launch begins with nothing but the disk; a second would need another crash
within the first handlers after it, over a disk of the same kind. Deadlock is
checked but in `AnyPlugin` and `Bridge`, where a closed host stops, and in
`Connect` and `LeftWaiting`, where the bounds end the user's gestures.

The properties, in `QueryRuns` under "What has to hold", in words: a busy tab has
its statement out (`RunHasTask`) and the other way about (`TaskOwnsSlot`), entry
by entry for a queue run at once (`EntryHasTask`); results never share a grid
(`OwnGrids`), show their own rows (`OwnRows`) and are only what the queue sent
(`OnlyQueuedLand`), in the buffer's order (`StripInOrder`, which has both); while a
queue waits there is something to wait for (`AwaitingIsOut`), one run in turn holds
finished results (`FinishedInDone`, which only `LandsInFront` checks) and one
stopped part way is asked about (`HeldIsAsked`); a lent slot has a run behind it (`LoanHasRun`); a sort runs
again the statement whose rows it is over (`LastIsSlots`); nothing follows a
failure, a cancel or a dead generation (`NothingAfterStop`); Continue sends
something (`ContinueSends`, which is proved and has no run).

The host (`PluginHost`, and `OdbcBridge` for the last five): what the plugin has
sent and no caller has handed on is within the window, or one frame alone, for
any plugin (`WithinWindow`); once a session is lost nothing more is put to it,
which for a statement after a hold that failed would be to run it unheld
(`NothingAfterLoss`); callers see no more than `PluginPromise` (`PromiseKept`); a
Cancel ends in the call's return (`CancelReturns`), as a death does (`DeathTold`),
and the drop of the last handle in the process's end (`CloseEnds`), whatever the
plugin does. With the bridge, the counts of credit at both ends differ by what is
on its way (`CreditAgrees`), so that the host never takes the bridge for one that
broke the protocol (`NeverBroken`); SQLCancel is called on the statement it was
for, in a call (`InterruptsOwn`); a batch waiting for credit gets it
(`CreditComes`).

The import: `AllOrNothing`; what the dialog reports at the end is what the table
keeps (`ReportTrue`), and what is said of one stopped with its profile is off by
the statement that was out at most (`NoteTrue`); no Cancel is on its way to a
session that commits (`CommitSpared`); every import ends, with no transaction
left open (`ImportEnds`).

Restarting: `TextKept`, for a crash in any place and a failed write; no id that
may be handed out has a file (`IdsUnused`), or a tab, in memory or as stored
(`TypeOK`); a saved query is in one tab at most, in the window and at the next
launch, else each would write over what the other wrote (`HeldOnce`). Connecting: a session that settles is
held as the mode on screen says (`HoldsAsMode`); a file's statement waits only
for a connect on its way (`WaitsForConnect`); every connect settles
(`ConnectSettles`).

### What the code does otherwise

Four runs end in a violation, each of a property that a comment or a text of the
code states:

| run | what happens |
|---|---|
| `LandsInFront` | `advance_queue` takes the tab of that id on the profile in front (`queries.rs:746`), so a landing behind pushes a slot that is running into another connection's queue |
| `ImportSqlServer` | a session lost in the `SELECT @@ROWCOUNT` that follows a statement is reset and the statement answered Ok (`mssql.rs:942`); the next chunk logs in again and commits on its own, COMMIT fails, and the dialog says nothing was imported |
| `RestoredStrip` | a queued statement that failed or had no columns writes no snapshot and removes none (`session.rs:2817`), so an earlier queue's result comes back in its place |
| `LeftWaiting` | a later file's tab that cannot be made leaves the earlier statements waiting on a connected profile (`files.rs:211`); its next connect runs them |

The passing runs keep clear of these by their constants: one profile,
`SqlServer = FALSE`, a strip of one result, `SaveFails = FALSE`; of `Restart`, by
`NamesReturn = FALSE` too. More of the same
kind is known of the runs of a tab and has no run of its own; the constants keep
clear of it too (one tab with a queue, `WhenConnected`, `AnswersFirst`, no more
sets than expected):

- A selection run before the connection opens leaves `awaiting` set
  (`queries.rs:2074`), and a later sort lands in its queue.
- `queue_failure` holds one tab (`queries.rs:821`): a second failure leaves the
  first queue held with nobody asked. `pending_run` holds one statement
  (`queries.rs:1977`): a second tab's replaces it.
- Switching tabs under the prompt drops the parked statement without
  `release_queue` (`session.rs:1300`), as does a prompt answered after the mode
  was raised (`modes.rs:176`).
- More sets than `expected_sets` take the grids reserved for the statements
  after, and the next is sent over the batch's own result (`session.rs:1851`,
  `queries.rs:907`): `AtOnceRuns` does not have `OwnGrids`, given
  `MaxSets = 3`.
- A sort of an earlier result brings back the slot entry's stored state, which a
  failed sort had made stale (`queries.rs:721`): `AtOnceRuns` does not have
  `OwnRows`, given `Batches = {}`.
- Explain under the open dialog of a failed queue, and then Continue, puts a
  result out of order: TLC finds `StripInOrder` violated in `AtOnceRuns`, given
  `AnswersFirst = FALSE`, and nothing else the run checks. Continue pressed while
  an EXPLAIN is out drops the statement, since the tab is busy
  (`forms.rs:1822`).
- A batch of edits parked by the gate names the result to read again by its
  place in the strip (`session.rs:2676`). Let results still be on their way, and
  the connection be renewed before the batch is approved: what was not sent is
  taken out of the strip, and another result is lent, blanked and filled with the
  rows of the first. `OneTab` does not have `LastIsSlots`, given `Gated = {0}` and a
  selection of three.
- An EXPLAIN after a declined statement shows a result that has no chip
  (`session.rs:1721`).
- `remove_profile` (`profiles.rs:2209`) leaves the profile's waiting runs, and a
  Files profile made again has the same id and counts its tabs from zero.
- A tab whose query was gone at launch is unsaved, but stored under the query's
  name until `profiles.toml` is next saved (`session.rs:2734`). Put that file
  back, or save another buffer under the name and crash before its tab is
  stored, and the next launch gives the tab the file; what was typed into it
  meanwhile stays in a scratch file nobody reads. With `NamesReturn = TRUE`, TLC
  finds `TextKept` violated.
- A history line cut short by a crash takes the next one with it
  (`store.rs:1358`), and a run that lands after its profile was removed makes the
  profile's directory anew.

### Fairness

- `QueryRuns`: if a statement is out under a token for ever, some statement under
  it lands. The blocking call returns when a server answers or its connection
  ends, and its completion is queued to a thread that never blocks. A statement on
  a server that never answers is outside it: the code waits for that one too.
- `PluginHost`: each of the host's own threads runs, a caller takes what is routed to it,
  and time passes. Nothing is asked of the plugin, so `CancelReturns`, `DeathTold`
  and `CloseEnds` hold for one that hangs. `OdbcBridge` adds that the bridge's two
  threads run; a driver's call need never return.
- `ImportRows`: opening and landing are completions as above, a step is answered
  or its session is lost, and a server rolls back what a dropped session left.
- `Connecting`: a connect answers, since every engine gives up on one after a time
  of its own.

No fairness is asked of the user, who may stop giving commands anywhere. What is
assumed of the user is named where it is: `AnswersFirst` and `WhenConnected` in
the runs that say so; and in `Connect` the bounds `MaxAsks` and `MaxFlips`, with
which the user stops connecting and changing the mode in the end. `ConnectSettles`
rests on that, as a mode changed for ever while the connects land would keep the
session changing hands.

## What is proved

`TypeCorrect` (`QueryRunsProofs`): `Spec => []TypeOK`, for every buffer, gate,
and any number of connections, tabs, grids, tokens and lanes, from the
assumptions `QueryTab` and `QueryRuns` state of their constants: positions are
positive, grids and tokens finite, a selection has at least two statements in
order, the counts are positive.

`TypeOK` is inductive as it stands, and says more than shapes: that a slot names
a real grid means that what is given back was lent (a loan of nothing is apart
from every loan), and that a strip's entries are results means that every index
the handlers compute is inside the strip: the lane of a statement, the place its
further sets go, the k-th entry kept by a prune, the entry a queue hands back.
So the proof is about those:

- `RankExists`, `NthMember`, `MinMember`, `MaxMember`: a finite set of positions
  has a k-th smallest, by counting members below (an injection into as many
  numbers is onto);
- `LaneType`, `LandSetsType`, `KeptType`, `HandBackType`, `GiveBackType`...: what
  each operator on a tab returns;
- a lemma for each handler, on any session; one for each action; then `InitType`
  and `NextType`, and the theorem.

`LoanComesBack` (`QueryTaskProofs`): `Spec => []LoanHasRun`, under the same
assumptions. A slot is lent by the batch of edits on an earlier result and comes
back when the result has been read again, two landings later;
in between the user may disconnect, switch, cancel or change database, and the
reading may be parked or refused. The inductive invariant is `TypeOK`,
`LoanHasRun`, and `LanesArePlain`: no lane of a queue run at once carries a
refresh. Without the last, the landing of a lane could take away the one
statement a loan hangs on, since a lane gives nothing back. Within a landing the
invariant does not hold, which is what makes it easy to get wrong: the statement
is gone before its follow-up runs. So the lemmas are about `Sound(s, out)`, a
session whose loans all have a run but on the tabs in `out`:

- `Keeps`: most handlers lend nothing and take no statement back (`KeepsSound`);
- `SendSound`, `GiveBackSound`: sending for the loan, or giving the slot back,
  settles the tab that was left out; `ReadAgainSound`: the reading either goes
  out or leaves the tab idle, which is when the code gives back;
- `LandLiveSound`, `DropStaleRunSound`: a landing, of a live connection or a dead
  one, ends sound; `CommandsLoans`, `AnswersLoans`, `ConnectionsLoans`,
  `LandLoans`: the actions; `NextLoans`.

`SpinnerHasTask` and `LandsWhereSent` (`QueryTaskProofs`): `Spec => []RunHasTask`
and `Spec => []TaskOwnsSlot`, with no assumption about the user and any number of
connections. Neither is inductive: a tab could show a run with two statements
out under its token, and the first to land would leave the second with no slot.
What is inductive (`OwnedRunsInvariant`) is an account of everything out of a
tab. It is free; or on its slot, with one statement out that is no lane
(`OnSlot`); or on its lanes, where whatever is out or running in the strip is the
first entry of its statement, every running entry has its lane, and every live
lane its entry (`OnLanes`, `Backed`, `InEntry`). Besides there may be lanes of
connections that are gone (`Still`), which land in nothing. That other tabs
cannot tell rests on tokens: no two statements have one in common, no lane's
token is a statement's, the lanes of a run are all live or all not (`Ids`), and
only what runs holds one (`Plainly`). Here too a handler breaks the account
midway, so the lemmas are about `Accounted(s, out)`, all tabs but those being
written:

- `FreeOwned`, `BecomesOwned`, `IdsAdded`: a handler that accounts for the tabs it writes
  and makes no token twice leaves every other tab accounted for;
- `SendAccounted`, `StartWaitingAccounted`, `LandLaneAccounted`,
  `LandLiveAccounted`, `DropStaleRunAccounted`, `AdvanceQueueAccounted`: a lemma
  for each handler that sends or lands; a lane that lands without being the last
  keeps the others' entries, the last one frees the tab;
- the actions, then `NextOwned`.

`ChipHasLane` and `OneConnectionFinishes`: where there is one connection
(`Single`), `Spec => []EntryHasTask` and `Spec => []FinishedInDone`. The
assumption is what `LandsInFront` shows to be needed, and the second theorem says
that nothing else is. Both come from one more part of the same account: a tab
that is free, or on its slot, has a queue with every result in (`AllIn`), so a
result still to come means that the tab is on its lanes, and those `Backed` has.
It is where a handler leaves results behind that this could fail: a run stopped,
a queue dropped or pruned by a stale lane, a slot given back over an entry that
was out, and a landing in turn, which pushes the slot's state into the strip and
must find it landed.

`NothingFurther` (`QueryQueueProofs`): `Spec => NothingAfterStop`, an action
property: the landing of a statement that failed, was cancelled or was left
behind by its connection sends nothing of the buffer for its tab, and parks
nothing. It is of every step, with no assumption about the user or the number of
connections. Which handler is running cannot be told from a step, so the proof
first shows that only a landing takes a statement back (`TokensKept`, `Gone`).
Of a landing, three cases can send. The lanes of a queue run at once were sent
with its first, and take nothing of the buffer when they land (`Unsent`). What
follows up a batch, a reading, is no statement of the buffer, and is not gated:
so the parked statement is as it was, which needs of every statement out or
parked that its follow-up is ungated (`Follows`). And `advance_queue` asks for
the next statement of a cancelled run that ended well, for it looks at failures
only: what stops it is that whoever cancelled took what the queue had left. The inductive
invariant (`OrderKept`) is therefore that a slot marked cancelled has a queue
with nothing to send and that a lent slot is not running, so that giving it back
never brings a cancelled run with statements to send (`Halts`). That the run
marked is the one that lands is `OwnedRuns`, above. `AdvanceQueueSends` is the
case of a failure, in which `QueryQueue::next` decides.

`WaitsForSomething`, `OnlyOwnLand`, `StoppedIsAsked` and `ContinueGoesOn`
(`QueryQueueProofs`): `Spec => []AwaitingIsOut`, `Spec => []OnlyQueuedLand`,
`Spec => []HeldIsAsked` and `Spec => ContinueSends` of one tab (`Alone`) whose
user answers what is asked (`AnswersFirst`) and runs nothing before the
connection opens (`WhenConnected`). `OneTab` is an instance of the three
hypotheses; with any one of them left out, TLC finds `AwaitingIsOut` violated,
in a way listed above.

They are of a queue's statement where `OwnedRuns` is of a tab's, and a statement
of a queue need not be out: the gate may have parked it, or its failure may have
left those after it to the user. None is inductive, since which of them a queue
is in depends on the slot, the prompt and the failure at once. `QueuesPlaced`,
which is, says that a queue is in one of four places (`Placed`): it waits for
nothing and the user is asked nothing (`Rests`); a statement of it is out, the
one the tab shows (`Advances`); the next is the one statement parked
(`AwaitsLeave`); or it waits for nothing, its last result failed, it has more to
send and the user is asked (`IsStopped`). What is out of a live connection is of
one that is open (`Linked`), so the next statement of a queue is never asked of
a closed one, which would leave it waiting for nothing. And where a statement of
the queue is out, or the queue stopped, the prompt holds none of the queue's
(`Aside`): what Continue sends, or parks, is then new to where it goes, and
since a queue that stopped is not busy and has more to send, it does one of the
two (`SendNextGoes`).

In the last two places the user is being asked something, and does nothing else
until it is answered; so a command finds its queue at rest, or busy, when it
does no more than mark or rearrange (`Marks`, `ExecuteAndThenBusy`). A landing
is the other way from one place to another: the handlers that follow it up
either send nothing, and the queue comes to rest, or send the one statement that
keeps it where it is.

`PluginHostProofs`, for any number of requests of each kind, any window and
frames, and any plugin. `IInv` adds to `TypeOK`: whoever is in a call has the
session (`HasSession`), which is what makes requests go one at a time; a request
not ended has no result (`NoneYet`); only the host says that the connection was
reset, and not before it was (`ResetTold`), whatever the plugin puts in its
frames; and a loss a caller was told of is on record (`LossKept`), as the next
caller looks at the record and not at the result. `NeverAfterLoss`:
`Spec => []NothingAfterLoss`. `ImplementsPromise`: `Spec => PromiseKept`, by step
simulation: a start is a `Put`, which needs `HasSession` for nobody else to be
out and `LossKept`'s record to be clear; a refusal is a `Drop`; an answer taken
is an `Answer`, with or without the loss it says; a caller that learns of the
reset, or causes it, is a `Lose` that tells it; and of the steps that leave
callers alone, the first that records a loss is a `Lose` that tells nobody and
the rest are stutters (`StillPromised`).

`HoldsWithinWindow` (`PluginHostProofs`): `Spec => []WithinWindow`. The invariant
is that until its answer a statement's credit, which one frame larger than what
is left of it takes below zero, and the rows held for it add up to the window
(`CreditKept`), and that a caller that reads nothing holds nothing
(`NothingKept`). What is held is a sum over a sequence, and the
library's induction cannot be cited for it, so its two facts, about a frame put
at the end and one taken from the front, are proved by the least length of a
counterexample (`Sums`).

`OdbcBridgeProofs`, for the composition, with any number of requests, any window
and any batches. Behind all three is that one request is anywhere between host
and bridge: in the pipe, in the bridge's queue, with its worker, or answered and
not yet read (`OneRequest`: `Asked`, `Passed`, `Works`, `Answered`). Neither side
checks it and both lean on it: the host by its lock, the bridge by its single
`control`. From it `InterruptsItsOwn`: `BridgeSpec => []InterruptsOwn`, since a
handle is within reach during a call only (`Handle`), and the call is of the
request the `control` was made for. `CountsAgree`: `BridgeSpec => []CreditAgrees`,
for which `CreditPart` adds that the pipe holds at most one frame of rows in
excess of credit, that a grant is of a request begun, and that a request nobody
has served has sent nothing. `BridgeObeys`: `BridgeSpec => []NeverBroken`, from
the two: a frame is of a request that is pending, and its rows are covered.

`TypeCorrect` (`ConnectingProofs`) is inductive as it stands: connects bear
stamps already given, which is what lets an answer be told stale. `HeldAsMode`:
`Spec => []HoldsAsMode`, for any bounds. The invariant it needs says of a connect
that bears the profile's stamp that its profile is connecting, and of a session
in no doubt with one call out, that the call is the mode's; so that when the call
lands the two agree, and a session just installed was checked against the mode on
landing. `NoneLeftWaiting`: where `SaveFails = FALSE`,
`Spec => []WaitsForConnect`; the assumption is what `LeftWaiting` shows to be
needed.

`KeepsAllOrNothing` (`ImportRowsProofs`): where `SqlServer = FALSE`,
`Spec => []AllOrNothing`, for any plan. The assumption is what `ImportSqlServer`
shows to be needed. `AllOrNothing` looks only at what is kept; what keeps it true
is what is known of the server while each step is out, and that is the inductive
invariant: under All or nothing, with BEGIN out nothing is kept and a good answer
means an empty transaction (`BeginOut`); with a chunk out the transaction holds
the chunks that landed, or one more if the answer is good (`ChunkOut`); with
COMMIT out every chunk has landed, and the table keeps all or none of them
(`CommitOut`); before the first step nothing is (`Unstarted`). A lost session
breaks "the transaction holds what landed", and the proof goes through because
from then on no driver but SQL Server's answers well again.

`ReportsTruly` and `NotesTruly`, under the same assumption: `Spec => []ReportTrue`
and `Spec => []NoteTrue`, for an import of either kind. To what All or nothing
needs is added what the table has while a step of an import in pieces is out: the
chunks that landed, and of the one that is out what its answer will say
(`PieceOut`), or for a lost one anything up to it, which the dialog says
(`Told`). `TypeCorrect` and `SparesCommit` need no such assumption; the second
from `CommitClear`, that a Cancel pressed before COMMIT was sent has turned the
run away from it.

`RestartProofs`, for any number of tabs, names, texts, runs and crashes. `TypeOK`
and `IdsUnused` (`TypeCorrect`, `IdsStayUnused`) come with the bounds of the ids,
that no tab has one from the stored `next` on (`Bounded`), and with what each step
left of a handler names (`ListOK`), such as that an id is free when `OpenTab`
takes it. What keeps them across a crash is the order in which the code writes:
`profiles.toml` has the next id before the tab that took one writes anything.

`TextsAreKept`: where `NamesReturn = FALSE`, `Spec => []TextKept`; the assumption
is the one above, and TLC shows that it is needed. Every write to disk is a step
of its own, so `TextKept` speaks of the state between any two of them, and it is
not inductive: whether `DeleteScratch` loses a text depends on whether the query
was installed before it, which is in `todo` only. `TextInv` therefore says where
the texts are and what the rest of the handler will find:

- a text owed is in a query's file, or in the scratch file of a tab that is stored
  as unsaved or under a name that is gone, and has no name in memory (`Kept`);
- an open tab is stored, under its name or one that is gone (`Synced`, `Gone`),
  and no two are under one name (`Unique`);
- a tab's file has what the tab read or wrote last, but while the handler is
  about to forget it (`Settled`), so a write replaces what `owed` says it does;
- for each step left, what it finds when its turn comes (`Plan`): a scratch file
  is forgotten when the tab has a name whose file has the text, when the file
  with it was installed just before, or when its tab was removed; a name is taken
  when no tab has it and the file under it is the tab's.

A crash, a failed write and a file that appears are then one more step each, in
any of those states; a failed write leaves only steps that `Plan` asks nothing of
(`AbortPlan`). TLC checked `TypeInv` and `TextInv` on two tabs, names and crashes
before they were proved.

`HeldOnceAlways`, under the same assumption: `Spec => []HeldOnce`. It is `Unique`,
which is not inductive by itself: what is stored lags behind what is in memory,
and a tab that takes a name, or comes back under one, must find it with no other
tab on either side. That is what `Plan`, `Synced` and `Gone` say of it.

Model-checked only, on the instances above:

- `StripInOrder`: `Placed` says that a statement of the queue is out or parked,
  and not which; its invariant must also order what the queue holds, statement by
  statement, for every handler that adds a result.
- `LastIsSlots`, `OwnRows`: what rows are in a grid, which every handler that
  writes one would have to be shown to leave to the others; and `OwnGrids`, which
  holds only for as many sets in an answer as there are grids reserved.
- Liveness, which is out of the prover's reach: `Freed`, `QueueSettles`,
  `CancelReturns`, `DeathTold`, `CloseEnds`, `CreditComes`, `ImportEnds`,
  `ConnectSettles`.

## What is not modelled

- **Parsing and pure functions**: SQL, MongoDB and Redis reading, completion,
  ranking, filters, formats of files and of other clients' settings. They keep no
  state between calls, and the repository tests them by input and output. Most of
  the source by length is this, or the next two.
- **Drawing**: views, forms, the grid's layout, themes, keys.
- **Engine drivers**: calls into client libraries. What a server answers is an
  outcome of a landing; the part of `mssql.rs` All or nothing depends on is in
  `ImportRows`.
- **Export, SSH tunnel, update check**: one task each, that shares nothing while
  it runs; a tunnel's loss is a session's.
- **Of what is modelled in part**: relation tabs (runs with one slot and no
  queue), closing a tab while its run is out, staging and review of edits, history
  and its compaction, catalog and completion loads, removal of a profile, a
  connection's lock and its pool of read-only connections.

What would come next: the mode as a variable of `QueryRuns`, for the prompt
answered after it changed; removal of a profile in `Connecting` and `Restart`,
for an id that comes again; an abstract queue that `QueryRuns` implements for a
user who answers first.
