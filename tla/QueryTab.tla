------------------------------ MODULE QueryTab ------------------------------
(***************************************************************************)
(* What one query tab holds and the operations on it that need no          *)
(* connection: the slot a run writes into, the queue of a selection's      *)
(* statements with what each produced, the loan of the slot to an earlier  *)
(* result, and the grids the rows are in (src/session.rs).  Every operator *)
(* takes a tab, or the queue on one, and returns it changed.  QueryRuns    *)
(* says when they happen.                                                  *)
(*                                                                         *)
(* A statement stands for its text and for where it starts in the buffer,  *)
(* by which the code looks results up.  A grid is an entity shared by      *)
(* every handle that names it, so the rows are kept by grid: two results   *)
(* holding the same grid show the same rows.  Grids nobody holds are free  *)
(* to be named again.  An Option is the same record with nothing in it:    *)
(* NoQueue, NoLoan.                                                        *)
(***************************************************************************)
EXTENDS Naturals, Sequences, SequencesExt

CONSTANTS Statements,  \* the statements of the buffer, by where they start
          Grids,       \* the grids a tab can hold at once
          Runs         \* the cancel tokens there can be at once

ASSUME StatementsAssumption == Statements \subseteq Nat \ {0}
ASSUME GridsAssumption == Grids \subseteq Nat \ {0} /\ IsFiniteSet(Grids)
ASSUME RunsAssumption == Runs \subseteq Nat \ {0} /\ IsFiniteSet(Runs) /\ Runs # {}

NoRun == 0
NoGrid == 0

\* A batch dbdelve wrote from a grid's edits, which is none of the buffer's.
Batch == 0
Sent == Statements \cup {Batch}

-----------------------------------------------------------------------------
(* The state of a run: QueryState.  Complete is told apart three ways,     *)
(* which the source's fields say: whole, cut short by a cancel, or a batch *)
(* of edits, which has no rows.                                            *)

Kinds == {"Idle", "Running", "Complete", "Stopped", "Applied", "Explained",
          "Failed"}

State == [kind : Kinds, run : Runs \cup {NoRun}, cancelling : BOOLEAN]

Ended(kind) == [kind |-> kind, run |-> NoRun, cancelling |-> FALSE]

Running(run) == [kind |-> "Running", run |-> run, cancelling |-> FALSE]

IsRunning(state) == state.kind = "Running"

\* Sent and not back, or waiting to be sent.
Out(state) == state.kind \in {"Running", "Idle"}

\* A grid's rows: whose statement's, which of its result sets, and whether
\* they are all of them, still arriving, or kept from a cancelled read.
Rows == [start : Sent, set : Nat,
         how : {"none", "arriving", "cut", "whole"}]

Empty == [start |-> Batch, set |-> 0, how |-> "none"]

RowsOf(start, set, how) == [start |-> start, set |-> set, how |-> how]

-----------------------------------------------------------------------------
(* A queue of statements.  showing is an index into done, or one past its  *)
(* end for the statement in flight; spare holds the empty grids reserved   *)
(* for the run, taken from the end.                                        *)

Finished == [start : Sent, set : Nat, state : State, grid : Grids]

Queue == [remaining : Seq(Statements), done : Seq(Finished),
          showing : Nat, awaiting : BOOLEAN, spare : Seq(Grids)]

NoQueue == [remaining |-> <<>>, done |-> <<>>,
            showing |-> 1, awaiting |-> FALSE, spare |-> <<>>]

AtOnce(queue) == \E i \in DOMAIN queue.done : Out(queue.done[i].state)

\* The entries of a statement, by where it starts: the first set of a batch,
\* then its others.
EntriesOf(done, start) == {i \in DOMAIN done : done[i].start = start}

\* The statements not yet sent, of a queue run at once.
WaitingIn(done) == {i \in DOMAIN done : done[i].state.kind = "Idle"}

\* Where a statement has its entry, or 0.
Lane(queue, start) ==
  LET at == EntriesOf(queue.done, start) IN IF at = {} THEN 0 ELSE Min(at)

\* A selection falls back to the last result there is.
Clamped(queue) ==
  LET last == IF queue.done = <<>> THEN 1 ELSE Len(queue.done)
  IN  [queue EXCEPT !.showing = IF @ <= last THEN @ ELSE last]

\* How many of a submission's further sets find a grid.
Shown(queue, sets) == Min({sets - 1, Len(queue.spare)})

\* Mutant of SparesLeft: the grid a statement takes stays in reserve.
SparesKept(queue) == queue.spare

\* The reserve once a statement has taken its grid.
SparesLeft(queue) == IF queue.spare # <<>> THEN Front(queue.spare) ELSE <<>>

\* Mutant of Besides: further results put at the end of the strip.
BesidesLast(done, at, further) == done \o further

\* Results put in at a position, which is where they are beside their own
\* statement's.
Besides(done, at, further) ==
  SubSeq(done, 1, at - 1) \o further \o SubSeq(done, at, Len(done))

\* A submission's result sets after its first put into done at position at,
\* each in a spare; those past the last spare are dropped.
LandSets(queue, at, start, sets) ==
  LET taken == Shown(queue, sets)
      left == Len(queue.spare) - taken
      further == [k \in 1..taken |->
                    [start |-> start, set |-> k + 1, state |-> Ended("Complete"),
                     grid |-> queue.spare[Len(queue.spare) + 1 - k]]]
  IN  [queue EXCEPT
         !.done = Besides(@, at, further),
         !.showing = IF @ >= at THEN @ + taken ELSE @,
         !.spare = SubSeq(@, 1, left)]

\* The k-th smallest of a set of positions, and done with only the entries
\* there.
Nth(at, k) == CHOOSE i \in at : Cardinality({j \in at : j < i}) = k - 1

Kept(done, at) == [k \in 1..Cardinality(at) |-> done[Nth(at, k)]]

\* Nothing unsent, out or waiting: the queue can take a statement again.
Settled(queue) == queue.remaining = <<>> /\ ~queue.awaiting /\ ~AtOnce(queue)

\* Mutant of Awaits: whatever lands beside a queue is taken for its own.
TakesAny(queue) == queue # NoQueue

\* Whether what lands is a statement the queue itself sent.
Awaits(queue) == queue.awaiting

\* Mutant of NextStep: a failure is gone past.
PastFailure(failed, remaining) == IF remaining = <<>> THEN "Finished" ELSE "Next"

\* What a statement that has landed leads to.
NextStep(failed, remaining) ==
  IF remaining = <<>> THEN "Finished" ELSE IF failed THEN "Ask" ELSE "Next"

-----------------------------------------------------------------------------
(* A tab.  last and ran are the source's last_query and ran_from: the      *)
(* statement behind the grid's rows, and the one the slot's run was sent   *)
(* for, Batch where the buffer did not supply one.                         *)

Loan == [grid : Grids, state : State]

NoLoan == [grid |-> NoGrid, state |-> Ended("Idle")]

Tab == [state : State, grid : Grids, queue : Queue, lent : Loan \cup {NoLoan},
        last : Sent, ran : Sent, rows : [Grids -> Rows]]

\* The grids a tab holds a handle to.
Held(tb) ==
  {tb.grid, tb.lent.grid} \cup Range(tb.queue.spare)
    \cup {tb.queue.done[i].grid : i \in DOMAIN tb.queue.done}

\* n grids outside taken, each a different one.
FreshGrids(taken, n) == CHOOSE f \in Injection(1..n, Grids \ taken) : TRUE

HasFreshGrids(taken, n) == Cardinality(Grids \ taken) >= n

\* Rows nobody holds a grid to are gone.
Collected(tb, taken) ==
  [tb EXCEPT !.rows = [g \in Grids |-> IF g \in taken THEN @[g] ELSE Empty]]

\* The rows of the sets just put into done, which came whole; before is the
\* queue whose spares they took.
WithSets(tb, start, before) ==
  LET new(g) == {k \in 1..Len(before.spare) - Len(tb.queue.spare) :
                   before.spare[Len(before.spare) + 1 - k] = g}
  IN  [tb EXCEPT !.rows = [g \in Grids |->
         IF new(g) = {} THEN @[g] ELSE RowsOf(start, 1 + Min(new(g)), "whole")]]

\* The position of the result on screen: an entry, or the slot.
OnEntry(tb) == tb.queue.showing \in DOMAIN tb.queue.done

OnScreen(tb) == IF OnEntry(tb) THEN tb.queue.done[tb.queue.showing].grid
                               ELSE tb.grid

\* A result as its chip reads it: the slot's own state for the entry whose
\* grid is the slot.
StateOf(tb, i) == IF tb.queue.done[i].grid = tb.grid THEN tb.state
                                                     ELSE tb.queue.done[i].state

\* The entry whose grid is the slot.
SlotEntry(tb) == {i \in DOMAIN tb.queue.done : tb.queue.done[i].grid = tb.grid}

\* The slot's place in the strip, for a plan of it to be read.
ShowSlot(tb) ==
  [tb EXCEPT !.queue.showing =
     IF SlotEntry(tb) = {} THEN Len(tb.queue.done) + 1 ELSE Min(SlotEntry(tb))]

-----------------------------------------------------------------------------
(* The loan of the slot.                                                   *)

Lend(tb, index) ==
  IF \/ tb.lent # NoLoan
     \/ index \notin DOMAIN tb.queue.done
     \/ tb.queue.done[index].grid = tb.grid
  THEN tb
  ELSE [tb EXCEPT !.lent = [grid |-> tb.grid, state |-> tb.state],
                  !.grid = tb.queue.done[index].grid,
                  !.state = tb.queue.done[index].state]

\* Mutant of GiveBack: the slot stays lent.
KeepLoan(tb) == tb

\* Mutant of GiveBack: what is lent is not looked at first.
GiveBackUnlent(tb) ==
  [tb EXCEPT !.lent = NoLoan, !.grid = tb.lent.grid, !.state = tb.lent.state]

\* The slot's own grid and state come back; the result that stood in for it
\* keeps the state its run ended in, or says that it was interrupted.
GiveBack(tb) ==
  LET left == IF Out(tb.state) THEN Ended("Failed") ELSE tb.state
  IN  IF tb.lent = NoLoan THEN tb
      ELSE [tb EXCEPT
              !.lent = NoLoan,
              !.grid = tb.lent.grid,
              !.state = tb.lent.state,
              !.queue.done = [i \in DOMAIN @ |->
                IF SlotEntry(tb) # {} /\ i = Min(SlotEntry(tb))
                THEN [@[i] EXCEPT !.state = left] ELSE @[i]]]

\* What follows a batch applied to the result on screen: that result read
\* again in its own place, the slot's statement run again, or nothing that
\* can be named.
ApplyRefresh(tb) ==
  IF OnEntry(tb) /\ tb.queue.done[tb.queue.showing].grid # tb.grid
  THEN IF Lane(tb.queue, tb.queue.done[tb.queue.showing].start) = tb.queue.showing
       THEN [refresh |-> "Earlier", index |-> tb.queue.showing,
             then |-> tb.queue.done[tb.queue.showing].start]
       ELSE [refresh |-> "None", index |-> 0, then |-> Batch]
  ELSE IF tb.last # Batch
       THEN [refresh |-> "Statement", index |-> 0, then |-> tb.last]
       ELSE [refresh |-> "None", index |-> 0, then |-> Batch]

-----------------------------------------------------------------------------
(* Where a run's state and rows belong: Session::slot_at.  A run under     *)
(* NoRun writes the slot; a lane writes its own entry, and only while the  *)
(* tab is still on the lane's run.                                         *)

HasPlace(tb, lane, start) ==
  \/ lane = NoRun
  \/ /\ IsRunning(tb.state)
     /\ tb.state.run = lane
     /\ Lane(tb.queue, start) # 0

StateAt(tb, lane, start) ==
  IF lane = NoRun THEN tb.state ELSE tb.queue.done[Lane(tb.queue, start)].state

GridAt(tb, lane, start) ==
  IF lane = NoRun THEN tb.grid ELSE tb.queue.done[Lane(tb.queue, start)].grid

WithStateAt(tb, lane, start, state) ==
  IF lane = NoRun
  THEN [tb EXCEPT !.state = state]
  ELSE [tb EXCEPT !.queue.done[Lane(tb.queue, start)].state = state]

\* The slot takes the queue's last statement's result, once no lane is out;
\* the queue goes when it came to fewer than two results.
HandBack(tb) ==
  LET done == tb.queue.done
      last == done[Min(EntriesOf(done, Max({done[i].start : i \in DOMAIN done})))]
      taken == IF done = <<>>
               THEN [tb EXCEPT !.state = Ended("Idle")]
               ELSE [tb EXCEPT
                       !.state = last.state,
                       !.grid = last.grid,
                       !.ran = last.start,
                       !.last = IF last.state.kind \in {"Complete", "Stopped"}
                                THEN last.start ELSE @]
  IN  IF Len(done) < 2 THEN [taken EXCEPT !.queue = NoQueue] ELSE taken

=============================================================================
