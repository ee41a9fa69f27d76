----------------------------- MODULE ImportRows -----------------------------
(***************************************************************************)
(* One import of rows: the Run of src/import_rows/run.rs, the dialog of    *)
(* src/workspace/import_rows.rs that drives it over a session of its own,  *)
(* and the server at the other end, modelled from what the code relies on. *)
(*                                                                         *)
(* Every chunk has the same number of rows, so a count of rows is a count  *)
(* of chunks and, where a chunk stopped part way, of rows in it.           *)
(***************************************************************************)
EXTENDS Integers

CONSTANTS Chunks,      \* the chunks of the plan, at least one
          Rows,        \* the rows of a chunk
          SqlServer    \* All or nothing may go through a driver that logs in
                       \* again after losing its session

ASSUME PlanAssumption ==
  Chunks \in Nat \ {0} /\ Rows \in Nat \ {0} /\ SqlServer \in BOOLEAN

VARIABLES
  dialog,      \* where the import dialog is
  run,         \* the Run
  opened,      \* the dialog has its session
  task,        \* what is out: opening the session, or a step
  answer,      \* its answer, once there is one, not yet landed
  stopping,    \* a Cancel on its way to the server
  note,        \* what was said of an import stopped with its profile
  relogin,     \* the import's driver logs in again
  session,     \* its session on the server
  tx,          \* it has a transaction open
  staged,      \* the chunks in it
  kept,        \* the rows the table keeps of the file
  unheard      \* rows were kept and the answer saying so was lost

screen == <<dialog, run, opened, note>>
server == <<relogin, session, tx, staged, kept, unheard>>
vars == <<screen, task, answer, stopping, server>>

Steps == {"begin", "chunk", "commit", "rollback"}
Count == [chunks : 0..Chunks, part : 0..Rows]
Outcome == [is : {"none", "imported", "cancelled", "failed"}, count : Count]

Nothing == [chunks |-> 0, part |-> 0]
Whole == [chunks |-> Chunks, part |-> 0]
NoOutcome == [is |-> "none", count |-> Nothing]
NoAnswer == [is |-> "none", applied |-> 0]

-----------------------------------------------------------------------------
(* The Run.                                                                *)

NewRun(atomic) ==
  [atomic |-> atomic, begun |-> FALSE, landed |-> 0, partial |-> 0,
   cancelled |-> FALSE, failed |-> FALSE, outcome |-> NoOutcome]

\* Mutant of NextStep: one chunk more than there are.
NextStepPast(r) ==
  IF r.outcome # NoOutcome THEN "none"
  ELSE IF ~r.atomic THEN "chunk"
  ELSE IF r.failed \/ r.cancelled THEN "rollback"
  ELSE IF ~r.begun THEN "begin"
  ELSE IF r.landed <= Chunks THEN "chunk" ELSE "commit"

\* Run::next.
NextStep(r) ==
  IF r.outcome # NoOutcome THEN "none"
  ELSE IF ~r.atomic THEN "chunk"
  ELSE IF r.failed \/ r.cancelled THEN "rollback"
  ELSE IF ~r.begun THEN "begin"
  ELSE IF r.landed < Chunks THEN "chunk" ELSE "commit"

Ended(is, chunks, part) ==
  [is |-> is, count |-> [chunks |-> chunks, part |-> part]]

\* Run::settle: commit as it goes has no closing step.
Settle(r) ==
  IF r.atomic THEN r
  ELSE [r EXCEPT !.outcome =
          IF r.failed THEN Ended("failed", r.landed, r.partial)
          ELSE IF r.landed = Chunks THEN Ended("imported", r.landed, 0)
          ELSE IF r.cancelled THEN Ended("cancelled", r.landed, r.partial)
          ELSE NoOutcome]

\* Run::landed, for each step and answer.
LandedOk(r, step) ==
  IF step = "begin" THEN [r EXCEPT !.begun = TRUE]
  ELSE IF step = "chunk" THEN [r EXCEPT !.landed = @ + 1]
  ELSE IF step = "commit" THEN [r EXCEPT !.outcome = Ended("imported", r.landed, 0)]
  ELSE [r EXCEPT !.outcome = Ended(IF r.cancelled THEN "cancelled" ELSE "failed", 0, 0)]

\* Mutant of LandedErr: a BEGIN that failed counts as begun.
LandedErrBegun(r, step, a) ==
  IF step \in {"begin", "rollback"} THEN LandedOk(r, step)
  ELSE [r EXCEPT !.partial = IF step = "chunk" /\ ~r.atomic THEN a.applied ELSE @,
                 !.failed = @ \/ ~(step = "chunk" /\ r.cancelled /\ a.is = "cancelled")]

\* Mutant of LandedErr: what a failed chunk wrote is not counted.
LandedErrUncounted(r, step, a) ==
  IF step = "rollback" THEN LandedOk(r, step)
  ELSE [r EXCEPT !.failed = @ \/ ~(step = "chunk" /\ r.cancelled /\ a.is = "cancelled")]

\* Mutant of LandedErr: a ROLLBACK that failed is sent again.
LandedErrAgain(r, step, a) ==
  [r EXCEPT !.partial = IF step = "chunk" /\ ~r.atomic THEN a.applied ELSE @,
            !.failed = @ \/ ~(step = "chunk" /\ r.cancelled /\ a.is = "cancelled")]

LandedErr(r, step, a) ==
  IF step = "rollback" THEN LandedOk(r, step)
  ELSE [r EXCEPT !.partial = IF step = "chunk" /\ ~r.atomic THEN a.applied ELSE @,
                 !.failed = @ \/ ~(step = "chunk" /\ r.cancelled /\ a.is = "cancelled")]

Landed(r, step, a) ==
  Settle(IF a.is = "ok" THEN LandedOk(r, step) ELSE LandedErr(r, step, a))

\* Run::cancel.
CancelRun(r) ==
  IF r.outcome # NoOutcome \/ r.failed \/ (r.atomic /\ r.landed = Chunks) THEN r
  ELSE Settle([r EXCEPT !.cancelled = TRUE])

-----------------------------------------------------------------------------
(* The dialog.                                                             *)

Init ==
  /\ dialog = "editing" /\ run \in {NewRun(a) : a \in BOOLEAN}
  /\ opened = FALSE /\ task = "none" /\ answer = NoAnswer /\ stopping = FALSE
  /\ note = [said |-> FALSE, landed |-> 0]
  /\ relogin \in BOOLEAN /\ (run.atomic /\ relogin => SqlServer)
  /\ session = "none" /\ tx = FALSE /\ staged = 0 /\ kept = Nothing
  /\ unheard = FALSE

Running == dialog = "running"

StartImport ==
  /\ dialog = "editing"
  /\ dialog' = "running" /\ task' = "opening"
  /\ UNCHANGED <<run, opened, note, answer, stopping, server>>

\* import_step and finish_import: the next step goes out, or the dialog ends
\* and its session with it.  Only a failure keeps the dialog.
Advance(r) ==
  /\ run' = r
  /\ answer' = NoAnswer
  /\ IF NextStep(r) = "none"
     THEN /\ dialog' = IF r.outcome.is = "failed" THEN "failed" ELSE "closed"
          /\ task' = "none" /\ session' = "dropped"
     ELSE /\ dialog' = dialog
          /\ task' = NextStep(r) /\ UNCHANGED session

\* Mutant of NobodyWaits: the steps go on over a Run of their own, which a stop
\* of the dialog's does not reach.
GoesOnAlone ==
  LET own == [run EXCEPT !.cancelled = FALSE]
      r == IF task = "opening" THEN run ELSE Landed(own, task, answer)
      next == IF task = "opening" THEN "none" ELSE NextStep(r)
  IN  /\ run' = r /\ answer' = NoAnswer /\ task' = next
      /\ session' = IF next = "none" THEN "dropped" ELSE session
      /\ UNCHANGED dialog

\* The dialog went with its profile: what was out ends with no one to tell,
\* and the session goes with it.
NobodyWaits ==
  /\ task' = "none" /\ answer' = NoAnswer /\ session' = "dropped"
  /\ UNCHANGED <<dialog, run>>

OpenFails ==
  /\ task = "opening"
  /\ task' = "none"
  /\ dialog' = IF Running THEN "failed" ELSE dialog
  /\ UNCHANGED <<run, opened, note, answer, stopping, server>>

Opened ==
  /\ task = "opening"
  /\ IF Running THEN opened' = TRUE /\ (IF NextStep(run) = "none"
                                        THEN Advance(run)
                                        ELSE /\ task' = NextStep(run)
                                             /\ session' = "open"
                                             /\ UNCHANGED <<dialog, run, answer>>)
     ELSE NobodyWaits /\ UNCHANGED opened
  /\ UNCHANGED <<note, stopping, relogin, tx, staged, kept, unheard>>

Land ==
  /\ task \in Steps /\ answer # NoAnswer
  /\ IF Running THEN Advance(Landed(run, task, answer)) ELSE NobodyWaits
  /\ UNCHANGED <<opened, note, stopping, relogin, tx, staged, kept, unheard>>

\* Mutant of Stop: whatever is out is stopped on the server.
StopAnything ==
  /\ run' = CancelRun(run)
  /\ stopping' = (stopping \/ opened)

\* stop_import: the statement that is out is stopped on the server too, but a
\* COMMIT or a ROLLBACK is left to finish.
Stop ==
  /\ run' = CancelRun(run)
  /\ stopping' = (stopping \/ (opened /\ NextStep(run) \in {"begin", "chunk"}))

CancelImport ==
  /\ Running
  /\ Stop
  /\ UNCHANGED <<dialog, opened, note, task, answer, server>>

\* abandon_import, of a profile that is removed.
Abandon ==
  /\ Running
  /\ note' = [said |-> TRUE, landed |-> run.landed]
  /\ Stop
  /\ dialog' = "gone"
  /\ UNCHANGED <<opened, task, answer, server>>

-----------------------------------------------------------------------------
(* The server, and the driver in front of it.                              *)

Out == task \in Steps /\ answer = NoAnswer
Says(is, applied) == answer' = [is |-> is, applied |-> applied]
NoTransaction == tx' = FALSE /\ staged' = 0

\* What a step does that is carried out.
Carry ==
  \/ /\ task = "begin"
     /\ tx' = TRUE /\ staged' = 0 /\ UNCHANGED kept
  \/ /\ task = "chunk" /\ tx
     /\ staged' = staged + 1 /\ UNCHANGED <<tx, kept>>
  \/ /\ task = "chunk" /\ ~tx
     /\ kept' = [kept EXCEPT !.chunks = @ + 1] /\ UNCHANGED <<tx, staged>>
  \/ /\ task = "commit" /\ tx
     /\ kept' = [kept EXCEPT !.chunks = @ + staged] /\ NoTransaction
  \/ /\ task = "rollback"
     /\ NoTransaction /\ UNCHANGED kept

Served ==
  /\ Out /\ session = "open"
  /\ Carry /\ Says("ok", 0)
  /\ UNCHANGED <<screen, task, stopping, relogin, session, unheard>>

\* A statement is undone whole, but for a document store's insertMany; a
\* COMMIT that fails leaves its transaction open or rolled back.
Fails(is) ==
  /\ \/ /\ task = "chunk" /\ ~tx
        /\ \E n \in 0..(Rows - 1) : Says(is, n) /\ kept' = [kept EXCEPT !.part = @ + n]
        /\ UNCHANGED <<tx, staged>>
     \/ /\ ~(task = "chunk" /\ ~tx)
        /\ Says(is, 0) /\ UNCHANGED <<tx, staged, kept>>
     \/ /\ task = "commit"
        /\ Says(is, 0) /\ NoTransaction /\ UNCHANGED kept
  /\ UNCHANGED <<screen, task, relogin, session, unheard>>

Refused == Out /\ session = "open" /\ Fails("error") /\ UNCHANGED stopping

\* A Cancel stops whatever its session runs when it gets there, if anything;
\* SQL Server's by closing the session.
StopLands ==
  /\ stopping /\ stopping' = FALSE
  /\ \/ Out /\ session = "open" /\ ~relogin /\ Fails("cancelled")
     \/ /\ Out /\ session = "open" /\ relogin
        /\ session' = "lost" /\ Says("cancelled", 0) /\ NoTransaction
        /\ UNCHANGED <<screen, task, relogin, kept, unheard>>
     \/ UNCHANGED <<screen, task, answer, server>>

\* The session is lost before the statement was carried out, or after it,
\* with its answer; the server rolls back what it had open.
Lost ==
  /\ Out /\ session = "open"
  /\ session' = "lost" /\ Says("error", 0)
  /\ \/ NoTransaction /\ UNCHANGED <<kept, unheard>>
     \/ /\ task \in {"chunk", "commit"} /\ (task = "commit" <=> tx)
        /\ kept' = [kept EXCEPT !.chunks = @ + (IF tx THEN staged ELSE 1)]
        /\ NoTransaction
        /\ unheard' = TRUE
  /\ UNCHANGED <<screen, task, stopping, relogin>>

\* SQL Server's driver: the session is lost in what it asks after a statement
\* that finished, which is answered as having finished.
LostBehind ==
  /\ relogin /\ Out /\ session = "open" /\ task \in {"begin", "chunk"}
  /\ session' = "lost" /\ Says("ok", 0)
  /\ IF task = "chunk" /\ ~tx THEN kept' = [kept EXCEPT !.chunks = @ + 1]
     ELSE UNCHANGED kept
  /\ NoTransaction
  /\ UNCHANGED <<screen, task, stopping, relogin, unheard>>

\* On a lost session a driver fails, or logs in again and goes on.
Dead ==
  /\ Out /\ session = "lost"
  /\ Says("error", 0)
  /\ UNCHANGED <<screen, task, stopping, server>>

LogIn ==
  /\ relogin /\ Out /\ session = "lost"
  /\ session' = "open"
  /\ UNCHANGED <<screen, task, answer, stopping, relogin, tx, staged, kept, unheard>>

\* The server rolls back what a dropped session left open.
RollBack ==
  /\ session = "dropped" /\ tx
  /\ NoTransaction
  /\ UNCHANGED <<screen, task, answer, stopping, relogin, session, kept, unheard>>

Serve == Served \/ Refused \/ Lost \/ LostBehind \/ Dead
Server == Serve \/ StopLands \/ LogIn \/ RollBack

Done == dialog # "running" /\ task = "none" /\ ~tx /\ UNCHANGED vars

Next == \/ StartImport \/ OpenFails \/ Opened \/ Land \/ CancelImport \/ Abandon
        \/ Server \/ Done

Spec == Init /\ [][Next]_vars

\* The blocking tasks run, the server answers or its session is lost, and a
\* dropped session is rolled back.
FairSpec ==
  /\ Spec
  /\ WF_vars(OpenFails \/ Opened) /\ WF_vars(Serve) /\ WF_vars(Land)
  /\ WF_vars(RollBack)

-----------------------------------------------------------------------------
(* What has to hold.                                                       *)

TypeOK ==
  /\ dialog \in {"editing", "running", "failed", "closed", "gone"}
  /\ run \in [atomic : BOOLEAN, begun : BOOLEAN, landed : 0..Chunks,
              partial : 0..Rows, cancelled : BOOLEAN, failed : BOOLEAN,
              outcome : Outcome]
  /\ opened \in BOOLEAN /\ task \in Steps \cup {"none", "opening"}
  /\ answer \in [is : {"none", "ok", "error", "cancelled"}, applied : 0..Rows]
  /\ stopping \in BOOLEAN
  /\ note \in [said : BOOLEAN, landed : 0..Chunks]
  /\ relogin \in BOOLEAN /\ session \in {"none", "open", "lost", "dropped"}
  /\ tx \in BOOLEAN /\ staged \in 0..Chunks /\ kept \in Count /\ unheard \in BOOLEAN

\* Under All or nothing the table keeps the whole file or none of it, whatever
\* fails, is cancelled or is lost, and when.
AllOrNothing == run.atomic => kept \in {Nothing, Whole}

\* What the dialog says at the end is what the table keeps: the rows reported
\* committed are there, and only an answer that was lost leaves more.
ReportTrue ==
  dialog \in {"failed", "closed"} =>
    LET said == run.outcome
    IN  /\ said.is = "imported" => kept = Whole
        /\ said.count.chunks <= kept.chunks
        /\ ~unheard => kept = said.count

\* And so is what is said at once of an import that goes with its profile,
\* whose last statement has yet to be carried out.
NoteTrue ==
  note.said =>
    IF run.atomic THEN note.landed < Chunks => kept = Nothing
    ELSE kept.chunks \in {note.landed, note.landed + 1}

\* A Cancel is never on its way to a session that is committing: whether the
\* rows were kept would be anyone's guess.
CommitSpared == stopping => task # "commit"

\* An import that started ends, and leaves no transaction open behind it.
ImportEnds == Running ~> (~Running /\ ~tx)
=============================================================================
