----------------------------- MODULE OdbcBridge -----------------------------
(***************************************************************************)
(* The ODBC bridge as the plugin of PluginHost: plugins/odbc/src/main.rs   *)
(* and run.rs.  One thread reads the host's frames and applies credit,     *)
(* stop and cancel as they come, while the one worker answers requests in  *)
(* order, waits for credit and calls the driver.  The two share Control,   *)
(* whose lock the reader keeps across SQLCancel.                           *)
(*                                                                         *)
(* A driver's call returns when it will, with any outcome.  What a batch   *)
(* holds is left out but for what it costs.  The bridge reads no frame the *)
(* host does not send, so its refusals are left out, and opening the       *)
(* session is over.  The end of its stdin comes behind a Close that was    *)
(* read, after which it changes nothing.                                   *)
(***************************************************************************)
EXTENDS PluginHost

CONSTANT MaxFrames       \* the most data frames a statement answers with

VARIABLES
  control,    \* the running request's credit and interruptions
  reader,     \* the request whose SQLCancel the reader is in, keeping the lock
  jobs,       \* what was passed to the worker
  worker      \* what it does, and for which request

bridge == <<control, reader, jobs, worker>>
allVars == <<vars, bridge>>

Idle == [at |-> "idle", job |-> Nobody, sent |-> 0, cost |-> 0,
         draining |-> FALSE, reply |-> "none"]

BridgeInit ==
  /\ Init
  /\ control = [id |-> Nobody, left |-> 0, stop |-> FALSE, cancel |-> FALSE,
                published |-> FALSE]
  /\ reader = Nobody /\ jobs = <<>> /\ worker = Idle

Unlocked == reader = Nobody

-----------------------------------------------------------------------------
(* The stdin thread.                                                       *)

\* Mutant of Started: the last request's credit is what this one begins with.
StartedOn(id) == [id |-> id, left |-> control.left, stop |-> FALSE, cancel |-> FALSE,
                  published |-> FALSE]

\* A request's Control is made before the worker can see it, so what is sent
\* right behind it is never applied to the one before.
Started(id) == [id |-> id, left |-> Window, stop |-> FALSE, cancel |-> FALSE,
                published |-> FALSE]

ReadFrame ==
  /\ alive /\ Unlocked /\ toPlugin # <<>>
  /\ LET f == Head(toPlugin)
         mine == f.id = control.id
     IN  /\ control' = IF f.kind = "request" /\ f.id # Close THEN Started(f.id)
                       ELSE IF f.kind = "credit" /\ mine
                            THEN [control EXCEPT !.left = @ + f.cost]
                       ELSE IF f.kind = "stop" /\ mine
                            THEN [control EXCEPT !.stop = TRUE]
                       ELSE IF f.kind = "cancel" /\ mine
                            THEN [control EXCEPT !.cancel = TRUE] ELSE control
         /\ jobs' = IF f.kind = "request" THEN Append(jobs, f.id) ELSE jobs
         /\ reader' = IF f.kind = "cancel" /\ mine /\ control.published
                      THEN f.id ELSE reader
  /\ toPlugin' = Tail(toPlugin)
  /\ UNCHANGED <<caller, host, process, fromPlugin, alive, worker>>

\* SQLCancel returns, and the lock is let go of.
Cancelled ==
  /\ alive /\ reader # Nobody
  /\ reader' = Nobody
  /\ UNCHANGED <<vars, control, jobs, worker>>

-----------------------------------------------------------------------------
(* The worker.                                                             *)

At(place) == alive /\ worker.at = place

\* Whichever request it is, its statement is allocated now.
TakeJob ==
  /\ At("idle") /\ jobs # <<>> /\ Head(jobs) # Close
  /\ worker' = [Idle EXCEPT !.at = "ready", !.job = Head(jobs)]
  /\ jobs' = Tail(jobs)
  /\ UNCHANGED <<vars, control, reader>>

\* Control::published: a call into the driver, unless a cancel has come.  A
\* stop seen on the way is the end of what is sent.
Call ==
  /\ At("ready") /\ Unlocked
  /\ IF control.cancel
     THEN /\ worker' = [worker EXCEPT !.at = "settling", !.reply = "error"]
          /\ UNCHANGED control
     ELSE /\ worker' = [worker EXCEPT !.at = "calling", !.draining = @ \/ control.stop]
          /\ control' = [control EXCEPT !.published = TRUE]
  /\ UNCHANGED <<vars, reader, jobs>>

Returns ==
  /\ At("calling")
  /\ worker' = [worker EXCEPT !.at = "called"]
  /\ UNCHANGED <<vars, control, reader, jobs>>

\* What the call brought: more to do, rows enough for a batch, the end of the
\* last result, or a failure.  Cancelled statements that reach their end are
\* answered as cancelled.
Outcomes ==
  {[worker EXCEPT !.at = "ready"],
   [worker EXCEPT !.at = "settling", !.reply = IF control.cancel THEN "error" ELSE "answer"],
   [worker EXCEPT !.at = "settling", !.reply = "error"],
   [worker EXCEPT !.at = "settling", !.reply = "lost"]}
  \cup {[worker EXCEPT !.at = "sending", !.cost = c] :
          c \in {d \in Costs : /\ worker.job \in Statements /\ ~worker.draining
                               /\ worker.sent < MaxFrames}}

\* Mutant of Unpublish: the handle goes out of reach without the lock.
UnpublishAtOnce ==
  /\ At("called")
  /\ control' = [control EXCEPT !.published = FALSE]
  /\ worker' \in Outcomes
  /\ UNCHANGED <<vars, reader, jobs>>

Unpublish ==
  /\ At("called") /\ Unlocked
  /\ control' = [control EXCEPT !.published = FALSE]
  /\ worker' \in Outcomes
  /\ UNCHANGED <<vars, reader, jobs>>

\* Mutant of TakeCredit: any credit left is enough.
TakeCreditLeft ==
  /\ At("sending") /\ Unlocked
  /\ \/ /\ control.cancel
        /\ worker' = [worker EXCEPT !.at = "settling", !.reply = "error"]
        /\ UNCHANGED <<control, fromPlugin>>
     \/ /\ ~control.cancel /\ control.stop
        /\ worker' = [worker EXCEPT !.at = "ready", !.draining = TRUE]
        /\ UNCHANGED <<control, fromPlugin>>
     \/ /\ ~control.cancel /\ ~control.stop /\ control.left > 0
        /\ worker' = [worker EXCEPT !.at = "ready", !.sent = @ + 1]
        /\ control' = [control EXCEPT !.left = @ - worker.cost]
        /\ fromPlugin' = Append(fromPlugin, Data(worker.job, worker.cost))
  /\ UNCHANGED <<caller, host, process, toPlugin, alive, reader, jobs>>

\* Control::take_credit, and the frame it lets go.
TakeCredit ==
  /\ At("sending") /\ Unlocked
  /\ \/ /\ control.cancel
        /\ worker' = [worker EXCEPT !.at = "settling", !.reply = "error"]
        /\ UNCHANGED <<control, fromPlugin>>
     \/ /\ ~control.cancel /\ control.stop
        /\ worker' = [worker EXCEPT !.at = "ready", !.draining = TRUE]
        /\ UNCHANGED <<control, fromPlugin>>
     \/ /\ ~control.cancel /\ ~control.stop /\ Fits(worker.cost, control.left)
        /\ worker' = [worker EXCEPT !.at = "ready", !.sent = @ + 1]
        /\ control' = [control EXCEPT !.left = @ - worker.cost]
        /\ fromPlugin' = Append(fromPlugin, Data(worker.job, worker.cost))
  /\ UNCHANGED <<caller, host, process, toPlugin, alive, reader, jobs>>

\* The statement is freed, interrupted first if it was cancelled, and the
\* answer written.
Reply ==
  /\ At("settling") /\ Unlocked
  /\ fromPlugin' = Append(fromPlugin, Answer(worker.job, worker.reply))
  /\ worker' = Idle
  /\ UNCHANGED <<caller, host, process, toPlugin, alive, control, reader, jobs>>

\* It disconnects, answers and exits.
Goodbye ==
  /\ At("idle") /\ jobs # <<>> /\ Head(jobs) = Close
  /\ worker' = [worker EXCEPT !.at = "gone"]
  /\ jobs' = Tail(jobs)
  /\ fromPlugin' = Append(fromPlugin, Answer(Close, "answer"))
  /\ UNCHANGED <<caller, host, process, toPlugin, alive, control, reader>>

Exit ==
  /\ At("gone")
  /\ alive' = FALSE /\ toPlugin' = <<>>
  /\ UNCHANGED <<caller, host, process, fromPlugin, bridge>>

\* A driver may bring the process down.
Crash == PluginDies /\ UNCHANGED bridge

Worker == TakeJob \/ Call \/ Returns \/ Unpublish \/ TakeCredit \/ Reply
            \/ Goodbye \/ Exit

BridgeNext == \/ HostNext /\ UNCHANGED bridge
              \/ ReadFrame \/ Cancelled \/ Worker \/ Crash

BridgeSpec == BridgeInit /\ [][BridgeNext]_allVars

\* The bridge's two threads run.  The driver's calls need not return.
FairBridge ==
  /\ BridgeSpec /\ HostFairness
  /\ WF_allVars(ReadFrame) /\ WF_allVars(Cancelled)
  /\ WF_allVars(TakeJob) /\ WF_allVars(Call) /\ WF_allVars(Unpublish)
  /\ WF_allVars(TakeCredit) /\ WF_allVars(Reply) /\ WF_allVars(Goodbye)
  /\ WF_allVars(Exit)

-----------------------------------------------------------------------------
(* What has to hold.                                                       *)

\* Credit is counted on both sides of the pipes, and what the two counts
\* differ by is on its way: rows the host has not read, grants the bridge has
\* not.  Neither side gains or loses any by a stop, a cancel or a large frame.
RowsOf(r) == [f \in Frame |-> IF f.id = r THEN Rows[f] ELSE 0]
GrantsTo(r) == [f \in Sent |-> IF f.id = r /\ f.kind = "credit" THEN f.cost ELSE 0]
OnTheWay(r) == Weigh(RowsOf(r))[fromPlugin] + Weigh(GrantsTo(r))[toPlugin]

CreditAgrees ==
  \A r \in Statements \cap pending :
    alive /\ control.id = r => credit[r] = control.left + OnTheWay(r)

\* So the host never ends the bridge for what it sends.
NeverBroken == reset # "protocol"

\* SQLCancel is called on a statement that is not freed while it runs, is in
\* a call, and is the one the Cancel was for.
InterruptsOwn ==
  reader # Nobody /\ alive =>
    worker.job = reader /\ worker.at \in {"calling", "called"}

\* A batch that waits for credit goes, or is told not to: no pair of full
\* pipes and spent credit leaves host and bridge waiting for each other.
CreditComes == worker.at = "sending" ~> (worker.at # "sending" \/ ~alive)
=============================================================================
