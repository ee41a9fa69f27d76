----------------------------- MODULE PluginHost -----------------------------
(***************************************************************************)
(* The host's side of one plugin process: src/db/external/host.rs, and its *)
(* callers in src/db/external.rs.  Callers queue for the session, put a    *)
(* request to the plugin and read what the reader thread routes to them.   *)
(* The user's Cancel, its deadline, the watcher of the process and the     *)
(* drop of the last handle are steps of their own, at any time.            *)
(*                                                                         *)
(* The plugin here is any program: it sends any frame, or none, closes its *)
(* output or dies.  OdbcBridge puts the repository's bridge in its place.  *)
(*                                                                         *)
(* A caller makes one request, which stands for it: ids are never used     *)
(* again.  The writer's channel and the plugin's stdin are one queue, as   *)
(* are its stdout and the reader's buffer.  A frame's cost stands for its  *)
(* payload.  Time is left out: a deadline is a step that may come at any   *)
(* moment after it was set.                                                *)
(***************************************************************************)
EXTENDS Integers, Sequences, FiniteSets

CONSTANTS Queries,     \* a run's statements, which a Cancel can reach
          Holds,       \* statements that hold the session read-only
          Catalogs,    \* requests that take no data, each with a deadline
          Close,       \* the request that ends the session
          Nobody,
          Window,      \* a statement's credit
          Costs,       \* what a data frame may cost
          MaxOut,      \* the most frames a plugin has on their way at once
          MaxCalls     \* the most requests made over a plugin's life

ASSUME NamesAssumption ==
  /\ IsFiniteSet(Queries) /\ IsFiniteSet(Holds) /\ IsFiniteSet(Catalogs)
  /\ Queries \cap Holds = {} /\ (Queries \cup Holds) \cap Catalogs = {}
  /\ {Close, Nobody} \cap (Queries \cup Holds \cup Catalogs) = {}
  /\ Close # Nobody
ASSUME CreditAssumption ==
  /\ Window \in Nat \ {0} /\ Costs \subseteq Nat \ {0} /\ MaxOut \in Nat \ {0}
  /\ MaxCalls \in Nat \ {0}

Statements == Queries \cup Holds          \* sent as Request::Query
Requests == Statements \cup Catalogs
Ids == Requests \cup {Close}

VARIABLES
  at,          \* where each caller is
  result,      \* what its call returned
  asked,       \* the runs the user has asked to cancel
  session,     \* who holds the session's lock
  running,     \* the query a Cancel may reach
  pending,     \* the requests whose terminal frame has not come
  credit,      \* of each pending statement
  inbox,       \* what was routed to each request and not yet taken
  stopped,     \* the statements told to stop at the row limit
  reset,       \* why the connection was reset, if it was
  lost,        \* the plugin said its session is gone, or a hold failed
  timers,      \* cancels whose deadline has not passed
  slot,        \* who has the process
  readDone,    \* the reader has stopped
  closing,     \* how far dropping the last handle is
  toPlugin, fromPlugin, alive

caller == <<at, result, asked, stopped>>
host == <<session, running, pending, credit, inbox, reset, lost, timers>>
process == <<slot, readDone, closing>>
pipes == <<toPlugin, fromPlugin, alive>>
vars == <<at, result, asked, session, running, pending, credit, inbox, stopped,
          reset, lost, timers, slot, readDone, closing, toPlugin, fromPlugin, alive>>

-----------------------------------------------------------------------------
(* Frames.                                                                 *)

Control == {"answer", "error", "lost"}
Frame == [id : Ids, kind : Control \cup {"reset"}, cost : {0}]
           \cup [id : Ids, kind : {"data"}, cost : Costs]
Sent == [id : Ids, kind : {"request", "stop", "cancel"}, cost : {0}]
          \cup [id : Ids, kind : {"credit"}, cost : Costs]

Answer(r, kind) == [id |-> r, kind |-> kind, cost |-> 0]
Data(r, cost) == [id |-> r, kind |-> "data", cost |-> cost]
Ask(r, kind) == [id |-> r, kind |-> kind, cost |-> 0]
Grant(r, cost) == [id |-> r, kind |-> "credit", cost |-> cost]

Init ==
  /\ at = [r \in Requests |-> "idle"]
  /\ result = [r \in Requests |-> "none"]
  /\ asked = {} /\ stopped = {}
  /\ session = Nobody /\ running = Nobody
  /\ pending = {} /\ credit = [r \in Statements |-> Window]
  /\ inbox = [r \in Ids |-> <<>>]
  /\ reset = "no" /\ lost = FALSE /\ timers = {}
  /\ slot = "held" /\ readDone = FALSE /\ closing = "no"
  /\ toPlugin = <<>> /\ fromPlugin = <<>> /\ alive = TRUE

\* What is written to a plugin that is gone goes nowhere.
Write(frames) == toPlugin' = IF alive THEN toPlugin \o frames ELSE <<>>

\* Shared::end: the first cause stays, and the process is killed, unless the
\* last handle's drop has taken it.
End(cause) ==
  /\ reset' = IF reset = "no" THEN cause ELSE reset
  /\ IF slot = "dropped" THEN UNCHANGED <<alive, toPlugin>>
     ELSE alive' = FALSE /\ toPlugin' = <<>>

-----------------------------------------------------------------------------
(* A caller.                                                               *)

\* Whether another request is made, of any kind.
Calls == Cardinality({s \in Requests : at[s] # "idle"}) < MaxCalls

\* Mutant of Start: the request goes out beside the one the session is taken by.
StartBeside(r) ==
  /\ at[r] = "idle" /\ closing = "no" /\ Calls
  /\ r \notin asked /\ reset = "no" /\ ~lost
  /\ session' = r
  /\ at' = [at EXCEPT ![r] = "reading"]
  /\ pending' = pending \cup {r}
  /\ running' = IF r \in Statements THEN r ELSE running
  /\ Write(<<Ask(r, "request")>>)
  /\ UNCHANGED <<result, asked, stopped, credit, inbox, reset, lost, timers,
                 process, fromPlugin, alive>>

\* The session is taken, the run's token looked at, and the request
\* registered and written.
Start(r) ==
  /\ at[r] = "idle" /\ session = Nobody /\ closing = "no" /\ Calls
  /\ r \notin asked /\ reset = "no" /\ ~lost
  /\ session' = r
  /\ at' = [at EXCEPT ![r] = "reading"]
  /\ pending' = pending \cup {r}
  /\ running' = IF r \in Statements THEN r ELSE running
  /\ Write(<<Ask(r, "request")>>)
  /\ UNCHANGED <<result, asked, stopped, credit, inbox, reset, lost, timers,
                 process, fromPlugin, alive>>

\* Cancelled before its turn came, or the session is gone by then.  A hold
\* that could not be put has failed like any other.
Refuse(r) ==
  /\ at[r] = "idle" /\ session = Nobody /\ closing = "no" /\ Calls
  /\ r \in asked \/ reset # "no" \/ lost
  /\ at' = [at EXCEPT ![r] = "ended"]
  /\ result' = [result EXCEPT ![r] = "dropped"]
  /\ lost' = (lost \/ r \in Holds)
  /\ UNCHANGED <<asked, stopped, session, running, pending, credit, inbox,
                 reset, timers, process, pipes>>

\* A catalog request waits for the session only so long.
GiveUp(r) ==
  /\ r \in Catalogs /\ at[r] = "idle" /\ session # Nobody /\ Calls
  /\ at' = [at EXCEPT ![r] = "ended"]
  /\ result' = [result EXCEPT ![r] = "dropped"]
  /\ UNCHANGED <<asked, stopped, host, process, pipes>>

Reading(r) == at[r] = "reading"
Has(r, kinds) == Reading(r) /\ inbox[r] # <<>> /\ Head(inbox[r]).kind \in kinds

\* The call has its result: no Cancel reaches it now, but it has the session
\* until it is let go of.
Return(r, with) ==
  /\ at' = [at EXCEPT ![r] = "returning"]
  /\ result' = [result EXCEPT ![r] = with]
  /\ running' = IF running = r THEN Nobody ELSE running
  /\ inbox' = [inbox EXCEPT ![r] = <<>>]
  /\ stopped' = stopped \ {r}

\* A data frame's rows are handed on, whatever its taker makes of that; a
\* statement that has as many as it wants is told to stop, once...
TellStop(r) ==
  /\ r \in Queries \ stopped /\ Has(r, {"data"})
  /\ stopped' = stopped \cup {r}
  /\ IF r \in pending THEN Write(<<Ask(r, "stop")>>) ELSE UNCHANGED toPlugin
  /\ UNCHANGED <<at, result, asked, host, process, fromPlugin, alive>>

\* ... and only then is the frame's cost granted back.
HandOn(r) ==
  /\ r \in Statements /\ Has(r, {"data"})
  /\ LET cost == Head(inbox[r]).cost
     IN  IF r \in pending
         THEN credit' = [credit EXCEPT ![r] = @ + cost] /\ Write(<<Grant(r, cost)>>)
         ELSE UNCHANGED <<credit, toPlugin>>
  /\ inbox' = [inbox EXCEPT ![r] = Tail(@)]
  /\ UNCHANGED <<caller, session, running, pending, reset, lost, timers, process,
                 fromPlugin, alive>>

\* Its answer; an error may say that the session is lost.
TakeAnswer(r) ==
  /\ Has(r, {"answer", "error", "lost"})
  /\ LET kind == Head(inbox[r]).kind
     IN  /\ Return(r, kind)
         /\ lost' = (lost \/ kind = "lost")
  /\ UNCHANGED <<asked, session, pending, credit, reset, timers, process,
                 pipes>>

TakeReset(r) ==
  /\ Has(r, {"reset"})
  /\ Return(r, "reset")
  /\ UNCHANGED <<asked, session, pending, credit, reset, lost, timers,
                 process, pipes>>

\* A catalog request nobody can cancel ends the plugin instead of waiting.
CallDeadline(r) ==
  /\ r \in Catalogs /\ Reading(r) /\ inbox[r] = <<>>
  /\ Return(r, "reset")
  /\ End("deadline")
  /\ UNCHANGED <<asked, session, pending, credit, lost, timers, process,
                 fromPlugin>>

\* Mutant of Release: a hold that failed leaves the session as it was.
ReleaseAnyway(r) ==
  /\ at[r] = "returning"
  /\ at' = [at EXCEPT ![r] = "ended"]
  /\ session' = Nobody
  /\ UNCHANGED <<result, asked, stopped, running, pending, credit, inbox, reset,
                 lost, timers, process, pipes>>

\* The session is let go of, and given up first when it was to be held.
Release(r) ==
  /\ at[r] = "returning"
  /\ at' = [at EXCEPT ![r] = "ended"]
  /\ session' = Nobody
  /\ lost' = (lost \/ (r \in Holds /\ result[r] # "answer"))
  /\ UNCHANGED <<result, asked, stopped, running, pending, credit, inbox, reset,
                 timers, process, pipes>>

Caller(r) == Start(r) \/ Refuse(r) \/ GiveUp(r) \/ TellStop(r) \/ HandOn(r)
               \/ TakeAnswer(r) \/ TakeReset(r) \/ CallDeadline(r) \/ Release(r)

-----------------------------------------------------------------------------
(* The user's Cancel, and its deadline.                                    *)

\* Mutant of Cancel: a hold is cancelled like a run.
CancelHold(r) ==
  /\ r \in Statements \ asked /\ at[r] # "ended"
  /\ asked' = asked \cup {r}
  /\ timers' = IF running = r THEN timers \cup {r} ELSE timers
  /\ IF running = r /\ r \in pending
     THEN Write(<<Ask(r, "cancel")>>)
     ELSE UNCHANGED toPlugin
  /\ UNCHANGED <<at, result, stopped, session, running, pending, credit, inbox,
                 reset, lost, process, fromPlugin, alive>>

\* Mutant of Cancel: the plugin is asked, and left to it.
CancelPatiently(r) ==
  /\ r \in Queries \ asked /\ at[r] # "ended"
  /\ asked' = asked \cup {r}
  /\ IF running = r /\ r \in pending
     THEN Write(<<Ask(r, "cancel")>>)
     ELSE UNCHANGED toPlugin
  /\ UNCHANGED <<at, result, stopped, session, running, pending, credit, inbox,
                 reset, lost, timers, process, fromPlugin, alive>>

Cancel(r) ==
  /\ r \in Queries \ asked /\ at[r] # "ended"
  /\ asked' = asked \cup {r}
  /\ timers' = IF running = r THEN timers \cup {r} ELSE timers
  /\ IF running = r /\ r \in pending
     THEN Write(<<Ask(r, "cancel")>>)
     ELSE UNCHANGED toPlugin
  /\ UNCHANGED <<at, result, stopped, session, running, pending, credit, inbox,
                 reset, lost, process, fromPlugin, alive>>

\* Met when the terminal frame has been routed, whoever has yet to take it.
Deadline(r) ==
  /\ r \in timers
  /\ timers' = timers \ {r}
  /\ IF r \in pending
     THEN End("deadline")
     ELSE UNCHANGED <<reset, alive, toPlugin>>
  /\ UNCHANGED <<caller, session, running, pending, credit, inbox, lost, process,
                 fromPlugin>>

-----------------------------------------------------------------------------
(* The reader and the watcher.                                             *)

\* Mutant of Fits: a frame larger than the window never goes.
FitsExactly(cost, left) == cost <= left

\* A frame fits what is left of its statement's credit, or goes alone when
\* nothing is outstanding.
Fits(cost, left) == cost <= left \/ left = Window

\* Mutant of Legal: credit is counted and not looked at.
LegalUnmeasured(f) ==
  /\ f.id \in pending
  /\ f.kind = "data" => f.id \in Statements

Legal(f) ==
  /\ f.id \in pending
  /\ f.kind = "data" => f.id \in Statements /\ Fits(f.cost, credit[f.id])

\* A statement's credit is forgotten with it.
Without(ids) == [r \in Statements |-> IF r \in ids THEN Window ELSE credit[r]]

\* A caller that has gone drops what is routed to it.
Deliver(f) ==
  inbox' = IF f.id = Close \/ (f.id \in Requests /\ at[f.id] = "reading")
           THEN [inbox EXCEPT ![f.id] = Append(@, f)] ELSE inbox

Route ==
  /\ ~readDone /\ fromPlugin # <<>>
  /\ LET f == Head(fromPlugin)
     IN  /\ Legal(f)
         /\ Deliver(f)
         /\ pending' = IF f.kind = "data" THEN pending ELSE pending \ {f.id}
         /\ credit' = IF f.kind = "data" THEN [credit EXCEPT ![f.id] = @ - f.cost]
                      ELSE Without({f.id})
  /\ fromPlugin' = Tail(fromPlugin)
  /\ UNCHANGED <<caller, session, running, reset, lost, timers, process, toPlugin,
                 alive>>

\* A frame the protocol does not allow ends the plugin, and the reader stops.
Break ==
  /\ ~readDone /\ fromPlugin # <<>> /\ ~Legal(Head(fromPlugin))
  /\ End("protocol")
  /\ readDone' = TRUE /\ fromPlugin' = <<>>
  /\ UNCHANGED <<caller, session, running, pending, credit, inbox, lost, timers,
                 slot, closing>>

\* The end of its output: it died, or has closed it and lives on.
Eof ==
  /\ ~readDone /\ fromPlugin = <<>> /\ ~alive
  /\ readDone' = TRUE
  /\ UNCHANGED <<caller, host, slot, closing, pipes>>

\* The watcher reaps a process that has exited...
Reap ==
  /\ slot = "held" /\ ~alive
  /\ slot' = "reaped"
  /\ UNCHANGED <<caller, host, readDone, closing, pipes>>

\* ... and kills one that closed its output and has not gone since.
KillMute ==
  /\ slot = "held" /\ readDone /\ alive
  /\ alive' = FALSE /\ toPlugin' = <<>>
  /\ UNCHANGED <<caller, host, process, fromPlugin>>

\* Mutant of Reset: whoever ended the plugin is thought to have told them.
ResetOnce ==
  /\ slot = "reaped"
  /\ slot' = "told"
  /\ reset' = IF reset = "no" THEN "stopped" ELSE reset
  /\ IF reset = "no"
     THEN /\ inbox' = [r \in Ids |->
                 IF r \in pending /\ (r = Close \/ (r \in Requests /\ at[r] = "reading"))
                 THEN Append(inbox[r], Answer(r, "reset")) ELSE inbox[r]]
          /\ pending' = {} /\ credit' = Without(pending)
     ELSE UNCHANGED <<inbox, pending, credit>>
  /\ UNCHANGED <<caller, session, running, lost, timers, readDone, closing,
                 pipes>>

\* Every request still out is told, once the reader is done or has had its
\* time.
Reset ==
  /\ slot = "reaped"
  /\ slot' = "told"
  /\ reset' = IF reset = "no" THEN "stopped" ELSE reset
  /\ inbox' = [r \in Ids |->
                 IF r \in pending /\ (r = Close \/ (r \in Requests /\ at[r] = "reading"))
                 THEN Append(inbox[r], Answer(r, "reset")) ELSE inbox[r]]
  /\ pending' = {} /\ credit' = Without(pending)
  /\ UNCHANGED <<caller, session, running, lost, timers, readDone, closing,
                 pipes>>

-----------------------------------------------------------------------------
(* Dropping the last handle.                                               *)

\* Nobody is in a call by then.  Whoever reaps first has the process: after
\* this the watcher finds it taken and tells nobody.
DropHandle ==
  /\ closing = "no" /\ \A r \in Requests : at[r] \in {"idle", "ended"}
  /\ IF reset = "no"
     THEN /\ pending' = pending \cup {Close}
          /\ Write(<<Ask(Close, "request")>>)
     ELSE UNCHANGED <<pending, toPlugin>>
  /\ IF slot = "held" THEN slot' = "dropped" /\ closing' = "waiting"
     ELSE slot' = slot /\ closing' = "done"
  /\ UNCHANGED <<caller, session, running, credit, inbox, reset, lost, timers,
                 readDone, fromPlugin, alive>>

\* Mutant of CloseInput: only an answer ends the wait.
CloseAnswered ==
  /\ closing = "waiting" /\ Close \notin pending
  /\ closing' = "eof"
  /\ UNCHANGED <<caller, host, slot, readDone, pipes>>

\* The wait is over: `closed` came, the process went, or the grace ran out.
CloseInput ==
  /\ closing = "waiting"
  /\ closing' = "eof"
  /\ UNCHANGED <<caller, host, slot, readDone, pipes>>

\* It goes on its own, or is killed at the end of the grace.
CloseReap ==
  /\ closing = "eof"
  /\ closing' = "done"
  /\ alive' = FALSE /\ toPlugin' = <<>>
  /\ UNCHANGED <<caller, host, slot, readDone, fromPlugin>>

Threads == Route \/ Break \/ Eof \/ Reap \/ KillMute \/ Reset
             \/ DropHandle \/ CloseInput \/ CloseReap

HostNext == Threads \/ \E r \in Requests : Caller(r) \/ Cancel(r) \/ Deadline(r)

-----------------------------------------------------------------------------
(* Any plugin.                                                             *)

PluginReads ==
  /\ alive
  /\ \E n \in 1..Len(toPlugin) : toPlugin' = SubSeq(toPlugin, n + 1, Len(toPlugin))
  /\ UNCHANGED <<caller, host, process, fromPlugin, alive>>

PluginSends ==
  /\ alive /\ Len(fromPlugin) + Len(toPlugin) < MaxOut
  /\ \E r \in Ids : \/ \E kind \in Control : fromPlugin' = Append(fromPlugin, Answer(r, kind))
                    \/ \E c \in Costs : fromPlugin' = Append(fromPlugin, Data(r, c))
  /\ UNCHANGED <<caller, host, process, toPlugin, alive>>

PluginDies ==
  /\ alive
  /\ alive' = FALSE /\ toPlugin' = <<>>
  /\ UNCHANGED <<caller, host, process, fromPlugin>>

PluginMutes ==
  /\ alive /\ ~readDone /\ fromPlugin = <<>>
  /\ readDone' = TRUE
  /\ UNCHANGED <<caller, host, slot, closing, pipes>>

\* An answer of another kind or to rows it does not count, data that does not
\* decode or was not asked for: the plugin is ended.
Violated(r) ==
  /\ Has(r, {"answer", "data"})
  /\ Return(r, "reset")
  /\ End("protocol")
  /\ UNCHANGED <<asked, session, pending, credit, lost, timers, process,
                 fromPlugin>>

AnyPlugin == (\E r \in Requests : Violated(r)) \/ PluginReads \/ PluginSends \/ PluginDies \/ PluginMutes

-----------------------------------------------------------------------------
Next == HostNext \/ AnyPlugin
Spec == Init /\ [][Next]_vars

\* The host's threads.
Reader == Route \/ Break \/ Eof
Watcher == Reap \/ KillMute \/ Reset
Closer == CloseInput \/ CloseReap
Takes(r) == HandOn(r) \/ TakeAnswer(r) \/ TakeReset(r) \/ Release(r)

\* Each thread goes on while it can, callers take what comes, rows handed on
\* are taken, and time passes.  Nothing is asked of the plugin.
HostFairness ==
  /\ WF_vars(Reader) /\ WF_vars(Watcher) /\ WF_vars(Closer)
  /\ \A r \in Requests : WF_vars(Takes(r))
  /\ \A r \in Catalogs : WF_vars(CallDeadline(r))
  /\ \A r \in Queries : WF_vars(Deadline(r))

FairSpec == Spec /\ HostFairness

-----------------------------------------------------------------------------
(* What has to hold.                                                       *)

TypeOK ==
  /\ at \in [Requests -> {"idle", "reading", "returning", "ended"}]
  /\ result \in [Requests -> {"none", "answer", "error", "lost", "reset",
                              "dropped"}]
  /\ asked \subseteq Queries /\ stopped \subseteq Queries
  /\ session \in Requests \cup {Nobody} /\ running \in Statements \cup {Nobody}
  /\ pending \subseteq Ids /\ credit \in [Statements -> Int]
  /\ inbox \in [Ids -> Seq(Frame)]
  /\ reset \in {"no", "protocol", "deadline", "stopped"} /\ lost \in BOOLEAN
  /\ timers \subseteq Queries
  /\ slot \in {"held", "reaped", "told", "dropped"} /\ readDone \in BOOLEAN
  /\ closing \in {"no", "waiting", "eof", "done"}
  /\ toPlugin \in Seq(Sent) /\ fromPlugin \in Seq(Frame) /\ alive \in BOOLEAN

\* What the frames of a queue weigh together.
Weigh(weight) ==
  LET Sum[frames \in Seq(DOMAIN weight)] ==
        IF frames = <<>> THEN 0 ELSE weight[Head(frames)] + Sum[Tail(frames)]
  IN  Sum

Rows == [f \in Frame |-> IF f.kind = "data" THEN f.cost ELSE 0]

\* What a statement has sent and its caller has not handed on, which is what
\* the host holds in memory, is within the window, or is one frame alone,
\* whatever the plugin sends and however slow the caller is.
WithinWindow ==
  \A r \in Statements :
    \/ \A i, j \in 1..Len(inbox[r]) :
         inbox[r][i].kind = "data" /\ inbox[r][j].kind = "data" => i = j
    \/ Weigh(Rows)[inbox[r]] <= Window

\* Once the plugin has said its session is gone, or the connection was reset,
\* or a hold did not land, nothing more is put to it: the next statement
\* would run without the read-only hold.
GivenUp(r) ==
  \/ result[r] \in {"lost", "reset"}
  \/ r \in Holds /\ at[r] = "ended" /\ result[r] # "answer"

NothingAfterLoss == \A r, s \in Requests : ~(GivenUp(r) /\ Reading(s))

\* A caller sees what PluginPromise says, and nothing else: requests one at a
\* time, each ended once, none after the session is lost.
StageOf(r) ==
  IF at[r] = "idle" THEN "unsent"
  ELSE IF at[r] = "reading" THEN "out"
  ELSE IF result[r] \in {"answer", "error", "lost"} THEN "answered"
  ELSE IF result[r] = "reset" THEN "reset" ELSE "dropped"

Promise == INSTANCE PluginPromise
             WITH stage <- [r \in Requests |-> StageOf(r)],
                  lost <- (lost \/ reset # "no")
PromiseKept == Promise!Spec

\* A Cancel gives the user their connection back: the call it was for returns,
\* answered or not.
CancelReturns == \A r \in Queries : (r \in asked /\ Reading(r)) ~> at[r] = "ended"

\* A plugin that dies leaves nobody waiting.
DeathTold == ~alive ~> \A r \in Requests : ~Reading(r)

\* Dropping the last handle ends the process, whatever it is doing.
CloseEnds == closing = "waiting" ~> closing = "done" /\ ~alive
=============================================================================
