-------------------------- MODULE PluginHostProofs --------------------------
(***************************************************************************)
(* That a caller of the host sees what PluginPromise says and no more, and *)
(* that nothing is put to a plugin once its session is lost, and that what *)
(* the host holds for a statement is within its window: for any number of  *)
(* callers and frames, and any plugin.                                     *)
(***************************************************************************)
EXTENDS PluginHost, SequenceTheorems, WellFoundedInduction, TLAPS

\* A frame as a plugin may send it: that a connection was reset is only ever
\* said by the host.
Plain == {f \in Frame : f.kind # "reset"}

LEMMA NamesApart ==
  /\ Nobody \notin Requests /\ Close \notin Requests
  /\ Queries \cap Holds = {} /\ Catalogs \cap Statements = {}
  /\ Queries \subseteq Statements /\ Statements \subseteq Requests
  /\ Requests \subseteq Ids /\ Close \in Ids
  BY NamesAssumption DEF Statements, Requests, Ids

LEMMA CostNumber == Window \in Int /\ (\A c \in Costs : c \in Int)
  BY CreditAssumption

LEMMA AnswerPlain ==
  ASSUME NEW r \in Ids, NEW kind \in Control
  PROVE  Answer(r, kind) \in Plain
<1>1. Answer(r, kind) \in Frame
  BY DEF Answer, Frame
<1>2. QED
  BY <1>1 DEF Plain, Answer, Control

LEMMA DataPlain ==
  ASSUME NEW r \in Ids, NEW cost \in Costs
  PROVE  Data(r, cost) \in Plain
<1>1. Data(r, cost) \in Frame
  BY DEF Data, Frame
<1>2. QED
  BY <1>1 DEF Plain, Data

LEMMA ResetFrame ==
  ASSUME NEW r \in Ids
  PROVE  Answer(r, "reset") \in Frame
  BY DEF Answer, Frame

LEMMA AskSent ==
  ASSUME NEW r \in Ids, NEW kind \in {"request", "stop", "cancel"}
  PROVE  Ask(r, kind) \in Sent
  BY DEF Ask, Sent

LEMMA GrantSent ==
  ASSUME NEW r \in Ids, NEW cost \in Costs
  PROVE  Grant(r, cost) \in Sent
  BY DEF Grant, Sent

\* What a frame is, that has come to the head of a queue.
LEMMA FrameParts ==
  ASSUME NEW f \in Frame
  PROVE  /\ f.id \in Ids /\ f.kind \in Control \cup {"reset", "data"}
         /\ f.kind = "data" => f.cost \in Costs
         /\ f.kind \in {"data"} \cup Control => f \in Plain
<1>1. f.id \in Ids /\ f.kind \in Control \cup {"reset", "data"}
  BY DEF Frame
<1>2. f.kind = "data" => f.cost \in Costs
  BY DEF Frame, Control
<1>3. f.kind \in {"data"} \cup Control => f \in Plain
  BY DEF Plain, Control
<1>4. QED
  BY <1>1, <1>2, <1>3

LEMMA OneFrame ==
  ASSUME NEW S, NEW f \in S
  PROVE  <<f>> \in Seq(S)
  OBVIOUS

LEMMA Taken ==
  ASSUME NEW S, NEW s \in Seq(S), s # <<>>
  PROVE  Head(s) \in S /\ Tail(s) \in Seq(S)
  BY HeadTailProperties

\* Queues of frames, whatever is done to them.
LEMMA WriteType ==
  ASSUME toPlugin \in Seq(Sent), NEW frames \in Seq(Sent), Write(frames)
  PROVE  toPlugin' \in Seq(Sent)
<1>1. toPlugin \o frames \in Seq(Sent)
  BY ConcatProperties
<1>2. <<>> \in Seq(Sent)
  BY EmptySeq
<1>3. QED
  BY <1>1, <1>2 DEF Write

LEMMA EndType ==
  ASSUME TypeOK, NEW cause \in {"protocol", "deadline"}, End(cause)
  PROVE  /\ reset' \in {"protocol", "deadline", "stopped"}
         /\ alive' \in BOOLEAN /\ toPlugin' \in Seq(Sent)
<1>1. <<>> \in Seq(Sent)
  BY EmptySeq
<1>2. QED
  BY <1>1 DEF TypeOK, End

LEMMA ReturnType ==
  ASSUME TypeOK, NEW r \in Requests,
         NEW with \in {"answer", "error", "lost", "reset"}, Return(r, with)
  PROVE  /\ at' = [at EXCEPT ![r] = "returning"]
         /\ at' \in [Requests -> {"idle", "reading", "returning", "ended"}]
         /\ result' = [result EXCEPT ![r] = with]
         /\ result' \in [Requests -> {"none", "answer", "error", "lost", "reset",
                                      "dropped"}]
         /\ running' \in Statements \cup {Nobody}
         /\ inbox' \in [Ids -> Seq(Frame)]
         /\ inbox \in [Ids -> Seq(Plain)] => inbox' \in [Ids -> Seq(Plain)]
         /\ stopped' \subseteq Queries
<1>1. <<>> \in Seq(Frame) /\ <<>> \in Seq(Plain)
  BY EmptySeq
<1>2. inbox' \in [Ids -> Seq(Frame)]
  BY <1>1 DEF Return, TypeOK
<1>3. inbox \in [Ids -> Seq(Plain)] => inbox' \in [Ids -> Seq(Plain)]
  BY <1>1 DEF Return
<1>4. running' \in Statements \cup {Nobody} /\ stopped' \subseteq Queries
  BY DEF Return, TypeOK
<1>5. at' = [at EXCEPT ![r] = "returning"] /\ result' = [result EXCEPT ![r] = with]
  BY DEF Return
<1>6. QED
  BY <1>2, <1>3, <1>4, <1>5 DEF TypeOK

-----------------------------------------------------------------------------
(* What is known of every state.                                           *)

\* Whoever is in a call has the session.
HasSession == \A r \in Requests : at[r] \in {"reading", "returning"} => session = r

\* Only a result that came says anything.
NoneYet == \A r \in Requests : at[r] \in {"idle", "reading"} => result[r] = "none"

\* Nothing says that the connection was reset before it was.
ResetTold == /\ fromPlugin \in Seq(Plain)
             /\ reset = "no" => inbox \in [Ids -> Seq(Plain)]

\* A loss that a caller was told of is not forgotten.
LossKept == \A r \in Requests : GivenUp(r) => lost \/ reset # "no"

IInv == /\ TypeOK
        /\ HasSession
        /\ NoneYet
        /\ ResetTold
        /\ LossKept
        /\ NothingAfterLoss

LEMMA InitIInv == Init => IInv
<1> SUFFICES ASSUME Init PROVE IInv
  OBVIOUS
<1> USE NamesApart DEF Init
<1>1. /\ <<>> \in Seq(Frame) /\ <<>> \in Seq(Plain) /\ <<>> \in Seq(Sent)
      /\ Window \in Int
  BY EmptySeq, CreditAssumption
<1>2. TypeOK
  BY <1>1 DEF TypeOK
<1>3. HasSession /\ NoneYet /\ ResetTold
  BY <1>1 DEF HasSession, NoneYet, ResetTold
<1>4. LossKept /\ NothingAfterLoss
  BY DEF LossKept, NothingAfterLoss, GivenUp, Reading
<1>5. QED
  BY <1>2, <1>3, <1>4 DEF IInv
(* Types, action by action.                                                *)

\* A step that touches neither the callers nor the routing table.
LEMMA StartType == ASSUME TypeOK, NEW r \in Requests, Start(r) PROVE TypeOK'
<1> USE NamesApart DEF TypeOK, Start, process
<1>1. <<Ask(r, "request")>> \in Seq(Sent)
  BY AskSent, OneFrame
<1>2. toPlugin' \in Seq(Sent)
  BY <1>1, WriteType
<1>3. at' \in [Requests -> {"idle", "reading", "returning", "ended"}]
  OBVIOUS
<1>4. pending' \subseteq Ids /\ running' \in Statements \cup {Nobody}
  OBVIOUS
<1>5. QED
  BY <1>2, <1>3, <1>4

LEMMA RefuseType == ASSUME TypeOK, NEW r \in Requests, Refuse(r) PROVE TypeOK'
<1> USE DEF TypeOK, Refuse, process, pipes
<1>1. at' \in [Requests -> {"idle", "reading", "returning", "ended"}]
  OBVIOUS
<1>2. result' \in [Requests -> {"none", "answer", "error", "lost", "reset", "dropped"}]
  OBVIOUS
<1>3. lost' \in BOOLEAN
  BY Zenon
<1>4. QED
  BY <1>1, <1>2, <1>3

LEMMA GiveUpType == ASSUME TypeOK, NEW r \in Requests, GiveUp(r) PROVE TypeOK'
<1> USE DEF TypeOK, GiveUp, host, process, pipes
<1>1. at' \in [Requests -> {"idle", "reading", "returning", "ended"}]
  OBVIOUS
<1>2. result' \in [Requests -> {"none", "answer", "error", "lost", "reset", "dropped"}]
  OBVIOUS
<1>3. QED
  BY <1>1, <1>2

LEMMA TellStopType == ASSUME TypeOK, NEW r \in Requests, TellStop(r) PROVE TypeOK'
<1>1. <<Ask(r, "stop")>> \in Seq(Sent)
  BY NamesApart, AskSent, OneFrame
<1>2. toPlugin' \in Seq(Sent)
  BY <1>1, WriteType DEF TypeOK, TellStop
<1>3. QED
  BY <1>2 DEF TypeOK, TellStop, host, process

\* Rows are taken only from what was routed, which is data of that cost.
LEMMA HandOnType == ASSUME TypeOK, NEW r \in Requests, HandOn(r) PROVE TypeOK'
<1> USE NamesApart DEF TypeOK, HandOn, Has, Reading, process
<1> DEFINE f == Head(inbox[r])
<1>1. inbox[r] \in Seq(Frame) /\ inbox[r] # <<>>
  OBVIOUS
<1>2. f \in Frame /\ Tail(inbox[r]) \in Seq(Frame)
  BY <1>1, Taken
<1>3. f.cost \in Costs
  BY <1>2, FrameParts
<1> HIDE DEF f
<1>4. f.cost \in Int
  <2> HIDE DEF TypeOK, HandOn, Has, Reading, process
  <2>1. QED
    BY <1>3, CostNumber
<1>5. inbox' \in [Ids -> Seq(Frame)]
  BY <1>2 DEF f
<1>6. credit' \in [Statements -> Int]
  BY <1>4 DEF f
<1>7. toPlugin' \in Seq(Sent)
  <2>1. Write(<<Grant(r, f.cost)>>) \/ UNCHANGED toPlugin
    BY DEF f
  <2>2. <<Grant(r, f.cost)>> \in Seq(Sent)
    BY <1>3, GrantSent, OneFrame
  <2>3. QED
    BY <2>1, <2>2, WriteType
<1>8. QED
  BY <1>5, <1>6, <1>7 DEF caller

LEMMA TakeAnswerType == ASSUME TypeOK, NEW r \in Requests, TakeAnswer(r) PROVE TypeOK'
<1> DEFINE kind == Head(inbox[r]).kind
<1>1. kind \in {"answer", "error", "lost"} /\ Return(r, kind)
  BY DEF TakeAnswer, Has
<1>2. lost' \in BOOLEAN
  BY Zenon DEF TakeAnswer, TypeOK
<1> HIDE DEF kind
<1>3. UNCHANGED <<asked, session, pending, credit, reset, timers, process, pipes>>
  BY DEF TakeAnswer
<1>4. QED
  BY <1>1, <1>2, <1>3, ReturnType DEF TypeOK, process, pipes

LEMMA TakeResetType == ASSUME TypeOK, NEW r \in Requests, TakeReset(r) PROVE TypeOK'
  BY ReturnType DEF TypeOK, TakeReset, process, pipes

LEMMA CallDeadlineType == ASSUME TypeOK, NEW r \in Requests, CallDeadline(r) PROVE TypeOK'
<1>1. /\ reset' \in {"no", "protocol", "deadline", "stopped"}
      /\ alive' \in BOOLEAN /\ toPlugin' \in Seq(Sent)
  BY EndType DEF CallDeadline
<1>2. QED
  BY <1>1, ReturnType DEF TypeOK, CallDeadline, process

LEMMA ViolatedType == ASSUME TypeOK, NEW r \in Requests, Violated(r) PROVE TypeOK'
<1>1. /\ reset' \in {"no", "protocol", "deadline", "stopped"}
      /\ alive' \in BOOLEAN /\ toPlugin' \in Seq(Sent)
  BY EndType DEF Violated
<1>2. QED
  BY <1>1, ReturnType DEF TypeOK, Violated, process

LEMMA ReleaseType == ASSUME TypeOK, NEW r \in Requests, Release(r) PROVE TypeOK'
<1> USE DEF TypeOK, Release, process, pipes
<1>1. at' \in [Requests -> {"idle", "reading", "returning", "ended"}]
  OBVIOUS
<1>2. lost' \in BOOLEAN
  BY Zenon
<1>3. QED
  BY <1>1, <1>2

LEMMA CancelType == ASSUME TypeOK, NEW r \in Requests, Cancel(r) PROVE TypeOK'
<1> USE NamesApart DEF TypeOK, Cancel, process
<1>1. <<Ask(r, "cancel")>> \in Seq(Sent)
  BY AskSent, OneFrame
<1>2. toPlugin' \in Seq(Sent)
  BY <1>1, WriteType
<1>3. asked' \subseteq Queries /\ timers' \subseteq Queries
  OBVIOUS
<1>4. QED
  BY <1>2, <1>3

LEMMA DeadlineType == ASSUME TypeOK, NEW r \in Requests, Deadline(r) PROVE TypeOK'
<1>1. /\ reset' \in {"no", "protocol", "deadline", "stopped"}
      /\ alive' \in BOOLEAN /\ toPlugin' \in Seq(Sent)
  BY EndType DEF Deadline, TypeOK
<1>2. QED
  BY <1>1 DEF TypeOK, Deadline, caller, process

\* What the reader routes is of a request that is out, and data of a statement.
LEMMA RouteParts ==
  ASSUME TypeOK, Route
  PROVE  /\ Head(fromPlugin) \in Frame /\ fromPlugin' \in Seq(Frame)
         /\ Head(fromPlugin).id \in Ids
         /\ Head(fromPlugin).kind = "data" =>
              Head(fromPlugin).cost \in Int /\ Head(fromPlugin).id \in Statements
<1>1. fromPlugin \in Seq(Frame) /\ fromPlugin # <<>> /\ fromPlugin' = Tail(fromPlugin)
  BY DEF TypeOK, Route
<1>2. Head(fromPlugin) \in Frame /\ Tail(fromPlugin) \in Seq(Frame)
  BY <1>1, Taken
<1>3. Head(fromPlugin).kind = "data" => Head(fromPlugin).id \in Statements
  BY DEF Route, Legal
<1>4. Head(fromPlugin).kind = "data" => Head(fromPlugin).cost \in Int
  <2> DEFINE f == Head(fromPlugin)
  <2>1. f \in Frame
    BY <1>2
  <2> HIDE DEF f
  <2>2. f.kind = "data" => f.cost \in Costs
    BY <2>1, FrameParts
  <2>3. f.kind = "data" => f.cost \in Int
    BY <2>2, CostNumber
  <2>4. QED
    BY <2>3 DEF f
<1>5. QED
  BY <1>1, <1>2, <1>3, <1>4, FrameParts

LEMMA RouteType == ASSUME TypeOK, Route PROVE TypeOK'
<1> DEFINE f == Head(fromPlugin)
<1>1. /\ f \in Frame /\ fromPlugin' \in Seq(Frame) /\ f.id \in Ids
      /\ f.kind = "data" => f.cost \in Int /\ f.id \in Statements
  BY RouteParts
<1>2. /\ Deliver(f)
      /\ pending' = IF f.kind = "data" THEN pending ELSE pending \ {f.id}
      /\ credit' = IF f.kind = "data" THEN [credit EXCEPT ![f.id] = @ - f.cost]
                   ELSE Without({f.id})
  BY DEF Route
<1> HIDE DEF f
<1>3. Append(inbox[f.id], f) \in Seq(Frame)
  BY <1>1, AppendProperties DEF TypeOK
<1>4. inbox' \in [Ids -> Seq(Frame)]
  BY <1>1, <1>2, <1>3 DEF TypeOK, Deliver
<1>5. credit' \in [Statements -> Int]
  <2>1. Without({f.id}) \in [Statements -> Int]
    BY CreditAssumption DEF Without, TypeOK
  <2>2. CASE f.kind = "data"
    BY <1>1, <1>2, <2>2 DEF TypeOK
  <2>3. CASE f.kind # "data"
    BY <1>2, <2>1, <2>3
  <2>4. QED
    BY <2>2, <2>3
<1>6. pending' \subseteq Ids
  BY <1>2 DEF TypeOK
<1>7. UNCHANGED <<caller, session, running, reset, lost, timers, process, toPlugin, alive>>
  BY DEF Route
<1>8. QED
  BY <1>1, <1>4, <1>5, <1>6, <1>7 DEF TypeOK, caller, process

LEMMA BreakType == ASSUME TypeOK, Break PROVE TypeOK'
<1>1. /\ reset' \in {"no", "protocol", "deadline", "stopped"}
      /\ alive' \in BOOLEAN /\ toPlugin' \in Seq(Sent)
  BY EndType DEF Break
<1>2. fromPlugin' \in Seq(Frame)
  BY EmptySeq DEF Break
<1>3. QED
  BY <1>1, <1>2 DEF TypeOK, Break, caller

\* Everyone still out is told, in their own queue.
LEMMA ResetType == ASSUME TypeOK, Reset PROVE TypeOK'
<1>1. \A r \in Ids : Append(inbox[r], Answer(r, "reset")) \in Seq(Frame)
  BY ResetFrame, AppendProperties DEF TypeOK
<1>2. inbox' \in [Ids -> Seq(Frame)]
  BY <1>1 DEF TypeOK, Reset
<1>3. credit' \in [Statements -> Int]
  BY CreditAssumption DEF TypeOK, Reset, Without
<1>4. slot' \in {"held", "reaped", "told", "dropped"}
      /\ reset' \in {"no", "protocol", "deadline", "stopped"} /\ pending' \subseteq Ids
  BY DEF TypeOK, Reset
<1>5. UNCHANGED <<caller, session, running, lost, timers, readDone, closing, pipes>>
  BY DEF Reset
<1>6. QED
  BY <1>2, <1>3, <1>4, <1>5 DEF TypeOK, caller, pipes

LEMMA DropHandleType == ASSUME TypeOK, DropHandle PROVE TypeOK'
<1> USE NamesApart DEF TypeOK, DropHandle, caller
<1>1. <<Ask(Close, "request")>> \in Seq(Sent)
  BY AskSent, OneFrame
<1>2. toPlugin' \in Seq(Sent)
  BY <1>1, WriteType
<1>3. pending' \subseteq Ids
  OBVIOUS
<1>4. slot' \in {"held", "reaped", "told", "dropped"}
      /\ closing' \in {"no", "waiting", "eof", "done"}
  OBVIOUS
<1>5. QED
  BY <1>2, <1>3, <1>4

\* The rest of the host's threads, and the end of a plugin.
LEMMA ThreadType ==
  ASSUME TypeOK, Eof \/ Reap \/ KillMute \/ CloseInput \/ CloseReap \/ PluginDies \/ PluginMutes
  PROVE  TypeOK'
<1>1. <<>> \in Seq(Sent)
  BY EmptySeq
<1>2. toPlugin' \in Seq(Sent) /\ alive' \in BOOLEAN
  BY <1>1 DEF TypeOK, Eof, Reap, KillMute, CloseInput, CloseReap, PluginDies,
              PluginMutes, pipes
<1>3. UNCHANGED <<caller, host, fromPlugin>>
  BY DEF Eof, Reap, KillMute, CloseInput, CloseReap, PluginDies, PluginMutes, pipes
<1>4. slot' \in {"held", "reaped", "told", "dropped"} /\ readDone' \in BOOLEAN
      /\ closing' \in {"no", "waiting", "eof", "done"}
  BY DEF TypeOK, Eof, Reap, KillMute, CloseInput, CloseReap, PluginDies,
         PluginMutes, process
<1>5. QED
  BY <1>2, <1>3, <1>4 DEF TypeOK, caller, host

\* What any plugin sends is plain, and what it reads is gone.
LEMMA PluginReadsType == ASSUME TypeOK, PluginReads PROVE TypeOK'
<1>1. PICK n \in 1..Len(toPlugin) : toPlugin' = SubSeq(toPlugin, n + 1, Len(toPlugin))
  BY DEF PluginReads
<1>2. toPlugin \in Seq(Sent) /\ Len(toPlugin) \in Nat
  BY LenProperties DEF TypeOK
<1>3. \A i \in (n + 1)..Len(toPlugin) : toPlugin[i] \in Sent
  BY <1>2, ElementOfSeq
<1>4. toPlugin' \in Seq(Sent)
  BY <1>1, <1>2, <1>3, SubSeqProperties
<1>5. QED
  BY <1>4 DEF TypeOK, PluginReads, caller, host, process

LEMMA PluginSendsPlain ==
  ASSUME PluginSends, NEW S, Plain \subseteq S, fromPlugin \in Seq(S)
  PROVE  fromPlugin' \in Seq(S)
<1>1. PICK r \in Ids :
        \/ \E kind \in Control : fromPlugin' = Append(fromPlugin, Answer(r, kind))
        \/ \E c \in Costs : fromPlugin' = Append(fromPlugin, Data(r, c))
  BY DEF PluginSends
<1>2. PICK f \in Plain : fromPlugin' = Append(fromPlugin, f)
  BY <1>1, AnswerPlain, DataPlain
<1>3. QED
  BY <1>2, AppendProperties

LEMMA PluginSendsType == ASSUME TypeOK, PluginSends PROVE TypeOK'
<1>1. fromPlugin' \in Seq(Frame)
  BY PluginSendsPlain DEF Plain, TypeOK
<1>2. QED
  BY <1>1 DEF TypeOK, PluginSends, caller, host, process

-----------------------------------------------------------------------------
(* That a reset is only told of once there was one, action by action.      *)

LEMMA StillTold ==
  ASSUME ResetTold, UNCHANGED <<fromPlugin, inbox>>, reset' = "no" => reset = "no"
  PROVE  ResetTold'
  BY DEF ResetTold

LEMMA ReturnTold ==
  ASSUME TypeOK, ResetTold, NEW r \in Requests,
         NEW with \in {"answer", "error", "lost", "reset"}, Return(r, with),
         UNCHANGED fromPlugin, reset' = "no" => reset = "no"
  PROVE  ResetTold'
  BY ReturnType DEF ResetTold

LEMMA HandOnTold ==
  ASSUME TypeOK, ResetTold, NEW r \in Requests, HandOn(r)
  PROVE  ResetTold'
<1>1. fromPlugin' \in Seq(Plain)
  BY DEF ResetTold, HandOn
<1>2. ASSUME reset = "no" PROVE inbox' \in [Ids -> Seq(Plain)]
  <2>1. inbox \in [Ids -> Seq(Plain)] /\ r \in Ids
    BY <1>2, NamesApart DEF ResetTold
  <2>2. inbox[r] \in Seq(Plain) /\ inbox[r] # <<>>
    BY <2>1 DEF HandOn, Has
  <2>3. Tail(inbox[r]) \in Seq(Plain)
    BY <2>2, Taken
  <2>4. inbox' = [inbox EXCEPT ![r] = Tail(@)]
    BY DEF HandOn
  <2>5. QED
    BY <2>1, <2>3, <2>4
<1>3. QED
  BY <1>1, <1>2 DEF ResetTold, HandOn

LEMMA RouteTold == ASSUME TypeOK, ResetTold, Route PROVE ResetTold'
<1> DEFINE f == Head(fromPlugin)
<1>1. fromPlugin \in Seq(Plain) /\ fromPlugin # <<>> /\ fromPlugin' = Tail(fromPlugin)
  BY DEF ResetTold, Route
<1>2. f \in Plain /\ fromPlugin' \in Seq(Plain)
  BY <1>1, Taken
<1>3. f.id \in Ids
  BY RouteParts
<1>4. Deliver(f) /\ UNCHANGED reset
  BY DEF Route
<1> HIDE DEF f
<1>5. ASSUME reset = "no" PROVE inbox' \in [Ids -> Seq(Plain)]
  <2>1. inbox \in [Ids -> Seq(Plain)]
    BY <1>5 DEF ResetTold
  <2>2. Append(inbox[f.id], f) \in Seq(Plain)
    BY <1>2, <1>3, <2>1, AppendProperties
  <2>3. QED
    BY <1>3, <1>4, <2>1, <2>2 DEF Deliver
<1>6. QED
  BY <1>2, <1>4, <1>5 DEF ResetTold

-----------------------------------------------------------------------------
(* The whole invariant.                                                    *)

\* Neither a caller nor the session moves.
LEMMA StillIInv ==
  ASSUME IInv, UNCHANGED <<at, result, session>>, lost => lost',
         reset # "no" => reset' # "no", TypeOK', ResetTold'
  PROVE  IInv'
<1>1. \A r \in Requests : (GivenUp(r)' <=> GivenUp(r)) /\ (Reading(r)' <=> Reading(r))
  BY DEF GivenUp, Reading
<1>2. HasSession' /\ NoneYet'
  BY DEF IInv, HasSession, NoneYet
<1>3. LossKept'
  BY <1>1 DEF IInv, LossKept
<1>4. NothingAfterLoss'
  BY <1>1 DEF IInv, NothingAfterLoss
<1>5. QED
  BY <1>2, <1>3, <1>4 DEF IInv

\* A call has its result, and nobody else is in one.
LEMMA ReturnIInv ==
  ASSUME IInv, NEW r \in Requests, at[r] = "reading",
         NEW with \in {"answer", "error", "lost", "reset"},
         at' = [at EXCEPT ![r] = "returning"],
         result' = [result EXCEPT ![r] = with], UNCHANGED session,
         lost => lost', reset # "no" => reset' # "no",
         with \in {"lost", "reset"} => lost' \/ reset' # "no",
         TypeOK', ResetTold'
  PROVE  IInv'
<1> USE DEF IInv, TypeOK
<1>1. HasSession' /\ NoneYet'
  BY DEF HasSession, NoneYet
<1>2. LossKept'
  <2>1. SUFFICES ASSUME NEW s \in Requests, GivenUp(s)'
                 PROVE  lost' \/ reset' # "no"
    BY DEF LossKept
  <2>2. CASE s = r
    BY <2>1, <2>2 DEF GivenUp
  <2>3. CASE s # r
    <3>1. GivenUp(s)
      BY <2>1, <2>3 DEF GivenUp
    <3>2. QED
      BY <3>1 DEF LossKept
  <2>4. QED
    BY <2>2, <2>3
<1>3. NothingAfterLoss'
  <2>1. \A s \in Requests : ~Reading(s)'
    BY DEF HasSession, Reading
  <2>2. QED
    BY <2>1 DEF NothingAfterLoss
<1>4. QED
  BY <1>1, <1>2, <1>3

\* Nobody has the session, so nobody is in a call.
LEMMA NobodyOut ==
  ASSUME IInv, session = Nobody
  PROVE  \A r \in Requests : at[r] \in {"idle", "ended"}
  BY NamesApart DEF IInv, HasSession, TypeOK

LEMMA StartIInv == ASSUME IInv, NEW r \in Requests, Start(r) PROVE IInv'
<1>1. TypeOK'
  BY StartType DEF IInv
<1>2. ResetTold'
  BY StillTold DEF IInv, Start
<1>3. \A s \in Requests : at[s] \in {"idle", "ended"} /\ ~GivenUp(s)
  BY NobodyOut DEF Start, IInv, LossKept
<1>4. HasSession' /\ NoneYet'
  BY <1>3 DEF IInv, TypeOK, HasSession, NoneYet, Start
<1>5. \A s \in Requests : ~GivenUp(s)'
  BY <1>3 DEF IInv, TypeOK, GivenUp, Start
<1>6. QED
  BY <1>1, <1>2, <1>4, <1>5 DEF IInv, LossKept, NothingAfterLoss

LEMMA RefuseIInv == ASSUME IInv, NEW r \in Requests, Refuse(r) PROVE IInv'
<1>1. TypeOK'
  BY RefuseType DEF IInv
<1>2. ResetTold'
  BY StillTold DEF IInv, Refuse, pipes
<1>3. \A s \in Requests : at[s] \in {"idle", "ended"}
  BY NobodyOut DEF Refuse
<1>4. \A s \in Requests : at'[s] \in {"idle", "ended"}
  BY <1>3 DEF IInv, TypeOK, Refuse
<1>5. HasSession' /\ NoneYet'
  BY <1>4 DEF IInv, TypeOK, HasSession, NoneYet, Refuse
<1>6. LossKept'
  <2>1. SUFFICES ASSUME NEW s \in Requests, GivenUp(s)'
                 PROVE  lost' \/ reset' # "no"
    BY DEF LossKept
  <2>2. CASE s = r
    <3>1. r \in Holds
      BY <2>1, <2>2 DEF GivenUp, IInv, TypeOK, Refuse
    <3>2. QED
      BY <3>1 DEF Refuse
  <2>3. CASE s # r
    <3>1. GivenUp(s)
      BY <2>1, <2>3 DEF GivenUp, IInv, TypeOK, Refuse
    <3>2. QED
      BY <3>1 DEF IInv, LossKept, Refuse
  <2>4. QED
    BY <2>2, <2>3
<1>7. NothingAfterLoss'
  BY <1>4 DEF NothingAfterLoss, Reading
<1>8. QED
  BY <1>1, <1>2, <1>5, <1>6, <1>7 DEF IInv

LEMMA GiveUpIInv == ASSUME IInv, NEW r \in Requests, GiveUp(r) PROVE IInv'
<1>1. TypeOK'
  BY GiveUpType DEF IInv
<1>2. ResetTold'
  BY StillTold DEF IInv, GiveUp, pipes, host
<1>3. HasSession' /\ NoneYet'
  BY DEF IInv, TypeOK, HasSession, NoneYet, GiveUp, host
<1>4. \A s \in Requests : (GivenUp(s)' => GivenUp(s)) /\ (Reading(s)' => Reading(s))
  BY NamesApart DEF IInv, TypeOK, GivenUp, Reading, GiveUp, Statements
<1>5. LossKept' /\ NothingAfterLoss'
  BY <1>4 DEF IInv, LossKept, NothingAfterLoss, GiveUp, host
<1>6. QED
  BY <1>1, <1>2, <1>3, <1>5 DEF IInv

LEMMA ReleaseIInv == ASSUME IInv, NEW r \in Requests, Release(r) PROVE IInv'
<1>1. TypeOK'
  BY ReleaseType DEF IInv
<1>2. ResetTold'
  BY StillTold DEF IInv, Release, pipes
<1>3. \A s \in Requests : at'[s] \in {"idle", "ended"}
  BY DEF IInv, TypeOK, HasSession, Release
<1>4. HasSession' /\ NoneYet'
  BY <1>3 DEF IInv, TypeOK, HasSession, NoneYet, Release
<1>5. LossKept'
  <2>1. SUFFICES ASSUME NEW s \in Requests, GivenUp(s)'
                 PROVE  lost' \/ reset' # "no"
    BY DEF LossKept
  <2>2. CASE GivenUp(s)
    BY <2>2 DEF IInv, LossKept, Release
  <2>3. CASE ~GivenUp(s)
    <3>1. r \in Holds /\ result[r] # "answer"
      BY <2>1, <2>3 DEF GivenUp, IInv, TypeOK, Release
    <3>2. QED
      BY <3>1 DEF Release
  <2>4. QED
    BY <2>2, <2>3
<1>6. NothingAfterLoss'
  BY <1>3 DEF NothingAfterLoss, Reading
<1>7. QED
  BY <1>1, <1>2, <1>4, <1>5, <1>6 DEF IInv

LEMMA TellStopIInv == ASSUME IInv, NEW r \in Requests, TellStop(r) PROVE IInv'
<1>1. UNCHANGED <<at, result, session, lost, reset, inbox, fromPlugin>>
  BY DEF TellStop, host
<1>2. TypeOK' /\ ResetTold'
  BY <1>1, TellStopType, StillTold DEF IInv
<1>3. QED
  BY <1>1, <1>2, StillIInv

LEMMA HandOnIInv == ASSUME IInv, NEW r \in Requests, HandOn(r) PROVE IInv'
<1>1. TypeOK' /\ ResetTold'
  BY HandOnType, HandOnTold DEF IInv
<1>2. UNCHANGED <<at, result, session, lost, reset>>
  BY DEF HandOn, caller
<1>3. QED
  BY <1>1, <1>2, StillIInv

LEMMA TakeAnswerIInv == ASSUME IInv, NEW r \in Requests, TakeAnswer(r) PROVE IInv'
<1> DEFINE kind == Head(inbox[r]).kind
<1>1. /\ kind \in {"answer", "error", "lost"} /\ Return(r, kind) /\ at[r] = "reading"
      /\ UNCHANGED <<session, reset, fromPlugin>>
  BY DEF TakeAnswer, Has, Reading, pipes
<1>2. (lost => lost') /\ (kind = "lost" => lost')
  BY DEF TakeAnswer
<1> HIDE DEF kind
<1>3. TypeOK' /\ ResetTold'
  BY <1>1, TakeAnswerType, ReturnTold DEF IInv
<1>4. at' = [at EXCEPT ![r] = "returning"] /\ result' = [result EXCEPT ![r] = kind]
  BY <1>1 DEF Return
<1>5. kind \in {"lost", "reset"} => lost' \/ reset' # "no"
  BY <1>1, <1>2
<1>6. QED
  BY <1>1, <1>2, <1>3, <1>4, <1>5, ReturnIInv

\* What says that the connection was reset comes from the host alone.
LEMMA TakeResetIsReset == ASSUME IInv, NEW r \in Requests, TakeReset(r) PROVE reset # "no"
<1>1. SUFFICES ASSUME reset = "no" PROVE FALSE
  OBVIOUS
<1>2. inbox[r] \in Seq(Plain) /\ inbox[r] # <<>> /\ Head(inbox[r]).kind = "reset"
  BY <1>1, NamesApart DEF IInv, ResetTold, TakeReset, Has
<1>3. Head(inbox[r]) \in Plain
  BY <1>2, Taken
<1>4. QED
  BY <1>2, <1>3 DEF Plain

LEMMA TakeResetIInv == ASSUME IInv, NEW r \in Requests, TakeReset(r) PROVE IInv'
<1>1. /\ Return(r, "reset") /\ at[r] = "reading"
      /\ UNCHANGED <<session, reset, lost, fromPlugin>>
  BY DEF TakeReset, Has, Reading, pipes
<1>2. reset # "no"
  BY TakeResetIsReset
<1>3. TypeOK' /\ ResetTold'
  BY <1>1, TakeResetType, ReturnTold DEF IInv
<1>4. at' = [at EXCEPT ![r] = "returning"] /\ result' = [result EXCEPT ![r] = "reset"]
  BY <1>1 DEF Return
<1>5. QED
  BY <1>1, <1>2, <1>3, <1>4, ReturnIInv

\* The two ways in which a caller ends the plugin.
LEMMA EndedIInv ==
  ASSUME IInv, NEW r \in Requests, CallDeadline(r) \/ Violated(r)
  PROVE  IInv' /\ at[r] = "reading" /\ Return(r, "reset") /\ reset' # "no"
<1>1. /\ Return(r, "reset") /\ at[r] = "reading" /\ (End("deadline") \/ End("protocol"))
      /\ UNCHANGED <<session, lost, fromPlugin>>
  BY DEF CallDeadline, Violated, Has, Reading
<1>2. reset' # "no"
  BY <1>1 DEF End
<1>3. TypeOK' /\ ResetTold'
  BY <1>1, <1>2, CallDeadlineType, ViolatedType, ReturnTold DEF IInv
<1>4. at' = [at EXCEPT ![r] = "returning"] /\ result' = [result EXCEPT ![r] = "reset"]
  BY <1>1 DEF Return
<1>5. QED
  BY <1>1, <1>2, <1>3, <1>4, ReturnIInv

\* The threads, the timers, the user and the plugin: none of them moves a
\* caller, and none takes back that the session is lost.
Others ==
  \/ Threads \/ PluginReads \/ PluginSends \/ PluginDies \/ PluginMutes
  \/ \E r \in Requests : Cancel(r) \/ Deadline(r)

LEMMA OthersStill ==
  ASSUME Others
  PROVE  UNCHANGED <<at, result, session, lost>> /\ (reset # "no" => reset' # "no")
<1>1. CASE Threads
  BY <1>1 DEF Threads, Route, Break, Eof, Reap, KillMute, Reset, DropHandle,
              CloseInput, CloseReap, End, caller, host
<1>2. CASE PluginReads \/ PluginSends \/ PluginDies \/ PluginMutes
  BY <1>2 DEF PluginReads, PluginSends, PluginDies, PluginMutes, caller, host
<1>3. ASSUME NEW r \in Requests, Cancel(r) \/ Deadline(r)
      PROVE  UNCHANGED <<at, result, session, lost>> /\ (reset # "no" => reset' # "no")
  BY <1>3 DEF Cancel, Deadline, End, caller
<1>4. QED
  BY <1>1, <1>2, <1>3 DEF Others

LEMMA OthersTold == ASSUME IInv, Others PROVE ResetTold'
<1>1. ResetTold /\ TypeOK
  BY DEF IInv
<1>2. CASE Route
  BY <1>1, <1>2, RouteTold
<1>3. CASE Break
  <2>1. fromPlugin' \in Seq(Plain) /\ reset' # "no"
    BY <1>3, EmptySeq DEF Break, End
  <2>2. QED
    BY <2>1 DEF ResetTold
<1>4. CASE Reset
  BY <1>1, <1>4 DEF Reset, ResetTold, pipes
<1>5. CASE PluginSends
  <2>1. fromPlugin' \in Seq(Plain)
    BY <1>1, <1>5, PluginSendsPlain DEF ResetTold
  <2>2. QED
    BY <1>1, <1>5, <2>1 DEF PluginSends, ResetTold, host
<1>6. CASE \/ Eof \/ Reap \/ KillMute \/ DropHandle \/ CloseInput \/ CloseReap
           \/ PluginReads \/ PluginDies \/ PluginMutes
  BY <1>1, <1>6, StillTold DEF Eof, Reap, KillMute, DropHandle, CloseInput,
     CloseReap, PluginReads, PluginDies, PluginMutes, host, pipes
<1>7. ASSUME NEW r \in Requests, Cancel(r) \/ Deadline(r) PROVE ResetTold'
  BY <1>1, <1>7, StillTold DEF Cancel, Deadline, End
<1>8. QED
  BY <1>2, <1>3, <1>4, <1>5, <1>6, <1>7 DEF Others, Threads

LEMMA OthersIInv == ASSUME IInv, Others PROVE IInv'
<1>1. TypeOK'
  <2>1. TypeOK
    BY DEF IInv
  <2>2. CASE \E r \in Requests : Cancel(r) \/ Deadline(r)
    BY <2>1, <2>2, CancelType, DeadlineType
  <2>3. CASE Route \/ Break \/ Reset \/ DropHandle \/ PluginReads \/ PluginSends
    BY <2>1, <2>3, RouteType, BreakType, ResetType, DropHandleType,
       PluginReadsType, PluginSendsType
  <2>4. CASE Eof \/ Reap \/ KillMute \/ CloseInput \/ CloseReap \/ PluginDies \/ PluginMutes
    BY <2>1, <2>4, ThreadType
  <2>5. QED
    BY <2>2, <2>3, <2>4 DEF Others, Threads
<1>2. QED
  BY <1>1, OthersStill, OthersTold, StillIInv

\* The steps there are.
LEMMA Steps ==
  ASSUME Next
  PROVE  \/ \E r \in Requests : \/ Start(r) \/ Refuse(r) \/ GiveUp(r)
                                \/ TellStop(r) \/ HandOn(r)
                                \/ TakeAnswer(r) \/ TakeReset(r)
                                \/ CallDeadline(r) \/ Violated(r) \/ Release(r)
         \/ Others
  BY DEF Next, HostNext, AnyPlugin, Caller, Others

LEMMA StillTyped == ASSUME TypeOK, UNCHANGED vars PROVE TypeOK'
  BY DEF TypeOK, vars

LEMMA NextIInv == IInv /\ [Next]_vars => IInv'
<1> SUFFICES ASSUME IInv, [Next]_vars PROVE IInv'
  OBVIOUS
<1>1. CASE UNCHANGED vars
  <2>1. TypeOK' /\ ResetTold'
    BY <1>1, StillTyped, StillTold DEF IInv, vars
  <2>2. UNCHANGED <<at, result, session, lost, reset>>
    BY <1>1 DEF vars
  <2>3. QED
    BY <2>1, <2>2, StillIInv
<1>2. CASE Others
  BY <1>2, OthersIInv
<1>3. ASSUME NEW r \in Requests, \/ Start(r) \/ Refuse(r) \/ GiveUp(r)
                                 \/ TellStop(r) \/ HandOn(r)
      PROVE  IInv'
  BY <1>3, StartIInv, RefuseIInv, GiveUpIInv, TellStopIInv, HandOnIInv
<1>4. ASSUME NEW r \in Requests, \/ TakeAnswer(r) \/ TakeReset(r)
                                 \/ CallDeadline(r) \/ Violated(r) \/ Release(r)
      PROVE  IInv'
  BY <1>4, TakeAnswerIInv, TakeResetIInv, EndedIInv, ReleaseIInv
<1>5. QED
  BY <1>1, <1>2, <1>3, <1>4, Steps

\* The invariant above holds of every state.
THEOREM Invariant == Spec => []IInv
<1>1. QED
  BY InitIInv, NextIInv, PTL DEF Spec

\* The variables of the host, its callers and its plugin have their types.
THEOREM TypeCorrect == Spec => []TypeOK
<1>1. IInv => TypeOK
  BY DEF IInv
<1>2. QED
  BY <1>1, Invariant, PTL

\* Once the plugin has said that its session is gone, the connection was
\* reset, or a hold on the session did not land, no other request is put to
\* it, whoever was waiting: the lock is looked at again after it is taken.
THEOREM NeverAfterLoss == Spec => []NothingAfterLoss
<1>1. IInv => NothingAfterLoss
  BY DEF IInv
<1>2. QED
  BY <1>1, Invariant, PTL

-----------------------------------------------------------------------------
(* The host is what PluginPromise says.                                    *)

LEMMA StagesSame ==
  ASSUME UNCHANGED <<at, result>>
  PROVE  \A r \in Requests : StageOf(r)' = StageOf(r)
  BY DEF StageOf

\* Whatever leaves the stages as they are is no step of the promise, or is the
\* loss of the session.
LEMMA StillPromised ==
  ASSUME \A r \in Requests : StageOf(r)' = StageOf(r),
         lost => lost', reset # "no" => reset' # "no"
  PROVE  [Promise!Next]_(Promise!vars)
<1> DEFINE gone == lost \/ reset # "no"
<1>1. CASE gone' = gone
  BY <1>1 DEF Promise!vars
<1>2. CASE gone' = TRUE
  <2>1. {} \in SUBSET {s \in Requests : [q \in Requests |-> StageOf(q)][s] = "out"}
    OBVIOUS
  <2>2. [q \in Requests |-> StageOf(q)]'
          = [s \in Requests |-> IF s \in {} THEN "reset"
                                ELSE [q \in Requests |-> StageOf(q)][s]]
    OBVIOUS
  <2>3. Promise!Lose
    BY <1>2, <2>1, <2>2 DEF Promise!Lose
  <2>4. QED
    BY <2>3 DEF Promise!Next
<1>3. QED
  BY <1>1, <1>2

\* A loss is not taken back.
LEMMA LostAgain ==
  ASSUME lost => lost', reset # "no" => reset' # "no"
  PROVE  (lost \/ reset # "no")' \in {(lost \/ reset # "no"), TRUE}
  BY Zenon

LEMMA StartPuts == ASSUME IInv, NEW r \in Requests, Start(r) PROVE Promise!Put(r)
<1>1. \A s \in Requests : at[s] \in {"idle", "ended"}
  BY NobodyOut DEF Start
<1>2. \A s \in Requests : StageOf(s) # "out"
  BY <1>1 DEF StageOf
<1>3. StageOf(r) = "unsent" /\ StageOf(r)' = "out"
  BY DEF Start, StageOf, IInv, TypeOK
<1>4. \A s \in Requests \ {r} : StageOf(s)' = StageOf(s)
  BY DEF Start, StageOf, IInv, TypeOK
<1>5. ~(lost \/ reset # "no") /\ UNCHANGED <<lost, reset>>
  BY DEF Start
<1>6. QED
  BY <1>2, <1>3, <1>4, <1>5 DEF Promise!Put, Promise!Idle

LEMMA DropDrops ==
  ASSUME IInv, NEW r \in Requests, Refuse(r) \/ GiveUp(r)
  PROVE  Promise!Drop(r)
<1>1. StageOf(r) = "unsent" /\ StageOf(r)' = "dropped"
  BY DEF Refuse, GiveUp, StageOf, IInv, TypeOK
<1>2. \A s \in Requests \ {r} : StageOf(s)' = StageOf(s)
  BY DEF Refuse, GiveUp, StageOf, IInv, TypeOK
<1>3. (lost => lost') /\ (reset # "no" => reset' # "no")
  <2>1. CASE Refuse(r)
    BY <2>1 DEF Refuse
  <2>2. CASE GiveUp(r)
    BY <2>2 DEF GiveUp, host
  <2>3. QED
    BY <2>1, <2>2
<1>4. (lost \/ reset # "no")' \in {(lost \/ reset # "no"), TRUE}
  BY <1>3, LostAgain
<1>5. QED
  BY <1>1, <1>2, <1>4 DEF Promise!Drop

\* What a call that returns becomes, of all the stages.
LEMMA ReturnStages ==
  ASSUME IInv, NEW r \in Requests, at[r] = "reading",
         NEW with \in {"answer", "error", "lost", "reset"}, Return(r, with)
  PROVE  /\ StageOf(r) = "out"
         /\ StageOf(r)' = IF with = "reset" THEN "reset" ELSE "answered"
         /\ \A s \in Requests \ {r} : StageOf(s)' = StageOf(s)
  BY DEF Return, StageOf, IInv, TypeOK

LEMMA TakeAnswers == ASSUME IInv, NEW r \in Requests, TakeAnswer(r) PROVE Promise!Answer(r)
<1> DEFINE kind == Head(inbox[r]).kind
<1>1. kind \in {"answer", "error", "lost"} /\ Return(r, kind) /\ at[r] = "reading"
  BY DEF TakeAnswer, Has, Reading
<1> HIDE DEF kind
<1>2. /\ StageOf(r) = "out" /\ StageOf(r)' = "answered"
      /\ \A s \in Requests \ {r} : StageOf(s)' = StageOf(s)
  BY <1>1, ReturnStages
<1>3. (lost => lost') /\ (reset # "no" => reset' # "no")
  BY DEF TakeAnswer
<1>4. (lost \/ reset # "no")' \in {(lost \/ reset # "no"), TRUE}
  BY <1>3, LostAgain
<1>5. QED
  BY <1>2, <1>4 DEF Promise!Answer

\* A call that returns with the reset is told of it.
LEMMA ResetLoses ==
  ASSUME IInv, NEW r \in Requests, at[r] = "reading", Return(r, "reset"), reset' # "no"
  PROVE  Promise!Lose
<1>1. /\ StageOf(r) = "out" /\ StageOf(r)' = "reset"
      /\ \A s \in Requests \ {r} : StageOf(s)' = StageOf(s)
  BY ReturnStages
<1>2. (lost \/ reset # "no")' = TRUE
  OBVIOUS
<1>3. {r} \in SUBSET {s \in Requests : [q \in Requests |-> StageOf(q)][s] = "out"}
  BY <1>1
<1>4. [q \in Requests |-> StageOf(q)]'
        = [s \in Requests |-> IF s \in {r} THEN "reset"
                              ELSE [q \in Requests |-> StageOf(q)][s]]
  BY <1>1
<1>5. QED
  BY <1>2, <1>3, <1>4 DEF Promise!Lose

LEMMA ReleaseStages ==
  ASSUME IInv, NEW r \in Requests, Release(r)
  PROVE  \A s \in Requests : StageOf(s)' = StageOf(s)
  BY DEF Release, StageOf, IInv, TypeOK

LEMMA StepPromised == IInv /\ [Next]_vars => [Promise!Next]_(Promise!vars)
<1> SUFFICES ASSUME IInv, [Next]_vars PROVE [Promise!Next]_(Promise!vars)
  OBVIOUS
<1>1. CASE UNCHANGED vars
  BY <1>1, StagesSame, StillPromised DEF vars
<1>2. CASE Others
  BY <1>2, OthersStill, StagesSame, StillPromised
<1>3. ASSUME NEW r \in Requests, Start(r) PROVE Promise!Next
  BY <1>3, StartPuts DEF Promise!Next
<1>4. ASSUME NEW r \in Requests, Refuse(r) \/ GiveUp(r) PROVE Promise!Next
  BY <1>4, DropDrops DEF Promise!Next
<1>5. ASSUME NEW r \in Requests, TellStop(r) \/ HandOn(r)
      PROVE  [Promise!Next]_(Promise!vars)
  <2>1. UNCHANGED <<at, result, lost, reset>>
    BY <1>5 DEF TellStop, HandOn, caller, host
  <2>2. QED
    BY <2>1, StagesSame, StillPromised
<1>6. ASSUME NEW r \in Requests, TakeAnswer(r) PROVE Promise!Next
  BY <1>6, TakeAnswers DEF Promise!Next
<1>7. ASSUME NEW r \in Requests, TakeReset(r) PROVE Promise!Next
  <2>1. at[r] = "reading" /\ Return(r, "reset") /\ UNCHANGED reset
    BY <1>7 DEF TakeReset, Has, Reading
  <2>2. reset' # "no"
    BY <1>7, <2>1, TakeResetIsReset
  <2>3. QED
    BY <2>1, <2>2, ResetLoses DEF Promise!Next
<1>8. ASSUME NEW r \in Requests, CallDeadline(r) \/ Violated(r) PROVE Promise!Next
  BY <1>8, EndedIInv, ResetLoses DEF Promise!Next
<1>9. ASSUME NEW r \in Requests, Release(r) PROVE [Promise!Next]_(Promise!vars)
  <2>1. (lost => lost') /\ (reset # "no" => reset' # "no")
    BY <1>9 DEF Release
  <2>2. QED
    BY <1>9, <2>1, ReleaseStages, StillPromised
<1>10. QED
  BY <1>1, <1>2, <1>3, <1>4, <1>5, <1>6, <1>7, <1>8, <1>9, Steps

LEMMA InitPromised == Init => Promise!Init
  BY DEF Init, Promise!Init, StageOf

\* Whatever the plugin does, callers see requests put to it one at a time and
\* at most once each, every one that ends ended once, by its answer or by the
\* loss of the session, and none put after that: the host implements
\* PluginPromise.
THEOREM ImplementsPromise == Spec => PromiseKept
<1>1. QED
  BY InitPromised, StepPromised, Invariant, PTL DEF Spec, PromiseKept, Promise!Spec

-----------------------------------------------------------------------------
(* What the frames of a queue weigh, whatever queue it is.                 *)

\* What some number has, a least one has.
LEMMA LeastNumber ==
  ASSUME NEW T \in SUBSET Nat, T # {}
  PROVE  \E n \in T : \A m \in T : n <= m
<1> DEFINE R == OpToRel(<, Nat)
<1>1. IsWellFoundedOn(R, Nat)
  BY NatLessThanWellFounded
<1>2. \A x, y \in Nat : x < y => <<x, y>> \in R
  BY DEF OpToRel
<1> HIDE DEF R
<1>3. PICK n \in T : \A m \in T : ~(<<m, n>> \in R)
  BY <1>1, WFMin
<1>4. \A m \in T : ~(m < n)
  BY <1>2, <1>3
<1>5. QED
  BY <1>3, <1>4

\* The sequences that are no longer than n.
Short(F, n) == {s \in Seq(F) : Len(s) <= n}
\* A sum of the sequences that are no longer than n.
Sums(F, w, n) ==
  {g \in [Short(F, n) -> Int] :
     \A s \in Short(F, n) : g[s] = IF s = <<>> THEN 0 ELSE w[Head(s)] + g[Tail(s)]}

LEMMA TailShort ==
  ASSUME NEW F, NEW n \in Nat, NEW s \in Short(F, n), s # <<>>
  PROVE  /\ n # 0 /\ Tail(s) \in Short(F, n - 1) /\ Tail(s) \in Short(F, n) /\ Head(s) \in F
         /\ Len(Tail(s)) = Len(s) - 1 /\ Len(s) \in Nat \ {0}
<1>1. s \in Seq(F) /\ Len(s) <= n
  BY DEF Short
<1>2. Len(s) \in Nat \ {0} /\ Tail(s) \in Seq(F) /\ Len(Tail(s)) = Len(s) - 1 /\ Head(s) \in F
  BY <1>1, EmptySeq, HeadTailProperties
<1>3. QED
  BY <1>1, <1>2 DEF Short

\* There is a sum of the sequences of every length...
LEMMA SumsExist ==
  ASSUME NEW F, NEW w \in [F -> Int]
  PROVE  \A n \in Nat : Sums(F, w, n) # {}
<1> DEFINE T == {n \in Nat : Sums(F, w, n) = {}}
<1>1. SUFFICES ASSUME T # {} PROVE FALSE
  OBVIOUS
<1>2. PICK n \in T : \A m \in T : n <= m
  BY <1>1, LeastNumber
<1>3. n \in Nat /\ Sums(F, w, n) = {}
  BY <1>2
<1>4. CASE n = 0
  <2> DEFINE g == [s \in Short(F, 0) |-> 0]
  <2>1. \A s \in Short(F, 0) : s = <<>>
    BY TailShort
  <2>2. g \in Sums(F, w, 0)
    BY <2>1 DEF Sums
  <2>3. QED
    BY <1>3, <1>4, <2>2
<1>5. CASE n # 0
  <2>1. n - 1 \in Nat /\ n - 1 \notin T
    BY <1>2, <1>3, <1>5
  <2>2. PICK g : g \in Sums(F, w, n - 1)
    BY <2>1
  <2> DEFINE h == [s \in Short(F, n) |-> IF s = <<>> THEN 0 ELSE w[Head(s)] + g[Tail(s)]]
  <2>3. h \in [Short(F, n) -> Int]
    <3>1. \A s \in Short(F, n) : s # <<>> => w[Head(s)] \in Int /\ g[Tail(s)] \in Int
      BY <1>3, <2>2, TailShort DEF Sums
    <3>2. QED
      BY <3>1
  <2>4. ASSUME NEW s \in Short(F, n), s # <<>> PROVE h[Tail(s)] = g[Tail(s)]
    <3>1. Tail(s) \in Short(F, n - 1) /\ Tail(s) \in Short(F, n)
      BY <1>3, <2>4, TailShort
    <3>2. g[Tail(s)] = IF Tail(s) = <<>> THEN 0 ELSE w[Head(Tail(s))] + g[Tail(Tail(s))]
      BY <2>2, <3>1 DEF Sums
    <3>3. h[Tail(s)] = IF Tail(s) = <<>> THEN 0 ELSE w[Head(Tail(s))] + g[Tail(Tail(s))]
      BY <3>1
    <3>4. QED
      BY <3>2, <3>3
  <2>5. \A s \in Short(F, n) : h[s] = IF s = <<>> THEN 0 ELSE w[Head(s)] + h[Tail(s)]
    BY <2>4
  <2> HIDE DEF h
  <2>6. h \in Sums(F, w, n)
    BY <2>3, <2>5 DEF Sums
  <2>7. QED
    BY <1>3, <2>6
<1>6. QED
  BY <1>4, <1>5

\* ... and no two that differ...
LEMMA SumsAgree ==
  ASSUME NEW F, NEW w \in [F -> Int], NEW m \in Nat, NEW n \in Nat,
         NEW g \in Sums(F, w, m), NEW h \in Sums(F, w, n)
  PROVE  \A s \in Short(F, m) \cap Short(F, n) : g[s] = h[s]
<1> DEFINE B == Short(F, m) \cap Short(F, n)
           T == {k \in Nat : \E s \in B : Len(s) = k /\ g[s] # h[s]}
<1>1. \A s \in B : Len(s) \in Nat
  BY LenProperties DEF Short
<1>2. SUFFICES ASSUME T # {} PROVE FALSE
  BY <1>1
<1>3. PICK k \in T : \A j \in T : k <= j
  BY <1>2, LeastNumber
<1>4. PICK s \in B : Len(s) = k /\ g[s] # h[s]
  BY <1>3
<1>5. /\ g[s] = IF s = <<>> THEN 0 ELSE w[Head(s)] + g[Tail(s)]
      /\ h[s] = IF s = <<>> THEN 0 ELSE w[Head(s)] + h[Tail(s)]
  BY <1>4 DEF Sums
<1>6. s # <<>> /\ g[Tail(s)] # h[Tail(s)]
  BY <1>4, <1>5
<1>7. Tail(s) \in B /\ Len(Tail(s)) = k - 1 /\ k \in Nat \ {0}
  BY <1>4, <1>6, TailShort
<1>8. \E t \in B : Len(t) = k - 1 /\ g[t] # h[t]
  BY <1>6, <1>7
<1>9. k - 1 \in T
  BY <1>7, <1>8
<1>10. QED
  BY <1>3, <1>7, <1>9

\* ... so what a queue weighs is what its definition says.
LEMMA WeighParts ==
  ASSUME NEW F, NEW w \in [F -> Int]
  PROVE  /\ Weigh(w) \in [Seq(F) -> Int]
         /\ Weigh(w)[<<>>] = 0
         /\ \A s \in Seq(F) : s # <<>> => Weigh(w)[s] = w[Head(s)] + Weigh(w)[Tail(s)]
<1> DEFINE pick(n) == CHOOSE g : g \in Sums(F, w, n)
           G == [s \in Seq(F) |-> pick(Len(s))[s]]
<1>1. \A n \in Nat : pick(n) \in Sums(F, w, n)
  BY SumsExist
<1> HIDE DEF pick
<1>2. \A s \in Seq(F) : Len(s) \in Nat /\ s \in Short(F, Len(s))
  BY LenProperties DEF Short
<1>3. \A s \in Seq(F) : G[s] \in Int
  BY <1>1, <1>2 DEF Sums
<1>4. ASSUME NEW s \in Seq(F), s # <<>>
      PROVE  G[s] = w[Head(s)] + G[Tail(s)]
  <2>1. /\ Tail(s) \in Seq(F) /\ Len(s) \in Nat \ {0} /\ Len(Tail(s)) = Len(s) - 1
        /\ Tail(s) \in Short(F, Len(s)) /\ Tail(s) \in Short(F, Len(Tail(s)))
    BY <1>2, <1>4, TailShort
  <2>2. pick(Len(s))[s] = w[Head(s)] + pick(Len(s))[Tail(s)]
    BY <1>1, <1>2, <1>4 DEF Sums
  <2>3. pick(Len(s))[Tail(s)] = pick(Len(Tail(s)))[Tail(s)]
    BY <1>1, <2>1, <1>2, SumsAgree
  <2>4. QED
    BY <2>1, <2>2, <2>3
<1>5. G[<<>>] = 0
  <2>1. <<>> \in Seq(F) /\ Len(<<>>) = 0
    BY EmptySeq
  <2>2. pick(0)[<<>>] = 0
    BY <1>1, <1>2, <2>1 DEF Sums
  <2>3. QED
    BY <2>1, <2>2
<1>6. G = [s \in Seq(F) |-> IF s = <<>> THEN 0 ELSE w[Head(s)] + G[Tail(s)]]
  BY <1>4, <1>5
<1> HIDE DEF G
<1>7. DOMAIN w = F
  OBVIOUS
<1>8. Weigh(w) = CHOOSE g : g = [s \in Seq(F) |-> IF s = <<>> THEN 0 ELSE w[Head(s)] + g[Tail(s)]]
  BY <1>7 DEF Weigh
<1>9. Weigh(w) = [s \in Seq(F) |-> IF s = <<>> THEN 0 ELSE w[Head(s)] + Weigh(w)[Tail(s)]]
  BY <1>6, <1>8
<1>10. \A s \in Seq(F) : Weigh(w)[s] = IF s = <<>> THEN 0 ELSE w[Head(s)] + Weigh(w)[Tail(s)]
  BY <1>9
<1>11. \A s \in Seq(F) : Weigh(w)[s] \in Int
  <2> DEFINE T == {k \in Nat : \E s \in Seq(F) : Len(s) = k /\ Weigh(w)[s] \notin Int}
  <2>1. SUFFICES ASSUME T # {} PROVE FALSE
    BY <1>2
  <2>2. PICK k \in T : \A j \in T : k <= j
    BY <2>1, LeastNumber
  <2>3. PICK s \in Seq(F) : Len(s) = k /\ Weigh(w)[s] \notin Int
    BY <2>2
  <2>4. s # <<>>
    BY <1>10, <2>3
  <2>5. Head(s) \in F /\ Tail(s) \in Seq(F) /\ Len(Tail(s)) = k - 1 /\ k \in Nat \ {0}
    BY <1>2, <2>3, <2>4, TailShort
  <2>6. Weigh(w)[Tail(s)] \notin Int
    BY <1>10, <2>3, <2>4, <2>5
  <2>7. \E t \in Seq(F) : Len(t) = k - 1 /\ Weigh(w)[t] \notin Int
    BY <2>5, <2>6
  <2>8. k - 1 \in T
    BY <2>5, <2>7
  <2>9. QED
    BY <2>2, <2>5, <2>8
<1>12. Weigh(w) \in [Seq(F) -> Int]
  BY <1>9, <1>11
<1>13. QED
  BY <1>10, <1>12, EmptySeq

LEMMA WeighAppend ==
  ASSUME NEW F, NEW w \in [F -> Int], NEW f \in F
  PROVE  \A s \in Seq(F) : Weigh(w)[Append(s, f)] = Weigh(w)[s] + w[f]
<1> DEFINE T == {k \in Nat : \E s \in Seq(F) :
                              Len(s) = k /\ Weigh(w)[Append(s, f)] # Weigh(w)[s] + w[f]}
<1>1. \A s \in Seq(F) : Len(s) \in Nat /\ s \in Short(F, Len(s))
  BY LenProperties DEF Short
<1>2. SUFFICES ASSUME T # {} PROVE FALSE
  BY <1>1
<1>3. PICK k \in T : \A j \in T : k <= j
  BY <1>2, LeastNumber
<1>4. PICK s \in Seq(F) : Len(s) = k /\ Weigh(w)[Append(s, f)] # Weigh(w)[s] + w[f]
  BY <1>3
<1>5. /\ Append(s, f) \in Seq(F) /\ Append(s, f) # <<>>
      /\ Head(Append(s, f)) = IF s = <<>> THEN f ELSE Head(s)
      /\ Tail(Append(s, f)) = IF s = <<>> THEN <<>> ELSE Append(Tail(s), f)
  BY AppendProperties, HeadTailAppend
<1>6. s # <<>>
  <2>1. CASE s = <<>>
    <3>1. Weigh(w)[Append(s, f)] = w[f] + 0 /\ Weigh(w)[s] = 0
      BY <1>5, <2>1, WeighParts
    <3>2. w[f] \in Int
      OBVIOUS
    <3>3. QED
      BY <1>4, <3>1, <3>2
  <2>2. QED
    BY <2>1
<1>7. Head(s) \in F /\ Tail(s) \in Seq(F) /\ Len(Tail(s)) = k - 1 /\ k \in Nat \ {0}
  BY <1>1, <1>4, <1>6, TailShort
<1>8. Weigh(w)[Append(s, f)] = w[Head(s)] + Weigh(w)[Append(Tail(s), f)]
      /\ Weigh(w)[s] = w[Head(s)] + Weigh(w)[Tail(s)]
  BY <1>4, <1>5, <1>6, WeighParts
<1>9. Weigh(w) \in [Seq(F) -> Int] /\ Append(Tail(s), f) \in Seq(F) /\ w[Head(s)] \in Int /\ w[f] \in Int
  BY <1>7, WeighParts, AppendProperties
<1>10. Weigh(w)[Append(Tail(s), f)] # Weigh(w)[Tail(s)] + w[f]
  <2>1. Weigh(w)[Append(Tail(s), f)] \in Int /\ Weigh(w)[Tail(s)] \in Int
    BY <1>7, <1>9
  <2>2. QED
    BY <1>4, <1>8, <1>9, <2>1
<1>11. \E t \in Seq(F) : Len(t) = k - 1 /\ Weigh(w)[Append(t, f)] # Weigh(w)[t] + w[f]
  BY <1>7, <1>10
<1>12. k - 1 \in T
  BY <1>7, <1>11
<1>13. QED
  BY <1>3, <1>7, <1>12

\* What weighs less than nothing is not there, so no part outweighs the whole.
LEMMA WeighNat ==
  ASSUME NEW F, NEW w \in [F -> Nat]
  PROVE  \A s \in Seq(F) : Weigh(w)[s] \in Nat /\ \A i \in 1..Len(s) : w[s[i]] <= Weigh(w)[s]
<1> DEFINE OK(s) == Weigh(w)[s] \in Nat /\ \A i \in 1..Len(s) : w[s[i]] <= Weigh(w)[s]
           T == {k \in Nat : \E s \in Seq(F) : Len(s) = k /\ ~OK(s)}
<1>1. \A s \in Seq(F) : Len(s) \in Nat /\ s \in Short(F, Len(s))
  BY LenProperties DEF Short
<1>2. SUFFICES ASSUME T # {} PROVE FALSE
  BY <1>1
<1>3. PICK k \in T : \A j \in T : k <= j
  BY <1>2, LeastNumber
<1>4. PICK s \in Seq(F) : Len(s) = k /\ ~OK(s)
  BY <1>3
<1>0. w \in [F -> Int]
  OBVIOUS
<1>6. s # <<>>
  <2>1. CASE s = <<>>
    <3>1. Weigh(w)[s] = 0 /\ Len(s) = 0
      BY <1>0, <2>1, WeighParts
    <3>3. QED
      BY <1>4, <3>1
  <2>2. QED
    BY <2>1
<1>7. Head(s) \in F /\ Tail(s) \in Seq(F) /\ Len(Tail(s)) = k - 1 /\ k \in Nat \ {0}
  BY <1>1, <1>4, <1>6, TailShort
<1>8. Weigh(w)[s] = w[Head(s)] + Weigh(w)[Tail(s)]
  BY <1>0, <1>6, WeighParts
<1>9. OK(Tail(s))
  <2>1. SUFFICES ASSUME ~OK(Tail(s)) PROVE FALSE
    OBVIOUS
  <2> HIDE DEF OK
  <2>2. \E t \in Seq(F) : Len(t) = k - 1 /\ ~OK(t)
    BY <1>7, <2>1
  <2>3. k - 1 \in T
    BY <1>7, <2>2
  <2>4. QED
    BY <1>3, <1>7, <2>3
<1>10. w[Head(s)] \in Nat /\ Head(s) = s[1] /\ \A i \in 1..(k - 1) : Tail(s)[i] = s[i + 1]
  BY <1>4, <1>6, <1>7, HeadTailProperties
<1>11. Weigh(w)[s] \in Nat
  BY <1>8, <1>9, <1>10
<1>12. ASSUME NEW i \in 1..Len(s) PROVE w[s[i]] <= Weigh(w)[s]
  <2>1. CASE i = 1
    BY <1>8, <1>9, <1>10, <2>1
  <2>2. CASE i # 1
    <3>1. i - 1 \in 1..(k - 1) /\ s[i] = Tail(s)[i - 1]
      BY <1>4, <1>7, <1>10, <2>2
    <3>2. w[s[i]] <= Weigh(w)[Tail(s)]
      BY <1>7, <1>9, <3>1
    <3>3. s[i] \in F
      BY ElementOfSeq
    <3>4. w[s[i]] \in Nat
      BY <3>3
    <3>5. QED
      BY <1>8, <1>9, <1>10, <3>2, <3>4
  <2>3. QED
    BY <2>1, <2>2
<1>13. QED
  BY <1>4, <1>11, <1>12

-----------------------------------------------------------------------------
(* What the host holds for a statement.                                    *)

\* What a caller is not reading is not kept for it.
NothingKept == \A r \in Requests : at[r] # "reading" => inbox[r] = <<>>

\* A statement's credit and what its caller holds are the window, until its
\* answer comes.
CreditKept ==
  \A r \in Statements :
    /\ r \notin pending => credit[r] = Window
    /\ r \in pending => at[r] # "idle"
    /\ r \in pending /\ at[r] = "reading" => credit[r] + Weigh(Rows)[inbox[r]] = Window

Counted == NothingKept /\ CreditKept /\ WithinWindow

LEMMA RowsWeigh ==
  /\ Rows \in [Frame -> Nat] /\ Rows \in [Frame -> Int]
  /\ \A f \in Frame : f.kind = "data" => Rows[f] = f.cost /\ f.cost \in Nat \ {0}
  /\ \A f \in Frame : f.kind # "data" => Rows[f] = 0
<1>1. \A f \in Frame : f.kind = "data" => f.cost \in Costs
  BY FrameParts
<1>2. Costs \subseteq Nat \ {0}
  BY CreditAssumption
<1>3. \A f \in Frame : f.kind = "data" => Rows[f] = f.cost
  BY DEF Rows
<1>4. \A f \in Frame : f.kind # "data" => Rows[f] = 0
  BY DEF Rows
<1>5. \A f \in Frame : Rows[f] \in Nat
  <2>1. SUFFICES ASSUME NEW f \in Frame PROVE Rows[f] \in Nat
    OBVIOUS
  <2>2. CASE f.kind = "data"
    <3>1. Rows[f] = f.cost
      BY <1>3, <2>2
    <3>2. f.cost \in Nat
      BY <1>1, <1>2, <2>2
    <3>3. QED
      BY <3>1, <3>2
  <2>3. CASE f.kind # "data"
    <3>1. Rows[f] = 0
      BY <1>4, <2>3
    <3>2. QED
      BY <3>1
  <2>4. QED
    BY <2>2, <2>3
<1>6. Rows = [f \in Frame |-> Rows[f]]
  BY DEF Rows
<1>7. Rows \in [Frame -> Nat] /\ Rows \in [Frame -> Int]
  <2> HIDE DEF Rows
  <2>1. \A f \in Frame : Rows[f] \in Int
    BY <1>5
  <2>2. QED
    BY <1>5, <1>6, <2>1
<1>8. QED
  BY <1>1, <1>2, <1>3, <1>4, <1>7

LEMMA HeldTyped ==
  ASSUME TypeOK, NEW r \in Requests
  PROVE  inbox[r] \in Seq(Frame) /\ Weigh(Rows)[inbox[r]] \in Nat
<1>1. inbox[r] \in Seq(Frame)
  BY NamesApart DEF TypeOK
<1>2. QED
  BY <1>1, RowsWeigh, WeighNat

LEMMA InitCounted == Init => Counted
<1> SUFFICES ASSUME Init PROVE Counted
  OBVIOUS
<1>1. NothingKept
  BY NamesApart DEF Init, NothingKept
<1>2. CreditKept
  BY DEF Init, CreditKept
<1>3. \A r \in Statements : Len(inbox[r]) = 0
  BY NamesApart DEF Init
<1>4. WithinWindow
  BY <1>3 DEF WithinWindow
<1>5. QED
  BY <1>1, <1>2, <1>4 DEF Counted

LEMMA SameCounted ==
  ASSUME Counted, UNCHANGED <<at, inbox, credit>>, NEW S, pending' = pending \cup S, S \cap Statements = {}
  PROVE  Counted'
<1>1. NothingKept'
  BY DEF Counted, NothingKept
<1>2. CreditKept'
  BY DEF Counted, CreditKept
<1>3. WithinWindow'
  BY DEF Counted, WithinWindow
<1>4. QED
  BY <1>1, <1>2, <1>3 DEF Counted

\* A caller leaves, with nothing kept for it.
LEMMA LeftCounted ==
  ASSUME Counted, TypeOK, NEW r \in Requests, NEW place \in {"returning", "ended"},
         at' = [at EXCEPT ![r] = place], UNCHANGED <<credit, pending>>,
         \/ UNCHANGED inbox /\ at[r] # "reading"
         \/ inbox' = [inbox EXCEPT ![r] = <<>>],
         at[r] # "idle" \/ r \notin pending \/ place = "ended"
  PROVE  Counted'
<1> USE NamesApart DEF TypeOK
<1>1. NothingKept'
  BY DEF Counted, NothingKept
<1>2. CreditKept'
  <2>1. \A s \in Statements \ {r} : at'[s] = at[s] /\ inbox'[s] = inbox[s]
    OBVIOUS
  <2>2. r \in Statements => at'[r] = place
    OBVIOUS
  <2>3. QED
    BY <2>1, <2>2 DEF Counted, CreditKept
<1>3. WithinWindow'
  <2>1. \A s \in Statements \ {r} : inbox'[s] = inbox[s]
    OBVIOUS
  <2>2. r \in Statements => inbox'[r] = inbox[r] \/ Len(inbox'[r]) = 0
    OBVIOUS
  <2>3. QED
    BY <2>1, <2>2 DEF Counted, WithinWindow
<1>4. QED
  BY <1>1, <1>2, <1>3 DEF Counted

LEMMA StartCounted == ASSUME IInv, Counted, NEW r \in Requests, Start(r) PROVE Counted'
<1> USE NamesApart
<1>1. /\ TypeOK /\ at[r] = "idle" /\ at' = [at EXCEPT ![r] = "reading"]
      /\ pending' = pending \cup {r} /\ UNCHANGED <<inbox, credit>>
  BY DEF Start, IInv
<1>2. inbox[r] = <<>> /\ (r \in Statements => credit[r] = Window)
  BY <1>1 DEF Counted, NothingKept, CreditKept
<1>3. Weigh(Rows)[<<>>] = 0
  BY WeighParts, RowsWeigh
<1>4. Window \in Int
  BY CreditAssumption
<1>5. NothingKept' /\ WithinWindow'
  BY <1>1, <1>2 DEF Counted, NothingKept, WithinWindow, TypeOK
<1>6. CreditKept'
  <2>1. SUFFICES ASSUME NEW s \in Statements
                 PROVE /\ s \notin pending' => credit'[s] = Window
                       /\ s \in pending' => at'[s] # "idle"
                       /\ s \in pending' /\ at'[s] = "reading" =>
                            credit'[s] + Weigh(Rows)[inbox'[s]] = Window
    BY DEF CreditKept
  <2>2. CASE s = r
    BY <1>1, <1>2, <1>3, <1>4, <2>1, <2>2 DEF TypeOK
  <2>3. CASE s # r
    BY <1>1, <2>1, <2>3 DEF Counted, CreditKept, TypeOK
  <2>4. QED
    BY <2>2, <2>3
<1>7. QED
  BY <1>5, <1>6 DEF Counted

LEMMA TellStopCounted == ASSUME Counted, NEW r \in Requests, TellStop(r) PROVE Counted'
<1> DEFINE S == {}
<1>1. UNCHANGED <<at, inbox, credit>> /\ pending' = pending \cup S
  BY DEF TellStop, host
<1>2. S \cap Statements = {}
  OBVIOUS
<1> HIDE DEF S
<1>3. QED
  BY <1>1, <1>2, SameCounted

LEMMA HandOnCounted == ASSUME TypeOK, Counted, NEW r \in Requests, HandOn(r) PROVE Counted'
<1> USE NamesApart
<1> DEFINE f == Head(inbox[r])
<1>1. /\ r \in Statements /\ inbox[r] # <<>> /\ f.kind = "data" /\ at[r] = "reading"
      /\ inbox' = [inbox EXCEPT ![r] = Tail(@)] /\ UNCHANGED <<at, pending>>
      /\ credit' = IF r \in pending THEN [credit EXCEPT ![r] = @ + f.cost] ELSE credit
  BY DEF HandOn, Has, Reading, caller
<1>2. inbox[r] \in Seq(Frame) /\ Weigh(Rows)[inbox[r]] \in Nat
  BY HeldTyped
<1>3. f \in Frame /\ Tail(inbox[r]) \in Seq(Frame)
  BY <1>1, <1>2, Taken
<1>4. Rows[f] = f.cost /\ f.cost \in Nat
  BY <1>1, <1>3, RowsWeigh
<1>5. /\ Weigh(Rows)[inbox[r]] = f.cost + Weigh(Rows)[Tail(inbox[r])]
      /\ Weigh(Rows)[Tail(inbox[r])] \in Nat
  <2>1. Weigh(Rows)[inbox[r]] = Rows[f] + Weigh(Rows)[Tail(inbox[r])]
    BY <1>1, <1>2, WeighParts, RowsWeigh
  <2>2. Weigh(Rows)[Tail(inbox[r])] \in Nat
    BY <1>3, WeighNat, RowsWeigh
  <2>3. QED
    BY <1>4, <2>1, <2>2
<1>6. inbox'[r] = Tail(inbox[r]) /\ (\A s \in Requests \ {r} : inbox'[s] = inbox[s])
  BY <1>1 DEF TypeOK
<1> HIDE DEF f
<1>7. NothingKept'
  BY <1>1, <1>6 DEF Counted, NothingKept
<1>8. CreditKept'
  <2>1. r \in pending => credit'[r] = credit[r] + f.cost /\ credit[r] \in Int
    BY <1>1 DEF TypeOK
  <2>2. \A s \in Statements \ {r} : credit'[s] = credit[s]
    BY <1>1 DEF TypeOK
  <2>3. \A s \in Statements \ {r} :
          /\ s \notin pending' => credit'[s] = Window
          /\ s \in pending' => at'[s] # "idle"
          /\ s \in pending' /\ at'[s] = "reading" =>
               credit'[s] + Weigh(Rows)[inbox'[s]] = Window
    BY <1>1, <1>6, <2>2 DEF Counted, CreditKept
  <2>4. r \in pending => credit'[r] + Weigh(Rows)[inbox'[r]] = Window
    <3>1. SUFFICES ASSUME r \in pending PROVE credit'[r] + Weigh(Rows)[inbox'[r]] = Window
      OBVIOUS
    <3>2. credit[r] + Weigh(Rows)[inbox[r]] = Window
      BY <1>1, <3>1 DEF Counted, CreditKept
    <3>3. QED
      BY <1>4, <1>5, <1>6, <2>1, <3>1, <3>2
  <2>5. r \notin pending => credit'[r] = Window
    BY <1>1 DEF Counted, CreditKept
  <2>6. QED
    BY <1>1, <2>3, <2>4, <2>5 DEF CreditKept
<1>9. WithinWindow'
  <2>1. \A i \in 1..Len(Tail(inbox[r])) : /\ i + 1 \in 1..Len(inbox[r])
                                          /\ Tail(inbox[r])[i] = inbox[r][i + 1]
    BY <1>1, <1>2, HeadTailProperties, EmptySeq
  <2>2. \/ \A i, j \in 1..Len(inbox'[r]) :
             inbox'[r][i].kind = "data" /\ inbox'[r][j].kind = "data" => i + 1 = j + 1
        \/ Weigh(Rows)[inbox'[r]] <= Window
    <3>1. CASE Weigh(Rows)[inbox[r]] <= Window
      BY <1>4, <1>5, <1>6, <3>1, CreditAssumption
    <3>2. CASE \A i, j \in 1..Len(inbox[r]) :
                 inbox[r][i].kind = "data" /\ inbox[r][j].kind = "data" => i = j
      BY <1>6, <2>1, <3>2
    <3>3. QED
      BY <1>1, <3>1, <3>2 DEF Counted, WithinWindow
  <2>3. \/ \A i, j \in 1..Len(inbox'[r]) :
             inbox'[r][i].kind = "data" /\ inbox'[r][j].kind = "data" => i = j
        \/ Weigh(Rows)[inbox'[r]] <= Window
    BY <2>2
  <2>4. QED
    BY <1>6, <2>3 DEF Counted, WithinWindow
<1>10. QED
  BY <1>7, <1>8, <1>9 DEF Counted

\* The rows of a data frame are within the window, or alone in it.
LEMMA RouteDataCounted ==
  ASSUME IInv, Counted, Route, Head(fromPlugin).kind = "data"
  PROVE  Counted'
<1> USE NamesApart
<1> DEFINE f == Head(fromPlugin)
           r == f.id
<1>1. /\ f \in Frame /\ r \in Statements /\ r \in Requests /\ r \in Ids
      /\ f.kind = "data" /\ TypeOK
  BY RouteParts DEF IInv
<1>2. /\ r \in pending /\ Fits(f.cost, credit[r])
      /\ Deliver(f) /\ pending' = pending /\ UNCHANGED at
      /\ credit' = [credit EXCEPT ![r] = @ - f.cost]
  BY DEF Route, Legal, caller
<1>3. Rows[f] = f.cost /\ f.cost \in Nat \ {0}
  BY <1>1, RowsWeigh
<1>4. inbox[r] \in Seq(Frame) /\ Weigh(Rows)[inbox[r]] \in Nat
  BY <1>1, HeldTyped
<1> HIDE DEF f, r
<1>0. /\ credit[r] \in Int /\ Window \in Nat \ {0} /\ credit'[r] = credit[r] - f.cost
      /\ \A s \in Statements \ {r} : credit'[s] = credit[s]
  BY <1>1, <1>2, CreditAssumption DEF TypeOK
<1>5. CASE at[r] = "reading"
  <2>1. /\ inbox'[r] = Append(inbox[r], f)
        /\ \A s \in Requests \ {r} : inbox'[s] = inbox[s]
    BY <1>1, <1>2, <1>5 DEF Deliver, TypeOK, r
  <2>2. Weigh(Rows)[inbox'[r]] = Weigh(Rows)[inbox[r]] + f.cost
    <3>1. Weigh(Rows)[Append(inbox[r], f)] = Weigh(Rows)[inbox[r]] + Rows[f]
      BY <1>1, <1>4, WeighAppend, RowsWeigh
    <3>2. QED
      BY <1>3, <2>1, <3>1
  <2>3. credit[r] + Weigh(Rows)[inbox[r]] = Window
    BY <1>1, <1>2, <1>5 DEF Counted, CreditKept
  <2>4. credit'[r] + Weigh(Rows)[inbox'[r]] = Window
    BY <1>0, <1>3, <1>4, <2>2, <2>3
  <2>5. \/ Weigh(Rows)[inbox'[r]] <= Window
        \/ \A i, j \in 1..Len(inbox'[r]) :
             inbox'[r][i].kind = "data" /\ inbox'[r][j].kind = "data" => i = j
    <3>1. CASE f.cost <= credit[r]
      BY <1>0, <1>3, <1>4, <2>2, <2>3, <3>1
    <3>2. CASE credit[r] = Window
      <4>1. Weigh(Rows)[inbox[r]] = 0
        BY <1>0, <1>4, <2>3, <3>2
      <4>2. \A i \in 1..Len(inbox[r]) : inbox[r][i] \in Frame /\ Rows[inbox[r][i]] <= 0
        BY <1>4, <4>1, WeighNat, RowsWeigh, ElementOfSeq
      <4>3. \A g \in Frame : Rows[g] <= 0 => g.kind # "data"
        <5>1. SUFFICES ASSUME NEW g \in Frame, g.kind = "data", Rows[g] <= 0 PROVE FALSE
          OBVIOUS
        <5>2. Rows[g] = g.cost /\ g.cost \in Nat \ {0}
          BY <5>1, RowsWeigh
        <5>3. QED
          BY <5>1, <5>2
      <4>4. \A i \in 1..Len(inbox[r]) : inbox[r][i].kind # "data"
        BY <4>2, <4>3
      <4>5. /\ Len(Append(inbox[r], f)) = Len(inbox[r]) + 1 /\ Len(inbox[r]) \in Nat
            /\ \A i \in 1..Len(inbox[r]) : Append(inbox[r], f)[i] = inbox[r][i]
        BY <1>1, <1>4, AppendProperties, LenProperties
      <4>6. \A i \in 1..Len(inbox'[r]) :
              inbox'[r][i].kind = "data" => i = Len(inbox[r]) + 1
        BY <2>1, <4>4, <4>5
      <4>7. QED
        BY <4>6
    <3>3. QED
      BY <1>2, <3>1, <3>2 DEF Fits
  <2>6. NothingKept'
    BY <1>2, <1>5, <2>1 DEF Counted, NothingKept
  <2>7. WithinWindow'
    BY <2>1, <2>5 DEF Counted, WithinWindow
  <2>8. CreditKept'
    <3>1. SUFFICES ASSUME NEW s \in Statements
                   PROVE /\ s \notin pending' => credit'[s] = Window
                         /\ s \in pending' => at'[s] # "idle"
                         /\ s \in pending' /\ at'[s] = "reading" =>
                              credit'[s] + Weigh(Rows)[inbox'[s]] = Window
      BY DEF CreditKept
    <3>2. CASE s = r
      BY <1>2, <1>5, <2>4, <3>2
    <3>3. CASE s # r
      BY <1>0, <1>2, <2>1, <3>3 DEF Counted, CreditKept
    <3>4. QED
      BY <3>2, <3>3
  <2>9. QED
    BY <2>6, <2>7, <2>8 DEF Counted
<1>6. CASE at[r] # "reading"
  <2>1. inbox' = inbox
    BY <1>1, <1>2, <1>6 DEF Deliver, r
  <2>2. NothingKept' /\ WithinWindow'
    BY <1>2, <2>1 DEF Counted, NothingKept, WithinWindow
  <2>3. CreditKept'
    BY <1>0, <1>2, <1>6, <2>1 DEF Counted, CreditKept
  <2>4. QED
    BY <2>2, <2>3 DEF Counted
<1>7. QED
  BY <1>5, <1>6

\* What ends a request leaves it its credit, and adds no rows to what is held.
LEMMA ToldCounted ==
  ASSUME TypeOK, Counted, NEW ids, ids \subseteq pending, NEW told \in [Ids -> Frame],
         \A r \in Ids : told[r].kind # "data",
         pending' = pending \ ids, credit' = Without(ids), UNCHANGED at,
         \A r \in Requests : inbox'[r] = IF r \in ids /\ at[r] = "reading"
                                         THEN Append(inbox[r], told[r]) ELSE inbox[r]
  PROVE  Counted'
<1> USE NamesApart
<1>1. NothingKept'
  BY DEF Counted, NothingKept
<1>2. CreditKept'
  <2>1. \A s \in Statements : credit'[s] = IF s \in ids THEN Window ELSE credit[s]
    BY DEF Without
  <2>2. QED
    BY <2>1 DEF Counted, CreditKept
<1>3. WithinWindow'
  <2>1. SUFFICES ASSUME NEW r \in Statements
                 PROVE  \/ \A i, j \in 1..Len(inbox'[r]) :
                             inbox'[r][i].kind = "data" /\ inbox'[r][j].kind = "data" => i = j
                        \/ Weigh(Rows)[inbox'[r]] <= Window
    BY DEF WithinWindow
  <2>2. CASE inbox'[r] = inbox[r]
    BY <2>2 DEF Counted, WithinWindow
  <2>3. CASE inbox'[r] = Append(inbox[r], told[r])
    <3>1. told[r] \in Frame /\ told[r].kind # "data"
      OBVIOUS
    <3>2. Rows[told[r]] = 0
      BY <3>1, RowsWeigh
    <3>3. inbox[r] \in Seq(Frame) /\ Weigh(Rows)[inbox[r]] \in Nat
      BY HeldTyped
    <3>4. Weigh(Rows)[Append(inbox[r], told[r])] = Weigh(Rows)[inbox[r]] + Rows[told[r]]
      BY <3>1, <3>3, WeighAppend, RowsWeigh
    <3>5. Weigh(Rows)[inbox'[r]] = Weigh(Rows)[inbox[r]]
      BY <2>3, <3>2, <3>3, <3>4
    <3>6. /\ Len(Append(inbox[r], told[r])) = Len(inbox[r]) + 1 /\ Len(inbox[r]) \in Nat
          /\ \A i \in 1..Len(inbox[r]) : Append(inbox[r], told[r])[i] = inbox[r][i]
          /\ Append(inbox[r], told[r])[Len(inbox[r]) + 1] = told[r]
      BY <3>1, <3>3, AppendProperties, LenProperties
    <3>7. \A i \in 1..Len(inbox'[r]) :
            inbox'[r][i].kind = "data" =>
              i \in 1..Len(inbox[r]) /\ inbox'[r][i] = inbox[r][i]
      BY <2>3, <3>1, <3>6
    <3>8. QED
      BY <3>5, <3>7 DEF Counted, WithinWindow
  <2>4. QED
    BY <2>2, <2>3
<1>4. QED
  BY <1>1, <1>2, <1>3 DEF Counted

LEMMA RouteCounted == ASSUME IInv, Counted, Route PROVE Counted'
<1> USE NamesApart
<1>1. CASE Head(fromPlugin).kind = "data"
  BY <1>1, RouteDataCounted
<1>2. CASE Head(fromPlugin).kind # "data"
  <2> DEFINE f == Head(fromPlugin)
             told == [r \in Ids |-> f]
  <2>1. f \in Frame /\ TypeOK
    BY RouteParts DEF IInv
  <2>2. /\ f.id \in pending /\ Deliver(f) /\ UNCHANGED at
        /\ pending' = pending \ {f.id} /\ credit' = Without({f.id})
    BY <1>2 DEF Route, Legal, caller
  <2>3. told \in [Ids -> Frame] /\ (\A r \in Ids : told[r].kind # "data")
    BY <1>2, <2>1
  <2>4. \A r \in Requests : told[r] = f
    OBVIOUS
  <2> HIDE DEF f, told
  <2>5. \A r \in Requests : inbox'[r] = IF r \in {f.id} /\ at[r] = "reading"
                                        THEN Append(inbox[r], told[r]) ELSE inbox[r]
    BY <2>1, <2>2, <2>4 DEF Deliver, TypeOK
  <2>6. QED
    BY <2>1, <2>2, <2>3, <2>5, ToldCounted DEF IInv
<1>3. QED
  BY <1>1, <1>2

LEMMA ResetCounted == ASSUME IInv, Counted, Reset PROVE Counted'
<1> USE NamesApart
<1> DEFINE told == [r \in Ids |-> Answer(r, "reset")]
<1>1. told \in [Ids -> Frame] /\ (\A r \in Ids : told[r].kind # "data")
  BY ResetFrame DEF Answer
<1>2. /\ TypeOK /\ pending \subseteq pending /\ pending' = pending \ pending
      /\ credit' = Without(pending) /\ UNCHANGED at
  BY DEF IInv, Reset, caller
<1>3. \A r \in Requests : inbox'[r] = IF r \in pending /\ at[r] = "reading"
                                      THEN Append(inbox[r], told[r]) ELSE inbox[r]
  BY DEF Reset
<1> HIDE DEF told
<1>4. QED
  BY <1>1, <1>2, <1>3, ToldCounted

\* A step that leaves the callers and their rows alone.
Aside ==
  \/ Break \/ Eof \/ Reap \/ KillMute \/ DropHandle \/ CloseInput \/ CloseReap
  \/ PluginReads \/ PluginSends \/ PluginDies \/ PluginMutes
  \/ \E r \in Requests : Cancel(r) \/ Deadline(r)

LEMMA AsideCounted == ASSUME Counted, Aside PROVE Counted'
<1>1. UNCHANGED <<at, inbox, credit>> /\ (pending' = pending \/ pending' = pending \cup {Close})
  <2>1. CASE DropHandle
    BY <2>1 DEF DropHandle, caller
  <2>2. CASE \/ Break \/ Eof \/ Reap \/ KillMute \/ CloseInput \/ CloseReap
             \/ PluginReads \/ PluginSends \/ PluginDies \/ PluginMutes
    BY <2>2 DEF Break, Eof, Reap, KillMute, CloseInput, CloseReap, PluginReads,
                PluginSends, PluginDies, PluginMutes, caller, host
  <2>3. CASE \E r \in Requests : Cancel(r) \/ Deadline(r)
    BY <2>3 DEF Cancel, Deadline, caller
  <2>4. QED
    BY <2>1, <2>2, <2>3 DEF Aside
<1>2. PICK S \in {{}, {Close}} : pending' = pending \cup S
  BY <1>1
<1>3. S \cap Statements = {}
  BY NamesApart
<1>4. QED
  BY <1>1, <1>2, <1>3, SameCounted

LEMMA LeavesCounted ==
  ASSUME IInv, Counted, NEW r \in Requests,
         \/ Refuse(r) \/ GiveUp(r) \/ TakeAnswer(r) \/ TakeReset(r)
         \/ CallDeadline(r) \/ Violated(r) \/ Release(r)
  PROVE  Counted'
<1>1. TypeOK
  BY DEF IInv
<1>2. CASE Refuse(r) \/ GiveUp(r)
  <2>1. /\ at[r] = "idle" /\ at' = [at EXCEPT ![r] = "ended"]
        /\ UNCHANGED <<credit, pending, inbox>>
    BY <1>2 DEF Refuse, GiveUp, host
  <2>2. QED
    BY <1>1, <2>1, LeftCounted
<1>3. CASE Release(r)
  <2>1. /\ at[r] = "returning" /\ at' = [at EXCEPT ![r] = "ended"]
        /\ UNCHANGED <<credit, pending, inbox>>
    BY <1>3 DEF Release
  <2>2. QED
    BY <1>1, <2>1, LeftCounted
<1>4. CASE TakeAnswer(r) \/ TakeReset(r) \/ CallDeadline(r) \/ Violated(r)
  <2>1. /\ at[r] = "reading" /\ at' = [at EXCEPT ![r] = "returning"]
        /\ inbox' = [inbox EXCEPT ![r] = <<>>] /\ UNCHANGED <<credit, pending>>
    BY <1>4 DEF TakeAnswer, TakeReset, CallDeadline, Violated, Has, Reading, Return
  <2>2. QED
    BY <1>1, <2>1, LeftCounted
<1>5. QED
  BY <1>2, <1>3, <1>4

LEMMA NextCounted == IInv /\ Counted /\ [Next]_vars => Counted'
<1> SUFFICES ASSUME IInv, Counted, [Next]_vars PROVE Counted'
  OBVIOUS
<1>1. CASE UNCHANGED vars
  <2> DEFINE S == {}
  <2>1. UNCHANGED <<at, inbox, credit>> /\ pending' = pending \cup S
    BY <1>1 DEF vars
  <2>2. S \cap Statements = {}
    OBVIOUS
  <2> HIDE DEF S
  <2>3. QED
    BY <2>1, <2>2, SameCounted
<1>2. CASE Others
  <2>1. Route \/ Reset \/ Aside
    BY <1>2 DEF Others, Threads, Aside
  <2>2. QED
    BY <2>1, RouteCounted, ResetCounted, AsideCounted
<1>3. ASSUME NEW r \in Requests, Start(r) \/ TellStop(r) \/ HandOn(r)
      PROVE  Counted'
  BY <1>3, StartCounted, TellStopCounted, HandOnCounted DEF IInv
<1>4. ASSUME NEW r \in Requests, \/ Refuse(r) \/ GiveUp(r) \/ TakeAnswer(r) \/ TakeReset(r)
                                 \/ CallDeadline(r) \/ Violated(r) \/ Release(r)
      PROVE  Counted'
  BY <1>4, LeavesCounted
<1>5. QED
  BY <1>1, <1>2, <1>3, <1>4, Steps

\* Whatever the plugin sends and however slow its caller is, the rows of a
\* statement that the host holds are within its window, or are one frame's:
\* what was handed on is granted again and no more, so what is held and what
\* is left of the credit are the window together.
THEOREM HoldsWithinWindow == Spec => []WithinWindow
<1>1. Counted => WithinWindow
  BY DEF Counted
<1>2. Spec => []Counted
  BY InitCounted, NextCounted, Invariant, PTL DEF Spec
<1>3. QED
  BY <1>1, <1>2, PTL
=============================================================================
