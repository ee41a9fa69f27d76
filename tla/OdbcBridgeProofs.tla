-------------------------- MODULE OdbcBridgeProofs -------------------------
(***************************************************************************)
(* That the bridge interrupts the statement a Cancel was for and no other, *)
(* keeps the protocol and counts credit as its host does: for any number   *)
(* of requests, any window and any batches.  Behind it is that one request *)
(* is anywhere between host and bridge at a time, which neither side       *)
(* checks and both lean on.                                                *)
(***************************************************************************)
EXTENDS OdbcBridge, PluginHostProofs

\* The worker has a request.
Busy == worker.at \in {"ready", "calling", "called", "sending", "settling"}
\* A request whose answer the host has not had.
Out(r) ==
  IF r = Close THEN closing # "no"
  ELSE r \in Requests /\ at[r] = "reading"
         /\ \A i \in 1..Len(inbox[r]) : inbox[r][i].kind = "data"

\* What asks, and what ends a request.
Asks(i) == toPlugin[i].kind = "request"
Ends(i) == fromPlugin[i].kind # "data"
Asking == \E i \in 1..Len(toPlugin) : Asks(i)
Ending == \E i \in 1..Len(fromPlugin) : Ends(i)

\* The types of the bridge's variables.
BridgeType ==
  /\ control \in [id : Ids \cup {Nobody}, left : Int, stop : BOOLEAN, cancel : BOOLEAN,
                  published : BOOLEAN]
  /\ reader \in Ids \cup {Nobody} /\ jobs \in Seq(Ids)
  /\ worker \in [at : {"idle", "ready", "calling", "called", "sending", "settling", "gone"},
                 job : Ids \cup {Nobody}, sent : Nat, cost : Costs \cup {0},
                 draining : BOOLEAN, reply : Control \cup {"none"}]
  /\ Busy => worker.job \in Ids
  /\ worker.at = "sending" => worker.job \in Statements /\ worker.cost \in Costs
  /\ worker.at = "settling" => worker.reply \in Control

\* Nothing was routed to a caller that has asked for nothing, the end of the
\* session is asked for behind every other request, by whom the process is
\* then, and only a process that has gone is reaped.
Fresh == \A r \in Requests : at[r] = "idle" => inbox[r] = <<>>
ClosedLast == /\ closing # "no" => \A r \in Requests : at[r] \in {"idle", "ended"}
              /\ slot = "dropped" => closing # "no"
DeadFirst == slot \in {"reaped", "told"} => ~alive

\* One request is in the pipe at a time, and its answer is awaited...
Asked ==
  /\ \A i \in 1..Len(toPlugin) : Asks(i) => Out(toPlugin[i].id)
  /\ \A i, j \in 1..Len(toPlugin) : Asks(i) /\ Asks(j) => i = j
\* ... then it is with the worker, under the control made for it...
Passed ==
  jobs # <<>> => /\ Len(jobs) = 1 /\ Out(jobs[1]) /\ ~Asking
                 /\ jobs[1] # Close => control.id = jobs[1]
\* ... then in work, alone...
Works ==
  Busy => /\ Out(worker.job) /\ worker.job = control.id /\ worker.job # Close
          /\ jobs = <<>> /\ ~Asking
\* ... then answered, with nothing else asked for.
Answered ==
  /\ \A i \in 1..Len(fromPlugin) : Ends(i) => Out(fromPlugin[i].id)
  /\ \A i, j \in 1..Len(fromPlugin) : Ends(i) /\ Ends(j) => i = j
  /\ Ending => jobs = <<>> /\ ~Asking /\ ~Busy
\* A handle is within reach during a call only.
Handle == control.published => worker.at \in {"calling", "called"}

\* All of which holds while the process does.
OneRequest == alive => Asked /\ Passed /\ Works /\ Answered /\ Handle

-----------------------------------------------------------------------------
(* The invariant.                                                          *)

\* What is known of every state.
BridgeIInv == /\ IInv /\ BridgeType
              /\ Fresh /\ ClosedLast /\ DeadFirst
              /\ OneRequest /\ InterruptsOwn

LEMMA IdsApart == /\ Close \notin Requests /\ Nobody \notin Ids /\ Close \in Ids
                  /\ Requests \subseteq Ids /\ Statements \subseteq Requests
  BY NamesAssumption DEF Statements, Requests, Ids

LEMMA BridgeInits == BridgeInit => BridgeIInv
<1> SUFFICES ASSUME BridgeInit PROVE BridgeIInv
  OBVIOUS
<1>1. IInv
  BY InitIInv DEF BridgeInit
<1>2. Init
  BY DEF BridgeInit
<1>3. /\ <<>> \in Seq(Ids) /\ Window \in Int /\ 0 \in Nat
      /\ Len(toPlugin) = 0 /\ Len(fromPlugin) = 0 /\ ~Busy
  BY <1>2, EmptySeq, CreditAssumption DEF BridgeInit, Idle, Busy, Init
<1>4. control \in [id : Ids \cup {Nobody}, left : Int, stop : BOOLEAN, cancel : BOOLEAN,
                   published : BOOLEAN]
  BY <1>3 DEF BridgeInit
<1>5. worker \in [at : {"idle", "ready", "calling", "called", "sending", "settling", "gone"},
                  job : Ids \cup {Nobody}, sent : Nat, cost : Costs \cup {0},
                  draining : BOOLEAN, reply : Control \cup {"none"}]
  BY <1>3 DEF BridgeInit, Idle
<1>6. BridgeType
  BY <1>3, <1>4, <1>5 DEF BridgeType, BridgeInit, Idle
<1>7. Fresh /\ ClosedLast /\ DeadFirst
  BY <1>2, IdsApart DEF Fresh, ClosedLast, DeadFirst, Init
<1>8. OneRequest
  BY <1>3 DEF OneRequest, Asked, Passed, Works, Answered, Handle, Asking, Ending, BridgeInit
<1>9. InterruptsOwn
  BY DEF InterruptsOwn, BridgeInit
<1>10. QED
  BY <1>1, <1>6, <1>7, <1>8, <1>9 DEF BridgeIInv

-----------------------------------------------------------------------------
(* Queues.                                                                 *)

LEMMA TailParts ==
  ASSUME NEW S, NEW q \in Seq(S), q # <<>>
  PROVE  /\ Len(Tail(q)) = Len(q) - 1 /\ Len(q) \in Nat \ {0} /\ Head(q) = q[1]
         /\ Tail(q) \in Seq(S) /\ Head(q) \in S
         /\ \A i \in 1..Len(Tail(q)) : i + 1 \in 1..Len(q) /\ Tail(q)[i] = q[i + 1]
  BY HeadTailProperties, EmptySeq

LEMMA AppendParts ==
  ASSUME NEW S, NEW q \in Seq(S), NEW f \in S
  PROVE  /\ Len(Append(q, f)) = Len(q) + 1 /\ Len(q) \in Nat
         /\ Append(q, f)[Len(q) + 1] = f
         /\ \A i \in 1..Len(q) : Append(q, f)[i] = q[i]
  BY AppendProperties, LenProperties

-----------------------------------------------------------------------------
(* Steps of the host.                                                      *)

\* No request is written.
NoNewAsk ==
  /\ toPlugin' \in Seq(Sent)
  /\ \A i \in 1..Len(toPlugin') :
       toPlugin'[i].kind = "request" => i \in 1..Len(toPlugin) /\ toPlugin'[i] = toPlugin[i]

LEMMA WritesNoAsk ==
  ASSUME TypeOK, NEW frames \in Seq(Sent), Write(frames),
         \A i \in 1..Len(frames) : frames[i].kind # "request"
  PROVE  NoNewAsk
<1>1. toPlugin' \in Seq(Sent)
  BY WriteType DEF TypeOK
<1>2. CASE alive
  <2>1. toPlugin' = toPlugin \o frames
    BY <1>2 DEF Write
  <2>2. /\ Len(toPlugin') = Len(toPlugin) + Len(frames)
        /\ \A i \in 1..(Len(toPlugin) + Len(frames)) :
             toPlugin'[i] = IF i <= Len(toPlugin) THEN toPlugin[i] ELSE frames[i - Len(toPlugin)]
    BY <2>1, ConcatProperties DEF TypeOK
  <2>3. Len(toPlugin) \in Nat /\ Len(frames) \in Nat
    BY LenProperties DEF TypeOK
  <2>4. QED
    BY <1>1, <2>2, <2>3 DEF NoNewAsk
<1>3. CASE ~alive
  <2>1. toPlugin' = <<>>
    BY <1>3 DEF Write
  <2>2. Len(toPlugin') = 0
    BY <2>1
  <2>3. QED
    BY <1>1, <2>2 DEF NoNewAsk
<1>4. QED
  BY <1>2, <1>3

LEMMA StillNoAsk == ASSUME TypeOK, UNCHANGED toPlugin PROVE NoNewAsk
  BY DEF TypeOK, NoNewAsk

\* Nothing that the bridge has is touched, and what is awaited still is.
LEMMA HostStill ==
  ASSUME OneRequest, alive' => alive, NoNewAsk, UNCHANGED <<bridge, fromPlugin>>,
         BridgeType, TypeOK, alive' => \A r \in Ids : Out(r) => Out(r)'
  PROVE  OneRequest'
<1> SUFFICES ASSUME alive' PROVE (Asked /\ Passed /\ Works /\ Answered /\ Handle)'
  BY DEF OneRequest
<1>1. Asked /\ Passed /\ Works /\ Answered /\ Handle
  BY DEF OneRequest
<1>2. \A r \in Ids : Out(r) => Out(r)'
  OBVIOUS
<1>3. /\ \A i \in 1..Len(toPlugin) : toPlugin[i].id \in Ids
      /\ \A i \in 1..Len(fromPlugin) : fromPlugin[i].id \in Ids
  <2>1. (\A i \in 1..Len(toPlugin) : toPlugin[i] \in Sent)
        /\ (\A i \in 1..Len(fromPlugin) : fromPlugin[i] \in Frame)
    BY ElementOfSeq DEF TypeOK
  <2>2. (\A f \in Sent : f.id \in Ids) /\ (\A f \in Frame : f.id \in Ids)
    BY DEF Sent, Frame
  <2>3. QED
    BY <2>1, <2>2
<1>4. Asked'
  BY <1>1, <1>2, <1>3 DEF Asked, Asks, NoNewAsk
<1>5. Asking' => Asking
  BY DEF Asking, Asks, NoNewAsk
<1>6. Passed'
  <2>1. jobs # <<>> => jobs[1] \in Ids
    BY EmptySeq, ElementOfSeq DEF BridgeType
  <2>2. QED
    BY <1>1, <1>2, <1>5, <2>1 DEF Passed, bridge
<1>7. Busy' <=> Busy
  BY DEF Busy, bridge
<1>8. Works'
  BY <1>1, <1>2, <1>5, <1>7 DEF Works, bridge, BridgeType
<1>9. Ending' <=> Ending
  BY DEF Ending, Ends
<1>10. Answered'
  BY <1>1, <1>2, <1>3, <1>5, <1>7, <1>9 DEF Answered, Ends, bridge
<1>11. QED
  BY <1>1, <1>4, <1>6, <1>8, <1>10 DEF Handle, bridge

\* With nothing awaited, nothing is on its way.
LEMMA NothingOut ==
  ASSUME OneRequest, alive, \A r \in Ids : ~Out(r), BridgeType, TypeOK
  PROVE  ~Asking /\ jobs = <<>> /\ ~Busy /\ ~Ending
<1>1. Asked /\ Passed /\ Works /\ Answered /\ Handle
  BY DEF OneRequest
<1>3. /\ \A i \in 1..Len(toPlugin) : toPlugin[i].id \in Ids
      /\ \A i \in 1..Len(fromPlugin) : fromPlugin[i].id \in Ids
  <2>1. (\A i \in 1..Len(toPlugin) : toPlugin[i] \in Sent)
        /\ (\A i \in 1..Len(fromPlugin) : fromPlugin[i] \in Frame)
    BY ElementOfSeq DEF TypeOK
  <2>2. (\A f \in Sent : f.id \in Ids) /\ (\A f \in Frame : f.id \in Ids)
    BY DEF Sent, Frame
  <2>3. QED
    BY <2>1, <2>2
<1>4. ~Asking /\ ~Ending
  BY <1>1, <1>3 DEF Asking, Ending, Asked, Answered
<1>5. jobs = <<>>
  <2>1. jobs # <<>> => jobs[1] \in Ids
    BY EmptySeq, ElementOfSeq DEF BridgeType
  <2>2. QED
    BY <1>1, <2>1 DEF Passed
<1>6. ~Busy
  BY <1>1 DEF Works, BridgeType
<1>7. QED
  BY <1>4, <1>5, <1>6

\* One request goes out, behind what was written before.
LEMMA OneGoes ==
  ASSUME OneRequest, alive, \A r \in Ids : ~Out(r), BridgeType, TypeOK,
         NEW r \in Ids, Write(<<Ask(r, "request")>>), Out(r)',
         UNCHANGED <<bridge, fromPlugin, alive>>
  PROVE  OneRequest'
<1>1. ~Asking /\ jobs = <<>> /\ ~Busy /\ ~Ending
  BY NothingOut
<1>2. toPlugin' = toPlugin \o <<Ask(r, "request")>> /\ toPlugin \in Seq(Sent)
  BY DEF Write, TypeOK
<1>3. Ask(r, "request") \in Sent
  BY AskSent
<1>4. toPlugin' = Append(toPlugin, Ask(r, "request"))
  BY <1>2, <1>3, AppendIsConcat
<1> DEFINE f == Ask(r, "request")
<1>5. f.id = r /\ f.kind = "request"
  BY DEF Ask
<1>6. /\ Len(toPlugin') = Len(toPlugin) + 1 /\ Len(toPlugin) \in Nat
      /\ toPlugin'[Len(toPlugin) + 1] = f
      /\ \A i \in 1..Len(toPlugin) : toPlugin'[i] = toPlugin[i]
  <2>1. f \in Sent /\ toPlugin' = Append(toPlugin, f)
    BY <1>3, <1>4
  <2> HIDE DEF f
  <2>2. QED
    BY <1>2, <2>1, AppendParts
<1> HIDE DEF f
<1>7. \A i \in 1..Len(toPlugin') : toPlugin'[i].kind = "request" => i = Len(toPlugin) + 1
  BY <1>1, <1>6 DEF Asking, Asks
<1>8. Asked'
  BY <1>5, <1>6, <1>7 DEF Asked, Asks
<1>9. ~Busy' /\ jobs' = <<>> /\ ~Ending'
  BY <1>1 DEF Busy, Ending, Ends, bridge
<1>10. (Passed /\ Works)'
  BY <1>9 DEF Passed, Works
<1>11. Answered'
  BY <1>9 DEF Answered, Ending
<1>12. Handle'
  BY DEF OneRequest, Handle, bridge
<1>13. QED
  BY <1>8, <1>10, <1>11, <1>12 DEF OneRequest

\* What a step of the host leaves to be shown.
HostPart == Fresh /\ ClosedLast /\ DeadFirst /\ OneRequest

LEMMA HostKeepsBridge ==
  ASSUME BridgeType, UNCHANGED bridge
  PROVE  BridgeType'
  BY DEF BridgeType, bridge, Busy

\* Nothing moves a caller, its frames or the closing.
LEMMA StillCallers ==
  ASSUME HostPart, BridgeType, TypeOK, UNCHANGED <<at, inbox, closing, fromPlugin, bridge>>,
         NoNewAsk, alive' => alive,
         slot' = slot \/ (slot' \in {"reaped", "told"} /\ ~alive)
  PROVE  HostPart'
<1>1. \A r \in Ids : Out(r) <=> Out(r)'
  BY DEF Out
<1>2. OneRequest'
  BY <1>1, HostStill DEF HostPart
<1>3. (Fresh /\ ClosedLast /\ DeadFirst)'
  BY DEF HostPart, Fresh, ClosedLast, DeadFirst, TypeOK
<1>4. QED
  BY <1>2, <1>3 DEF HostPart

LEMMA StartKeeps ==
  ASSUME IInv, BridgeType, HostPart, NEW r \in Requests, Start(r), UNCHANGED bridge
  PROVE  HostPart'
<1> USE IdsApart
<1>1. TypeOK /\ (\A s \in Requests : at[s] \in {"idle", "ended"})
  BY NobodyOut DEF IInv, Start
<1>2. at' = [at EXCEPT ![r] = "reading"] /\ at[r] = "idle" /\ closing = "no"
      /\ UNCHANGED <<inbox, closing, slot, alive, fromPlugin>>
      /\ Write(<<Ask(r, "request")>>)
  BY DEF Start, process
<1>3. inbox[r] = <<>>
  BY <1>2 DEF HostPart, Fresh
<1>4. Out(r)'
  BY <1>1, <1>2, <1>3 DEF Out, TypeOK
<1>5. \A s \in Ids : ~Out(s)
  BY <1>1, <1>2 DEF Out
<1>6. OneRequest'
  <2>1. CASE alive
    BY <1>1, <1>2, <1>4, <1>5, <2>1, OneGoes DEF HostPart
  <2>2. CASE ~alive
    BY <1>2, <2>2 DEF OneRequest
  <2>3. QED
    BY <2>1, <2>2
<1>7. (Fresh /\ ClosedLast /\ DeadFirst)'
  BY <1>1, <1>2 DEF HostPart, Fresh, ClosedLast, DeadFirst, TypeOK
<1>8. QED
  BY <1>6, <1>7 DEF HostPart

\* A caller that is not out leaves, or one that has its answer returns: what
\* is awaited is not its request.
LEMMA LeavesKeeps ==
  ASSUME HostPart, BridgeType, TypeOK, NEW r \in Requests, ~Out(r),
         NEW place \in {"returning", "ended"}, at' = [at EXCEPT ![r] = place],
         place = "returning" => at[r] = "reading",
         \A s \in Ids \ {r} : inbox'[s] = inbox[s],
         UNCHANGED <<closing, slot, fromPlugin, toPlugin, alive, bridge>>
  PROVE  HostPart'
<1> USE IdsApart
<1>1. \A s \in Ids : Out(s) => Out(s)'
  BY DEF Out, TypeOK
<1>2. OneRequest'
  BY <1>1, HostStill, StillNoAsk DEF HostPart
<1>3. (Fresh /\ DeadFirst)'
  BY DEF HostPart, Fresh, DeadFirst, TypeOK
<1>4. ClosedLast'
  BY DEF HostPart, ClosedLast, TypeOK
<1>5. QED
  BY <1>2, <1>3, <1>4 DEF HostPart

LEMMA RefuseKeeps ==
  ASSUME HostPart, BridgeType, TypeOK, NEW r \in Requests,
         Refuse(r) \/ GiveUp(r) \/ Release(r), UNCHANGED bridge
  PROVE  HostPart'
<1>1. /\ at' = [at EXCEPT ![r] = "ended"] /\ at[r] # "reading"
      /\ UNCHANGED <<inbox, closing, slot, fromPlugin, toPlugin, alive>>
  BY DEF Refuse, GiveUp, Release, process, pipes, host
<1>2. ~Out(r)
  BY <1>1, IdsApart DEF Out
<1>3. QED
  BY <1>1, <1>2, LeavesKeeps

LEMMA TakeKeeps ==
  ASSUME HostPart, BridgeType, TypeOK, NEW r \in Requests,
         TakeAnswer(r) \/ TakeReset(r), UNCHANGED bridge
  PROVE  HostPart'
<1> USE IdsApart
<1>1. /\ at' = [at EXCEPT ![r] = "returning"] /\ at[r] = "reading"
      /\ UNCHANGED <<closing, slot, fromPlugin, toPlugin, alive>>
      /\ inbox' = [inbox EXCEPT ![r] = <<>>]
  BY DEF TakeAnswer, TakeReset, process, pipes, Return, Has, Reading
<1>2. inbox[r] # <<>> /\ Head(inbox[r]).kind # "data"
  BY DEF TakeAnswer, TakeReset, Has
<1>3. inbox[r] \in Seq(Frame)
  BY DEF TypeOK
<1>4. 1 \in 1..Len(inbox[r]) /\ Head(inbox[r]) = inbox[r][1]
  BY <1>2, <1>3, TailParts
<1>5. ~Out(r)
  BY <1>2, <1>4 DEF Out
<1>6. \A s \in Ids \ {r} : inbox'[s] = inbox[s]
  BY <1>1 DEF TypeOK
<1>7. QED
  BY <1>1, <1>5, <1>6, LeavesKeeps

LEMMA HandOnKeeps ==
  ASSUME HostPart, BridgeType, TypeOK, NEW r \in Requests, HandOn(r), UNCHANGED bridge
  PROVE  HostPart'
<1> USE IdsApart
<1>1. /\ inbox[r] \in Seq(Frame) /\ inbox[r] # <<>> /\ at[r] = "reading"
      /\ inbox' = [inbox EXCEPT ![r] = Tail(@)]
      /\ UNCHANGED <<at, closing, slot, fromPlugin, alive>>
  BY DEF HandOn, Has, Reading, TypeOK, process, caller
<1>2. NoNewAsk
  <2> DEFINE c == Head(inbox[r]).cost
  <2>1. Write(<<Grant(r, c)>>) \/ UNCHANGED toPlugin
    BY DEF HandOn
  <2>2. c \in Costs
    <3>1. Head(inbox[r]) \in Frame /\ Head(inbox[r]).kind = "data"
      BY <1>1, Taken DEF HandOn, Has
    <3>2. QED
      BY <3>1, FrameParts
  <2> HIDE DEF c
  <2> DEFINE g == Grant(r, c)
  <2>3. g \in Sent /\ g.kind # "request"
    BY <2>2, GrantSent DEF Grant
  <2> HIDE DEF g
  <2>4. <<g>> \in Seq(Sent) /\ \A i \in 1..Len(<<g>>) : <<g>>[i].kind # "request"
    BY <2>3
  <2>5. Write(<<g>>) \/ UNCHANGED toPlugin
    BY <2>1 DEF g
  <2>6. QED
    BY <2>4, <2>5, WritesNoAsk, StillNoAsk
<1>3. \A s \in Ids : Out(s) => Out(s)'
  <2>1. SUFFICES ASSUME NEW s \in Ids, Out(s) PROVE Out(s)'
    OBVIOUS
  <2>2. CASE s = r
    BY <1>1, <2>1, <2>2, TailParts DEF Out, TypeOK
  <2>3. CASE s # r
    BY <1>1, <2>1, <2>3 DEF Out, TypeOK
  <2>4. QED
    BY <2>2, <2>3
<1>4. OneRequest'
  BY <1>1, <1>2, <1>3, HostStill DEF HostPart
<1>5. (Fresh /\ ClosedLast /\ DeadFirst)'
  BY <1>1 DEF HostPart, Fresh, ClosedLast, DeadFirst, TypeOK
<1>6. QED
  BY <1>4, <1>5 DEF HostPart

\* The process goes, or is gone, while a caller may return.
LEMMA DyingKeeps ==
  ASSUME HostPart, IInv, NEW r \in Requests, CallDeadline(r)
  PROVE  HostPart'
<1>1. at' = [at EXCEPT ![r] = "returning"] /\ at[r] = "reading"
      /\ inbox' = [inbox EXCEPT ![r] = <<>>] /\ UNCHANGED <<closing, slot>>
  BY DEF CallDeadline, Return, process, Reading
<1>2. closing = "no" /\ ~alive'
  BY <1>1 DEF HostPart, ClosedLast, CallDeadline, End
<1>3. TypeOK
  BY DEF IInv
<1>4. (Fresh /\ ClosedLast)'
  BY <1>1, <1>2, <1>3, IdsApart DEF HostPart, Fresh, ClosedLast, TypeOK
<1>5. QED
  BY <1>2, <1>4 DEF HostPart, DeadFirst, OneRequest

LEMMA ThreadKeeps ==
  ASSUME HostPart, BridgeType, TypeOK, UNCHANGED bridge,
         \/ Eof \/ Reap \/ CloseInput
         \/ \E r \in Requests : TellStop(r) \/ Cancel(r) \/ Deadline(r)
  PROVE  HostPart'
<1>1. CASE Eof \/ Reap \/ CloseInput
  <2>1. UNCHANGED <<at, inbox, fromPlugin, toPlugin, alive>>
    BY <1>1 DEF Eof, Reap, CloseInput, caller, host, pipes
  <2>2. CASE Eof \/ Reap
    <3>1. UNCHANGED closing /\ (slot' = slot \/ (slot' \in {"reaped", "told"} /\ ~alive))
      BY <2>2 DEF Eof, Reap
    <3>2. QED
      BY <2>1, <3>1, StillNoAsk, StillCallers
  <2>3. CASE CloseInput
    <3>1. closing = "waiting" /\ closing' = "eof" /\ UNCHANGED slot
      BY <2>3 DEF CloseInput
    <3>2. \A r \in Ids : Out(r) => Out(r)'
      BY <2>1, <3>1 DEF Out
    <3>3. OneRequest'
      BY <2>1, <3>2, StillNoAsk, HostStill DEF HostPart
    <3>4. (Fresh /\ ClosedLast /\ DeadFirst)'
      BY <2>1, <3>1 DEF HostPart, Fresh, ClosedLast, DeadFirst
    <3>5. QED
      BY <3>3, <3>4 DEF HostPart
  <2>4. QED
    BY <1>1, <2>2, <2>3
<1>2. ASSUME NEW r \in Requests, TellStop(r) \/ Cancel(r) PROVE HostPart'
  <2>1. UNCHANGED <<at, inbox, closing, fromPlugin, alive, slot>>
    BY <1>2 DEF TellStop, Cancel, process, host
  <2>2. PICK kind \in {"stop", "cancel"} : Write(<<Ask(r, kind)>>) \/ UNCHANGED toPlugin
    BY <1>2 DEF TellStop, Cancel
  <2> DEFINE a == Ask(r, kind)
  <2>3. a \in Sent /\ a.kind # "request"
    BY IdsApart, AskSent DEF Ask
  <2> HIDE DEF a
  <2>4. <<a>> \in Seq(Sent) /\ \A i \in 1..Len(<<a>>) : <<a>>[i].kind # "request"
    BY <2>3
  <2>5. Write(<<a>>) \/ UNCHANGED toPlugin
    BY <2>2 DEF a
  <2>6. NoNewAsk
    BY <2>4, <2>5, WritesNoAsk, StillNoAsk
  <2>7. QED
    BY <2>1, <2>6, StillCallers
<1>3. ASSUME NEW r \in Requests, Deadline(r) PROVE HostPart'
  <2>1. UNCHANGED <<at, inbox, closing, fromPlugin, slot>>
    BY <1>3 DEF Deadline, caller, process
  <2>2. CASE UNCHANGED <<toPlugin, alive>>
    BY <2>1, <2>2, StillNoAsk, StillCallers
  <2>3. CASE ~alive'
    BY <2>1, <2>3 DEF HostPart, Fresh, ClosedLast, DeadFirst, OneRequest
  <2>4. QED
    BY <1>3, <2>2, <2>3 DEF Deadline, End
<1>4. QED
  BY <1>1, <1>2, <1>3

\* What was in the pipe from the plugin is dropped.
LEMMA EmptiedKeeps ==
  ASSUME HostPart, UNCHANGED <<at, inbox, closing, slot, toPlugin, alive, bridge>>,
         fromPlugin' = <<>>
  PROVE  HostPart'
<1>1. (\A r : Out(r) <=> Out(r)') /\ (Asking' <=> Asking) /\ (Busy' <=> Busy)
  BY DEF Out, Asking, Asks, Busy, bridge
<1>2. (Fresh /\ ClosedLast /\ DeadFirst)'
  BY DEF HostPart, Fresh, ClosedLast, DeadFirst
<1>3. OneRequest'
  <2>1. SUFFICES ASSUME alive PROVE (Asked /\ Passed /\ Works /\ Answered /\ Handle)'
    BY DEF OneRequest
  <2>2. Asked /\ Passed /\ Works /\ Handle
    BY <2>1 DEF HostPart, OneRequest
  <2>3. Asked'
    BY <1>1, <2>2 DEF Asked, Asks
  <2>4. (Passed /\ Works /\ Handle)'
    BY <1>1, <2>2 DEF Passed, Works, Handle, bridge
  <2>5. Len(fromPlugin') = 0
    OBVIOUS
  <2>6. Answered'
    BY <2>5 DEF Answered, Ending
  <2>7. QED
    BY <2>3, <2>4, <2>6
<1>4. QED
  BY <1>2, <1>3 DEF HostPart

LEMMA DeadKeeps ==
  ASSUME HostPart, TypeOK, Break \/ KillMute \/ CloseReap, UNCHANGED bridge
  PROVE  HostPart'
<1>1. UNCHANGED <<at, inbox, slot>>
  BY DEF Break, KillMute, CloseReap, caller, host, process
<1>2. (closing' # "no" <=> closing # "no") /\ closing' \in {closing, "done"}
  BY DEF Break, KillMute, CloseReap, process
<1>3. CASE ~alive'
  BY <1>1, <1>2, <1>3 DEF HostPart, Fresh, ClosedLast, DeadFirst, OneRequest
<1>4. CASE Break /\ alive'
  <2>1. UNCHANGED <<toPlugin, alive, closing>> /\ fromPlugin' = <<>>
    BY <1>4 DEF Break, End
  <2>2. QED
    BY <1>1, <2>1, EmptiedKeeps
<1>5. QED
  BY <1>3, <1>4 DEF KillMute, CloseReap

LEMMA ResetKeeps ==
  ASSUME HostPart, TypeOK, Reset
  PROVE  HostPart'
<1>1. ~alive' /\ ~alive
  BY DEF HostPart, DeadFirst, Reset, pipes
<1>2. UNCHANGED <<at, closing>> /\ slot' = "told"
  BY DEF Reset, caller
<1>3. \A r \in Requests : at[r] = "idle" => inbox'[r] = inbox[r]
  BY IdsApart DEF Reset
<1>4. QED
  BY <1>1, <1>2, <1>3 DEF HostPart, Fresh, ClosedLast, DeadFirst, OneRequest

LEMMA DropKeeps ==
  ASSUME HostPart, BridgeType, TypeOK, DropHandle, UNCHANGED bridge
  PROVE  HostPart'
<1> USE IdsApart
<1>1. /\ closing = "no" /\ closing' # "no"
      /\ \A r \in Requests : at[r] \in {"idle", "ended"}
      /\ UNCHANGED <<at, inbox, alive, fromPlugin>>
  BY DEF DropHandle, caller
<1>2. slot' \in {"reaped", "told"} => slot' = slot
  BY DEF DropHandle
<1>3. (Fresh /\ ClosedLast /\ DeadFirst)'
  BY <1>1, <1>2 DEF HostPart, Fresh, ClosedLast, DeadFirst
<1>4. \A r \in Ids : ~Out(r)
  BY <1>1 DEF Out
<1>5. Out(Close)'
  BY <1>1 DEF Out
<1>6. OneRequest'
  <2>1. CASE alive /\ Write(<<Ask(Close, "request")>>)
    BY <1>1, <1>4, <1>5, <2>1, OneGoes DEF HostPart
  <2>2. CASE UNCHANGED toPlugin
    BY <1>1, <1>4, <2>2, StillNoAsk, HostStill DEF HostPart
  <2>3. CASE ~alive
    BY <1>1, <2>3 DEF OneRequest
  <2>4. QED
    BY <2>1, <2>2, <2>3 DEF DropHandle
<1>7. QED
  BY <1>3, <1>6 DEF HostPart

\* What the reader routes: rows change nothing of what is awaited, and the
\* answer is the only thing that was on its way.
LEMMA RouteKeeps ==
  ASSUME HostPart, BridgeType, IInv, Route, UNCHANGED bridge
  PROVE  HostPart'
<1> USE IdsApart
<1> DEFINE f == Head(fromPlugin)
<1>1. TypeOK /\ fromPlugin \in Seq(Plain)
  BY DEF IInv, ResetTold
<1>2. /\ fromPlugin # <<>> /\ fromPlugin' = Tail(fromPlugin) /\ f.id \in Ids
      /\ UNCHANGED <<at, closing, slot, toPlugin, alive>>
      /\ Deliver(f)
  BY <1>1, RouteParts DEF Route, caller, process
<1>3. f \in Plain /\ 1 \in 1..Len(fromPlugin) /\ f = fromPlugin[1]
  BY <1>1, <1>2, TailParts
<1>4. \A i \in 1..Len(fromPlugin') : i + 1 \in 1..Len(fromPlugin) /\ fromPlugin'[i] = fromPlugin[i + 1]
  BY <1>1, <1>2, TailParts
<1> HIDE DEF f
<1>5. (Fresh /\ ClosedLast /\ DeadFirst)'
  BY <1>1, <1>2 DEF HostPart, Fresh, ClosedLast, DeadFirst, Deliver, TypeOK
<1>6. OneRequest'
  <2>1. SUFFICES ASSUME alive PROVE (Asked /\ Passed /\ Works /\ Answered /\ Handle)'
    BY <1>2 DEF OneRequest
  <2>2. Asked /\ Passed /\ Works /\ Answered /\ Handle
    BY <2>1 DEF HostPart, OneRequest
  <2>3. Handle'
    BY <2>2 DEF Handle, bridge
  <2>4. (Asking' <=> Asking) /\ (Busy' <=> Busy) /\ (Ending' => Ending)
    <3>1. (Asking' <=> Asking) /\ (Busy' <=> Busy)
      BY <1>2 DEF Asking, Asks, Busy, bridge
    <3>2. Ending' => Ending
      BY <1>4 DEF Ending, Ends
    <3>3. QED
      BY <3>1, <3>2
  <2>5. CASE f.kind = "data"
    <3>1. \A r \in Ids : Out(r) => Out(r)'
      <4>1. SUFFICES ASSUME NEW r \in Ids, Out(r) PROVE Out(r)'
        OBVIOUS
      <4>2. CASE r = Close
        BY <1>2, <4>1, <4>2 DEF Out
      <4>3. CASE r # Close
        <5>1. inbox[r] \in Seq(Frame) /\ f \in Frame
          BY <1>1, <1>3 DEF TypeOK, Plain
        <5>2. /\ Len(Append(inbox[r], f)) = Len(inbox[r]) + 1 /\ Len(inbox[r]) \in Nat
              /\ Append(inbox[r], f)[Len(inbox[r]) + 1] = f
              /\ \A i \in 1..Len(inbox[r]) : Append(inbox[r], f)[i] = inbox[r][i]
          BY <5>1, AppendParts
        <5>3. inbox'[r] = inbox[r] \/ inbox'[r] = Append(inbox[r], f)
          BY <1>1, <1>2 DEF Deliver, TypeOK
        <5>4. \A i \in 1..Len(inbox'[r]) : inbox'[r][i].kind = "data"
          <6>1. \A i \in 1..Len(inbox[r]) : inbox[r][i].kind = "data"
            BY <4>1, <4>3 DEF Out
          <6>2. \A i \in 1..(Len(inbox[r]) + 1) : Append(inbox[r], f)[i].kind = "data"
            <7>1. \A i \in 1..(Len(inbox[r]) + 1) : i \in 1..Len(inbox[r]) \/ i = Len(inbox[r]) + 1
              BY <5>2
            <7>2. QED
              BY <2>5, <5>2, <6>1, <7>1
          <6>3. QED
            BY <5>2, <5>3, <6>1, <6>2
        <5>5. QED
          BY <1>2, <4>1, <4>3, <5>4 DEF Out
      <4>4. QED
        BY <4>2, <4>3
    <3>2. /\ \A i \in 1..Len(toPlugin) : toPlugin[i].id \in Ids
          /\ \A i \in 1..Len(fromPlugin) : fromPlugin[i].id \in Ids
      <4>1. (\A i \in 1..Len(toPlugin) : toPlugin[i] \in Sent)
            /\ (\A i \in 1..Len(fromPlugin) : fromPlugin[i] \in Frame)
        BY <1>1, ElementOfSeq DEF TypeOK
      <4>2. (\A g \in Sent : g.id \in Ids) /\ (\A g \in Frame : g.id \in Ids)
        BY DEF Sent, Frame
      <4>3. QED
        BY <4>1, <4>2
    <3>3. Asked'
      BY <1>2, <2>2, <3>1, <3>2 DEF Asked, Asks
    <3>4. Passed'
      <4>1. jobs # <<>> => jobs[1] \in Ids
        BY EmptySeq, ElementOfSeq DEF BridgeType
      <4>2. QED
        BY <2>2, <2>4, <3>1, <4>1 DEF Passed, bridge
    <3>5. Works'
      BY <2>2, <2>4, <3>1 DEF Works, bridge, BridgeType
    <3>6. Answered'
      <4>1. (\A i \in 1..Len(fromPlugin) : Ends(i) => Out(fromPlugin[i].id))'
        BY <1>4, <2>2, <3>1, <3>2 DEF Answered, Ends
      <4>2. \A i, j \in 1..Len(fromPlugin') : Ends(i)' /\ Ends(j)' => i + 1 = j + 1
        BY <1>4, <2>2 DEF Answered, Ends
      <4>3. (\A i, j \in 1..Len(fromPlugin) : Ends(i) /\ Ends(j) => i = j)'
        BY <4>2
      <4>4. QED
        BY <2>2, <2>4, <4>1, <4>3 DEF Answered, bridge
    <3>7. QED
      BY <2>3, <3>3, <3>4, <3>5, <3>6
  <2>6. CASE f.kind # "data"
    <3>1. Ends(1) /\ Ending
      BY <1>3, <2>6 DEF Ends, Ending
    <3>2. ~Ending'
      <4>1. \A i \in 1..Len(fromPlugin') : Ends(i)' => i + 1 = 1
        BY <1>3, <1>4, <2>2, <3>1 DEF Answered, Ends
      <4>2. QED
        BY <4>1 DEF Ending
    <3>3. jobs' = <<>> /\ ~Asking' /\ ~Busy'
      BY <2>2, <2>4, <3>1 DEF Answered, bridge
    <3>4. QED
      BY <2>3, <3>2, <3>3 DEF Asked, Asking, Passed, Works, Answered, Ending
  <2>7. QED
    BY <2>5, <2>6
<1>7. QED
  BY <1>5, <1>6 DEF HostPart

-----------------------------------------------------------------------------
(* The stdin thread.                                                       *)

\* Only the plugin's ends of the pipes move.
LEMMA PipesIInv ==
  ASSUME IInv, UNCHANGED <<caller, host, process>>, alive' \in BOOLEAN,
         toPlugin' \in Seq(Sent), fromPlugin' \in Seq(Plain)
  PROVE  IInv'
<1>1. TypeOK /\ ResetTold
  BY DEF IInv
<1>2. fromPlugin' \in Seq(Frame)
  BY SeqMonotonic DEF Plain
<1>3. TypeOK'
  BY <1>1, <1>2 DEF TypeOK, caller, host, process
<1>4. ResetTold'
  BY <1>1 DEF ResetTold, host
<1>5. QED
  BY <1>3, <1>4, StillIInv DEF caller, host

LEMMA ReadFrameIInv == ASSUME IInv, ReadFrame PROVE IInv'
<1>1. toPlugin' \in Seq(Sent)
  BY Taken DEF ReadFrame, IInv, TypeOK
<1>2. UNCHANGED <<caller, host, process, fromPlugin, alive>>
  BY DEF ReadFrame
<1>3. QED
  BY <1>1, <1>2, PipesIInv DEF IInv, TypeOK, ResetTold

LEMMA ReadFrameParts ==
  ASSUME TypeOK, ReadFrame, NEW f, f = Head(toPlugin)
  PROVE  /\ f \in Sent /\ f.id \in Ids /\ f = toPlugin[1] /\ 1 \in 1..Len(toPlugin)
         /\ f.kind = "credit" => f.cost \in Int
         /\ \A i \in 1..Len(toPlugin') :
              i + 1 \in 1..Len(toPlugin) /\ toPlugin'[i] = toPlugin[i + 1]
<1>1. toPlugin \in Seq(Sent) /\ toPlugin # <<>> /\ toPlugin' = Tail(toPlugin)
  BY DEF TypeOK, ReadFrame
<1>2. f \in Sent /\ f = toPlugin[1] /\ 1 \in 1..Len(toPlugin)
  BY <1>1, TailParts
<1>3. f.id \in Ids /\ (f.kind = "credit" => f.cost \in Costs)
  BY <1>2 DEF Sent
<1>4. QED
  BY <1>1, <1>2, <1>3, TailParts, CostNumber

LEMMA ReadFrameType ==
  ASSUME TypeOK, BridgeType, ReadFrame
  PROVE  BridgeType'
<1> DEFINE f == Head(toPlugin)
<1>1. f \in Sent /\ f.id \in Ids /\ (f.kind = "credit" => f.cost \in Int)
  BY ReadFrameParts
<1>2. /\ control' = IF f.kind = "request" /\ f.id # Close THEN Started(f.id)
                    ELSE IF f.kind = "credit" /\ f.id = control.id
                         THEN [control EXCEPT !.left = @ + f.cost]
                    ELSE IF f.kind = "stop" /\ f.id = control.id
                         THEN [control EXCEPT !.stop = TRUE]
                    ELSE IF f.kind = "cancel" /\ f.id = control.id
                         THEN [control EXCEPT !.cancel = TRUE] ELSE control
      /\ jobs' = IF f.kind = "request" THEN Append(jobs, f.id) ELSE jobs
      /\ reader' = f.id \/ reader' = reader
      /\ UNCHANGED worker
  BY DEF ReadFrame
<1> HIDE DEF f
<1> DEFINE Controls == [id : Ids \cup {Nobody}, left : Int, stop : BOOLEAN,
                        cancel : BOOLEAN, published : BOOLEAN]
<1>3. control \in Controls
  BY DEF BridgeType
<1>4. control' \in Controls
  <2>1. Started(f.id) \in Controls
    BY <1>1, CreditAssumption DEF Started
  <2>2. f.kind = "credit" => [control EXCEPT !.left = @ + f.cost] \in Controls
    BY <1>1, <1>3
  <2>3. [control EXCEPT !.stop = TRUE] \in Controls
    <3>1. \A b \in BOOLEAN : [control EXCEPT !.stop = b] \in Controls
      BY <1>3
    <3>2. QED
      BY <3>1
  <2>4. [control EXCEPT !.cancel = TRUE] \in Controls
    <3>1. \A b \in BOOLEAN : [control EXCEPT !.cancel = b] \in Controls
      BY <1>3
    <3>2. QED
      BY <3>1
  <2> HIDE DEF Controls
  <2>5. QED
    BY <1>2, <1>3, <2>1, <2>2, <2>3, <2>4
<1>5. jobs' \in Seq(Ids)
  BY <1>1, <1>2, AppendProperties DEF BridgeType
<1>6. reader' \in Ids \cup {Nobody}
  BY <1>1, <1>2 DEF BridgeType
<1>7. QED
  BY <1>2, <1>4, <1>5, <1>6 DEF BridgeType, Busy

\* A request is the only one on its way, and a cancel that finds a statement
\* published finds its own.
LEMMA ReadFrameKeeps ==
  ASSUME HostPart, TypeOK, BridgeType, InterruptsOwn, ReadFrame
  PROVE  HostPart' /\ InterruptsOwn'
<1> USE IdsApart
<1> DEFINE f == Head(toPlugin)
<1>1. /\ f \in Sent /\ f.id \in Ids /\ f = toPlugin[1] /\ 1 \in 1..Len(toPlugin)
      /\ \A i \in 1..Len(toPlugin') :
           i + 1 \in 1..Len(toPlugin) /\ toPlugin'[i] = toPlugin[i + 1]
  BY ReadFrameParts
<1>2. /\ f.kind = "request" /\ f.id # Close => control' = Started(f.id)
      /\ f.kind # "request" \/ f.id = Close =>
           control'.id = control.id /\ control'.published = control.published
      /\ jobs' = IF f.kind = "request" THEN Append(jobs, f.id) ELSE jobs
      /\ \/ reader' = reader
         \/ f.kind = "cancel" /\ f.id = control.id /\ control.published /\ reader' = f.id
      /\ alive /\ reader = Nobody
      /\ UNCHANGED <<at, inbox, closing, slot, fromPlugin, alive, worker>>
  BY DEF ReadFrame, Unlocked, caller, host, process, BridgeType
<1> HIDE DEF f
<1>3. (Fresh /\ ClosedLast /\ DeadFirst)'
  BY <1>2 DEF HostPart, Fresh, ClosedLast, DeadFirst
<1>4. Asked /\ Passed /\ Works /\ Answered /\ Handle
  BY <1>2 DEF HostPart, OneRequest
<1>5. (\A r \in Ids : Out(r) <=> Out(r)') /\ (Busy' <=> Busy) /\ (Ending' <=> Ending)
  <2>1. \A r \in Ids : Out(r) <=> Out(r)'
    BY <1>2 DEF Out
  <2>2. (Busy' <=> Busy) /\ (Ending' <=> Ending)
    BY <1>2 DEF Busy, Ending, Ends
  <2>3. QED
    BY <2>1, <2>2
<1>6. \A i \in 1..Len(toPlugin) : toPlugin[i].id \in Ids
  <2>1. \A i \in 1..Len(toPlugin) : toPlugin[i] \in Sent
    BY ElementOfSeq DEF TypeOK
  <2>2. \A g \in Sent : g.id \in Ids
    BY DEF Sent
  <2>3. QED
    BY <2>1, <2>2
<1>7. Asked'
  <2>1. (\A i \in 1..Len(toPlugin) : Asks(i) => Out(toPlugin[i].id))'
    BY <1>1, <1>4, <1>5, <1>6 DEF Asked, Asks
  <2>2. \A i, j \in 1..Len(toPlugin') : Asks(i)' /\ Asks(j)' => i + 1 = j + 1
    BY <1>1, <1>4 DEF Asked, Asks
  <2>3. (\A i, j \in 1..Len(toPlugin) : Asks(i) /\ Asks(j) => i = j)'
    BY <2>2
  <2>4. QED
    BY <2>1, <2>3 DEF Asked
<1>8. Asking' => Asking
  BY <1>1 DEF Asking, Asks
<1>9. Answered'
  <2>1. (\A i \in 1..Len(fromPlugin) : Ends(i) => Out(fromPlugin[i].id))'
    <3>1. \A i \in 1..Len(fromPlugin) : fromPlugin[i].id \in Ids
      <4>1. \A i \in 1..Len(fromPlugin) : fromPlugin[i] \in Frame
        BY ElementOfSeq DEF TypeOK
      <4>2. \A g \in Frame : g.id \in Ids
        BY DEF Frame
      <4>3. QED
        BY <4>1, <4>2
    <3>2. QED
      BY <1>2, <1>4, <1>5, <3>1 DEF Answered, Ends
  <2>2. (\A i, j \in 1..Len(fromPlugin) : Ends(i) /\ Ends(j) => i = j)'
    BY <1>2, <1>4 DEF Answered, Ends
  <2>3. (Ending => jobs = <<>> /\ ~Asking /\ ~Busy)'
    <3>1. f.kind = "request" => Asking
      BY <1>1 DEF Asking, Asks
    <3>2. QED
      BY <1>2, <1>4, <1>5, <1>8, <3>1 DEF Answered
  <2>4. QED
    BY <2>1, <2>2, <2>3 DEF Answered
<1>10. CASE f.kind = "request"
  <2>1. Asks(1) /\ Asking
    BY <1>1, <1>10 DEF Asks, Asking
  <2>2. ~Asking'
    <3>1. \A i \in 1..Len(toPlugin') : Asks(i)' => i + 1 = 1
      BY <1>1, <1>4, <2>1 DEF Asked, Asks
    <3>2. QED
      BY <3>1 DEF Asking
  <2>3. jobs = <<>> /\ ~Busy /\ Out(f.id)
    BY <1>1, <1>4, <2>1 DEF Passed, Works, Asked
  <2>4. jobs' = <<f.id>>
    BY <1>2, <1>10, <2>3
  <2>5. f.id # Close => control'.id = f.id
    BY <1>2, <1>10 DEF Started
  <2>6. Passed'
    <3>1. Len(jobs') = 1 /\ jobs'[1] = f.id
      BY <2>4
    <3>2. Out(jobs[1])'
      BY <1>1, <1>5, <2>3, <3>1
    <3>3. QED
      BY <2>2, <2>5, <3>1, <3>2 DEF Passed
  <2>7. ~Busy' /\ reader' = Nobody
    BY <1>2, <1>5, <1>10, <2>3
  <2>8. ~control.published
    BY <1>4, <2>3 DEF Handle, Busy
  <2>9. ~control'.published
    BY <1>2, <2>8 DEF Started
  <2>10. (Works /\ Handle)' /\ InterruptsOwn'
    BY <2>7, <2>9 DEF Works, Handle, InterruptsOwn
  <2>11. QED
    BY <1>3, <1>7, <1>9, <2>6, <2>10 DEF HostPart, OneRequest
<1>11. CASE f.kind # "request"
  <2>1. control'.id = control.id /\ control'.published = control.published /\ jobs' = jobs
    BY <1>2, <1>11
  <2>2. Passed'
    <3>1. jobs # <<>> => jobs[1] \in Ids
      BY EmptySeq, ElementOfSeq DEF BridgeType
    <3>2. jobs # <<>> => Out(jobs[1])'
      BY <1>4, <1>5, <2>1, <3>1 DEF Passed
    <3>3. QED
      BY <1>4, <1>8, <2>1, <3>2 DEF Passed
  <2>3. Works'
    BY <1>2, <1>4, <1>5, <1>8, <2>1 DEF Works, BridgeType
  <2>4. Handle'
    BY <1>2, <1>4, <2>1 DEF Handle
  <2>5. InterruptsOwn'
    <3>1. CASE reader' = reader
      BY <1>2, <3>1 DEF InterruptsOwn
    <3>2. CASE f.id = control.id /\ control.published /\ reader' = f.id
      <4>1. worker.at \in {"calling", "called"}
        BY <1>4, <3>2 DEF Handle
      <4>2. worker.job = control.id
        BY <1>4, <4>1 DEF Works, Busy
      <4>3. QED
        BY <1>2, <3>2, <4>1, <4>2 DEF InterruptsOwn
    <3>3. QED
      BY <1>2, <3>1, <3>2
  <2>6. QED
    BY <1>3, <1>7, <1>9, <2>2, <2>3, <2>4, <2>5 DEF HostPart, OneRequest
<1>12. QED
  BY <1>10, <1>11

-----------------------------------------------------------------------------
(* The worker.                                                             *)

\* What a worker may be; the fields a step changes are changed within it.
Workers == [at : {"idle", "ready", "calling", "called", "sending", "settling", "gone"},
            job : Ids \cup {Nobody}, sent : Nat, cost : Costs \cup {0},
            draining : BOOLEAN, reply : Control \cup {"none"}]

LEMMA WorkerGoes ==
  ASSUME NEW w \in Workers
  PROVE  /\ \A p \in {"idle", "ready", "calling", "called", "sending", "settling", "gone"} :
              [w EXCEPT !.at = p] \in Workers
         /\ \A k \in Control : [w EXCEPT !.reply = k] \in Workers
         /\ \A b \in BOOLEAN : [w EXCEPT !.draining = b] \in Workers
         /\ \A c \in Costs : [w EXCEPT !.cost = c] \in Workers
         /\ [w EXCEPT !.sent = @ + 1] \in Workers
  BY DEF Workers

\* The worker is in a statement before and after, and answers nothing.
LEMMA BusyKeeps ==
  ASSUME HostPart, TypeOK, Busy, Busy', alive,
         UNCHANGED <<caller, host, process, toPlugin, alive, jobs>>,
         worker'.job = worker.job, control'.id = control.id, Handle',
         \A i \in 1..Len(fromPlugin') :
           fromPlugin'[i].kind = "data" \/ (i \in 1..Len(fromPlugin) /\ fromPlugin'[i] = fromPlugin[i])
  PROVE  HostPart'
<1>1. Asked /\ Passed /\ Works /\ Answered /\ UNCHANGED <<at, inbox, closing, slot>>
  BY DEF HostPart, OneRequest, caller, host, process
<1>2. (Fresh /\ ClosedLast /\ DeadFirst)'
  BY <1>1 DEF HostPart, Fresh, ClosedLast, DeadFirst
<1>3. \A r \in Ids \cup {worker.job} : Out(r) <=> Out(r)'
  BY <1>1 DEF Out
<1>4. Asked'
  <2>1. \A i \in 1..Len(toPlugin) : toPlugin[i].id \in Ids
    <3>1. \A i \in 1..Len(toPlugin) : toPlugin[i] \in Sent
      BY ElementOfSeq DEF TypeOK
    <3>2. \A g \in Sent : g.id \in Ids
      BY DEF Sent
    <3>3. QED
      BY <3>1, <3>2
  <2>2. QED
    BY <1>1, <1>3, <2>1 DEF Asked, Asks
<1>5. ~Asking' /\ jobs' = <<>>
  BY <1>1 DEF Works, Asking, Asks
<1>6. Passed'
  BY <1>5 DEF Passed
<1>7. Works'
  <2>1. Out(worker.job) /\ worker.job = control.id /\ worker.job # Close
    BY <1>1 DEF Works
  <2>2. Out(worker.job)'
    BY <1>3, <2>1
  <2>3. QED
    BY <1>5, <2>1, <2>2 DEF Works
<1>8. ~Ending'
  BY <1>1 DEF Answered, Ending, Ends
<1>9. Answered'
  BY <1>8 DEF Answered, Ending
<1>10. QED
  BY <1>2, <1>4, <1>6, <1>7, <1>9 DEF HostPart, OneRequest

\* What is written back last is the one frame of its kind.
LEMMA EndingKeeps ==
  ASSUME HostPart, TypeOK, alive, ~Ending, ~Asking, jobs' = <<>>, ~Busy', ~control'.published,
         NEW r \in Ids, Out(r), NEW kind \in Control,
         fromPlugin' = Append(fromPlugin, Answer(r, kind)),
         UNCHANGED <<caller, host, process, toPlugin, alive>>
  PROVE  HostPart'
<1>1. UNCHANGED <<at, inbox, closing, slot>>
  BY DEF caller, host, process
<1>2. (Fresh /\ ClosedLast /\ DeadFirst)'
  BY <1>1 DEF HostPart, Fresh, ClosedLast, DeadFirst
<1>3. ~Asking' /\ Out(r)'
  BY <1>1 DEF Asking, Asks, Out
<1>4. Asked' /\ Passed' /\ Works' /\ Handle'
  BY <1>3 DEF Asked, Asking, Passed, Works, Handle
<1> DEFINE f == Answer(r, kind)
<1>5. f \in Frame /\ f.id = r
  BY DEF Answer, Frame
<1>6. fromPlugin \in Seq(Frame) /\ fromPlugin' = Append(fromPlugin, f)
  BY DEF TypeOK
<1> HIDE DEF f
<1>7. /\ Len(fromPlugin') = Len(fromPlugin) + 1 /\ Len(fromPlugin) \in Nat
      /\ fromPlugin'[Len(fromPlugin) + 1] = f
      /\ \A i \in 1..Len(fromPlugin) : fromPlugin'[i] = fromPlugin[i]
  BY <1>5, <1>6, AppendParts
<1>8. \A i \in 1..Len(fromPlugin') : Ends(i)' => i = Len(fromPlugin) + 1
  BY <1>7 DEF Ending, Ends
<1>9. Answered'
  <2>1. (\A i \in 1..Len(fromPlugin) : Ends(i) => Out(fromPlugin[i].id))'
    BY <1>3, <1>5, <1>7, <1>8
  <2>2. (\A i, j \in 1..Len(fromPlugin) : Ends(i) /\ Ends(j) => i = j)'
    BY <1>8
  <2>3. QED
    BY <1>3, <2>1, <2>2 DEF Answered
<1>10. QED
  BY <1>2, <1>4, <1>9 DEF HostPart, OneRequest

LEMMA AnswerIInv ==
  ASSUME IInv, NEW r \in Ids, NEW kind \in Control,
         fromPlugin' = Append(fromPlugin, Answer(r, kind)),
         UNCHANGED <<caller, host, process, toPlugin, alive>>
  PROVE  IInv'
<1>1. fromPlugin' \in Seq(Plain)
  BY AnswerPlain, AppendProperties DEF IInv, ResetTold
<1>2. QED
  BY <1>1, PipesIInv DEF IInv, TypeOK

\* What a step of either leaves to be shown.
BridgePart == BridgeType /\ HostPart /\ InterruptsOwn

LEMMA TakeJobKeeps ==
  ASSUME IInv, BridgePart, TakeJob
  PROVE  BridgePart'
<1> USE DEF BridgePart
<1>1. TypeOK /\ UNCHANGED <<caller, host, process, toPlugin, fromPlugin, alive, control, reader>>
  BY DEF IInv, TakeJob, vars, caller, host, process
<1>2. /\ alive /\ worker.at = "idle" /\ jobs # <<>> /\ Head(jobs) # Close
      /\ worker' = [Idle EXCEPT !.at = "ready", !.job = Head(jobs)] /\ jobs' = Tail(jobs)
  BY DEF TakeJob, At
<1>3. Asked /\ Passed /\ Works /\ Answered /\ Handle
  BY <1>2 DEF HostPart, OneRequest
<1>4. Len(jobs) = 1 /\ Head(jobs) = jobs[1] /\ Head(jobs) \in Ids /\ jobs' = <<>>
  <2>1. Len(jobs) = 1
    BY <1>2, <1>3 DEF Passed
  <2>2. jobs \in Seq(Ids)
    BY DEF BridgeType
  <2>3. jobs' \in Seq(Ids) /\ Len(jobs') = 0
    BY <1>2, <2>1, <2>2, TailParts
  <2>4. QED
    BY <1>2, <2>2, <2>3, TailParts, EmptySeq
<1>5. Out(Head(jobs)) /\ control.id = Head(jobs) /\ ~Asking
  BY <1>2, <1>3, <1>4 DEF Passed
<1>6. worker' \in Workers /\ worker'.at = "ready" /\ worker'.job = Head(jobs)
  <2>1. Idle \in Workers
    BY DEF Idle, Workers
  <2>2. QED
    BY <1>2, <1>4, <2>1 DEF Workers
<1>7. BridgeType'
  BY <1>1, <1>4, <1>6, EmptySeq DEF BridgeType, Workers, Busy
<1>8. UNCHANGED <<at, inbox, closing, slot>>
  BY <1>1 DEF caller, host, process
<1>9. (Fresh /\ ClosedLast /\ DeadFirst)'
  BY <1>1, <1>8 DEF HostPart, Fresh, ClosedLast, DeadFirst
<1>10. \A r \in Ids : Out(r) <=> Out(r)'
  BY <1>8 DEF Out
<1>11. ~Asking' /\ ~Ending'
  BY <1>1, <1>2, <1>3, <1>5 DEF Asking, Asks, Ending, Ends, Answered
<1>12. Asked' /\ Answered' /\ Passed'
  BY <1>4, <1>11 DEF Asked, Asking, Answered, Ending, Passed
<1>13. Works'
  <2>1. Out(worker.job)'
    <3>1. Out(Head(jobs))
      BY <1>5
    <3>2. QED
      BY <1>6, <1>8, <3>1 DEF Out
  <2>2. QED
    BY <1>1, <1>2, <1>4, <1>5, <1>6, <1>11, <2>1 DEF Works
<1>14. Handle' /\ InterruptsOwn'
  BY <1>1, <1>2, <1>3 DEF Handle, InterruptsOwn
<1>15. QED
  BY <1>7, <1>9, <1>12, <1>13, <1>14 DEF HostPart, OneRequest

LEMMA HostIsStill ==
  ASSUME UNCHANGED vars
  PROVE  UNCHANGED <<caller, host, process, toPlugin, fromPlugin, alive>>
  BY DEF vars, caller, host, process

LEMMA ReaderOut ==
  ASSUME BridgePart, alive, reader = Nobody, UNCHANGED reader
  PROVE  InterruptsOwn'
  BY DEF InterruptsOwn

LEMMA CallKeeps == ASSUME IInv, BridgePart, Call PROVE BridgePart'
<1> USE DEF BridgePart
<1>1. TypeOK /\ UNCHANGED <<caller, host, process, toPlugin, fromPlugin, alive, reader, jobs>>
  BY HostIsStill DEF IInv, Call
<1>2. alive /\ worker.at = "ready" /\ reader = Nobody
  BY DEF Call, At, Unlocked
<1>3. worker \in Workers /\ control.id \in Ids \cup {Nobody}
  BY DEF BridgeType, Workers
<1>4. ~control.published
  BY <1>2 DEF HostPart, OneRequest, Handle
<1>5. CASE /\ worker' = [worker EXCEPT !.at = "settling", !.reply = "error"]
           /\ UNCHANGED control
  <2>1. worker' \in Workers /\ worker'.at = "settling" /\ worker'.job = worker.job
        /\ worker'.reply = "error"
    BY <1>3, <1>5 DEF Workers, Control
  <2>2. BridgeType'
    BY <1>1, <1>2, <1>5, <2>1 DEF BridgeType, Workers, Busy, Control
  <2>3. Busy /\ Busy' /\ Handle'
    BY <1>2, <1>4, <1>5, <2>1 DEF Busy, Handle
  <2>4. HostPart'
    BY <1>1, <1>2, <1>5, <2>1, <2>3, BusyKeeps
  <2>5. QED
    BY <1>1, <1>2, <2>2, <2>4, ReaderOut
<1>6. CASE /\ worker' = [worker EXCEPT !.at = "calling", !.draining = @ \/ control.stop]
           /\ control' = [control EXCEPT !.published = TRUE]
  <2>1. worker' \in Workers
    <3>1. PICK b \in BOOLEAN : worker' = [worker EXCEPT !.at = "calling", !.draining = b]
      <4>1. (worker.draining \/ control.stop) \in BOOLEAN
        BY Zenon
      <4>2. worker' = [worker EXCEPT !.at = "calling", !.draining = worker.draining \/ control.stop]
        BY <1>6
      <4>3. QED
        BY <4>1, <4>2
    <3>2. QED
      BY <1>3, <3>1 DEF Workers
  <2>2. worker'.at = "calling" /\ worker'.job = worker.job
    BY <1>3, <1>6 DEF Workers
  <2>3. control' \in [id : Ids \cup {Nobody}, left : Int, stop : BOOLEAN, cancel : BOOLEAN,
                      published : BOOLEAN]
    <3>1. \A b \in BOOLEAN : [control EXCEPT !.published = b] \in
            [id : Ids \cup {Nobody}, left : Int, stop : BOOLEAN, cancel : BOOLEAN,
             published : BOOLEAN]
      BY DEF BridgeType
    <3>2. QED
      BY <1>6, <3>1
  <2>4. control'.id = control.id
    BY <1>6 DEF BridgeType
  <2>5. BridgeType'
    BY <1>1, <1>2, <2>1, <2>2, <2>3 DEF BridgeType, Workers, Busy
  <2>6. Busy /\ Busy' /\ Handle'
    BY <1>2, <2>2 DEF Busy, Handle
  <2>7. HostPart'
    BY <1>1, <1>2, <2>2, <2>4, <2>6, BusyKeeps
  <2>8. QED
    BY <1>1, <1>2, <2>5, <2>7, ReaderOut
<1>7. QED
  BY <1>5, <1>6 DEF Call

LEMMA ReturnsKeeps == ASSUME IInv, BridgePart, Returns PROVE BridgePart'
<1> USE DEF BridgePart
<1>1. TypeOK /\ UNCHANGED <<caller, host, process, toPlugin, fromPlugin, alive, control, reader, jobs>>
  BY HostIsStill DEF IInv, Returns
<1>2. alive /\ worker.at = "calling" /\ worker' = [worker EXCEPT !.at = "called"]
  BY DEF Returns, At
<1>3. worker \in Workers
  BY DEF BridgeType, Workers
<1>4. worker' \in Workers /\ worker'.at = "called" /\ worker'.job = worker.job
  BY <1>2, <1>3 DEF Workers
<1>5. BridgeType'
  BY <1>1, <1>2, <1>4 DEF BridgeType, Workers, Busy
<1>6. Busy /\ Busy' /\ Handle'
  BY <1>2, <1>4 DEF Busy, Handle
<1>7. HostPart'
  BY <1>1, <1>2, <1>4, <1>6, BusyKeeps
<1>8. InterruptsOwn'
  BY <1>1, <1>4, <1>2 DEF InterruptsOwn
<1>9. QED
  BY <1>5, <1>7, <1>8

LEMMA UnpublishKeeps == ASSUME IInv, BridgePart, Unpublish PROVE BridgePart'
<1> USE DEF BridgePart
<1>1. TypeOK /\ UNCHANGED <<caller, host, process, toPlugin, fromPlugin, alive, reader, jobs>>
  BY HostIsStill DEF IInv, Unpublish
<1>2. alive /\ worker.at = "called" /\ reader = Nobody
      /\ control' = [control EXCEPT !.published = FALSE] /\ worker' \in Outcomes
  BY DEF Unpublish, At, Unlocked
<1>3. worker \in Workers
  BY DEF BridgeType, Workers
<1>4. /\ worker' \in Workers /\ worker'.job = worker.job
      /\ worker'.at \in {"ready", "sending", "settling"}
      /\ worker'.at = "settling" => worker'.reply \in Control
      /\ worker'.at = "sending" => worker.job \in Statements /\ worker'.cost \in Costs
  <2>1. CASE worker' = [worker EXCEPT !.at = "ready"]
    BY <1>3, <2>1 DEF Workers
  <2>2. ASSUME NEW k \in Control, worker' = [worker EXCEPT !.at = "settling", !.reply = k]
        PROVE  worker' \in Workers /\ worker'.job = worker.job /\ worker'.at = "settling"
               /\ worker'.reply \in Control
    BY <1>3, <2>2 DEF Workers
  <2>3. ASSUME NEW c \in Costs, worker' = [worker EXCEPT !.at = "sending", !.cost = c]
        PROVE  worker' \in Workers /\ worker'.job = worker.job /\ worker'.at = "sending"
               /\ worker'.cost \in Costs
    BY <1>3, <2>3 DEF Workers
  <2>4. \/ worker' = [worker EXCEPT !.at = "ready"]
        \/ \E k \in Control : worker' = [worker EXCEPT !.at = "settling", !.reply = k]
        \/ \E c \in Costs : /\ worker' = [worker EXCEPT !.at = "sending", !.cost = c]
                            /\ worker.job \in Statements
    <3>1. \/ worker' \in {[worker EXCEPT !.at = "ready"],
              [worker EXCEPT !.at = "settling", !.reply = IF control.cancel THEN "error" ELSE "answer"],
              [worker EXCEPT !.at = "settling", !.reply = "error"],
              [worker EXCEPT !.at = "settling", !.reply = "lost"]}
          \/ worker' \in {[worker EXCEPT !.at = "sending", !.cost = c] :
               c \in {d \in Costs : /\ worker.job \in Statements /\ ~worker.draining
                                    /\ worker.sent < MaxFrames}}
      BY <1>2 DEF Outcomes
    <3>2. (IF control.cancel THEN "error" ELSE "answer") \in Control
          /\ "error" \in Control /\ "lost" \in Control
      BY DEF Control
    <3>3. CASE worker' \in {[worker EXCEPT !.at = "ready"],
              [worker EXCEPT !.at = "settling", !.reply = IF control.cancel THEN "error" ELSE "answer"],
              [worker EXCEPT !.at = "settling", !.reply = "error"],
              [worker EXCEPT !.at = "settling", !.reply = "lost"]}
      BY <3>2, <3>3
    <3>4. CASE worker' \in {[worker EXCEPT !.at = "sending", !.cost = c] :
               c \in {d \in Costs : /\ worker.job \in Statements /\ ~worker.draining
                                    /\ worker.sent < MaxFrames}}
      BY <3>4
    <3>5. QED
      BY <3>1, <3>3, <3>4
  <2>5. QED
    BY <2>1, <2>2, <2>3, <2>4
<1>5. control' \in [id : Ids \cup {Nobody}, left : Int, stop : BOOLEAN, cancel : BOOLEAN,
                    published : BOOLEAN]
  <2>1. \A b \in BOOLEAN : [control EXCEPT !.published = b] \in
          [id : Ids \cup {Nobody}, left : Int, stop : BOOLEAN, cancel : BOOLEAN,
           published : BOOLEAN]
    BY DEF BridgeType
  <2>2. QED
    BY <1>2, <2>1
<1>6. control'.id = control.id /\ ~control'.published
  BY <1>2 DEF BridgeType
<1>7. BridgeType'
  <2>1. worker.job \in Ids
    BY <1>2 DEF BridgeType, Busy
  <2>2. QED
    BY <1>1, <1>4, <1>5, <2>1 DEF BridgeType, Workers
<1>8. Busy /\ Busy' /\ Handle'
  BY <1>2, <1>4, <1>6 DEF Busy, Handle
<1>9. HostPart'
  BY <1>1, <1>2, <1>4, <1>6, <1>8, BusyKeeps
<1>10. QED
  BY <1>1, <1>2, <1>7, <1>9, ReaderOut

LEMMA TakeCreditIInv == ASSUME IInv, BridgePart, TakeCredit PROVE IInv'
<1>1. worker.job \in Ids /\ worker.cost \in Costs
  BY DEF BridgePart, BridgeType, TakeCredit, At, Busy
<1>2. UNCHANGED <<caller, host, process, toPlugin, alive>>
  BY DEF TakeCredit
<1>3. fromPlugin' = fromPlugin \/ fromPlugin' = Append(fromPlugin, Data(worker.job, worker.cost))
  BY DEF TakeCredit
<1>4. fromPlugin' \in Seq(Plain)
  BY <1>1, <1>3, DataPlain, AppendProperties DEF IInv, ResetTold
<1>5. QED
  BY <1>2, <1>4, PipesIInv DEF IInv, TypeOK

LEMMA TakeCreditKeeps == ASSUME IInv, BridgePart, TakeCredit PROVE BridgePart'
<1> USE DEF BridgePart
<1>1. TypeOK /\ UNCHANGED <<caller, host, process, toPlugin, alive, reader, jobs>>
  BY DEF IInv, TakeCredit
<1>2. alive /\ worker.at = "sending" /\ reader = Nobody
  BY DEF TakeCredit, At, Unlocked
<1>3. worker \in Workers /\ worker.job \in Ids /\ worker.cost \in Costs
  BY <1>2 DEF BridgeType, Workers, Busy
<1>4. ~control.published
  BY <1>2 DEF HostPart, OneRequest, Handle
<1>5. /\ worker' \in Workers /\ worker'.job = worker.job
      /\ worker'.at \in {"ready", "settling"}
      /\ worker'.at = "settling" => worker'.reply \in Control
  <2>1. CASE worker' = [worker EXCEPT !.at = "settling", !.reply = "error"]
    BY <1>3, <2>1 DEF Workers, Control
  <2>2. CASE worker' = [worker EXCEPT !.at = "ready", !.draining = TRUE]
    <3>1. \A b \in BOOLEAN : LET w == [worker EXCEPT !.at = "ready", !.draining = b]
                             IN  w \in Workers /\ w.at = "ready" /\ w.job = worker.job
      BY <1>3 DEF Workers
    <3>2. QED
      BY <2>2, <3>1
  <2>3. CASE worker' = [worker EXCEPT !.at = "ready", !.sent = @ + 1]
    <3>1. worker.sent + 1 \in Nat
      BY <1>3 DEF Workers
    <3>2. \A n \in Nat : LET w == [worker EXCEPT !.at = "ready", !.sent = n]
                         IN  w \in Workers /\ w.at = "ready" /\ w.job = worker.job
      BY <1>3 DEF Workers
    <3>3. worker' = [worker EXCEPT !.at = "ready", !.sent = worker.sent + 1]
      BY <2>3
    <3>4. QED
      BY <3>1, <3>2, <3>3
  <2>4. QED
    BY <2>1, <2>2, <2>3 DEF TakeCredit
<1>6. /\ control' \in [id : Ids \cup {Nobody}, left : Int, stop : BOOLEAN, cancel : BOOLEAN,
                       published : BOOLEAN]
      /\ control'.id = control.id /\ control'.published = control.published
  <2>1. control' = control \/ control' = [control EXCEPT !.left = @ - worker.cost]
    BY DEF TakeCredit
  <2>2. worker.cost \in Int
    BY <1>3, CostNumber
  <2>3. QED
    BY <2>1, <2>2 DEF BridgeType
<1>7. BridgeType'
  BY <1>1, <1>3, <1>5, <1>6 DEF BridgeType, Workers
<1>8. Busy /\ Busy' /\ Handle'
  BY <1>2, <1>4, <1>5, <1>6 DEF Busy, Handle
<1>9. \A i \in 1..Len(fromPlugin') :
        fromPlugin'[i].kind = "data" \/ (i \in 1..Len(fromPlugin) /\ fromPlugin'[i] = fromPlugin[i])
  <2>1. CASE fromPlugin' = fromPlugin
    BY <2>1
  <2>2. CASE fromPlugin' = Append(fromPlugin, Data(worker.job, worker.cost))
    <3> DEFINE f == Data(worker.job, worker.cost)
    <3>1. f \in Frame /\ f.kind = "data"
      BY <1>3, DataPlain DEF Plain, Data
    <3>2. fromPlugin \in Seq(Frame) /\ fromPlugin' = Append(fromPlugin, f)
      BY <1>1, <2>2 DEF TypeOK
    <3> HIDE DEF f
    <3>3. QED
      BY <3>1, <3>2, AppendParts
  <2>3. QED
    BY <2>1, <2>2 DEF TakeCredit
<1>10. HostPart'
  BY <1>1, <1>2, <1>5, <1>6, <1>8, <1>9, BusyKeeps
<1>11. QED
  BY <1>1, <1>2, <1>7, <1>10, ReaderOut

LEMMA ReplyKeeps == ASSUME IInv, BridgePart, Reply PROVE IInv' /\ BridgePart'
<1> USE DEF BridgePart
<1>1. TypeOK /\ UNCHANGED <<caller, host, process, toPlugin, alive, reader, jobs, control>>
  BY DEF IInv, Reply
<1>2. alive /\ worker.at = "settling" /\ reader = Nobody /\ worker' = Idle
      /\ fromPlugin' = Append(fromPlugin, Answer(worker.job, worker.reply))
  BY DEF Reply, At, Unlocked
<1>3. worker.job \in Ids /\ worker.reply \in Control /\ Busy
  BY <1>2 DEF BridgeType, Busy
<1>4. IInv'
  BY <1>1, <1>2, <1>3, AnswerIInv
<1>5. Asked /\ Works /\ Answered /\ Handle
  BY <1>2 DEF HostPart, OneRequest
<1>6. ~Asking /\ jobs = <<>> /\ ~Ending /\ Out(worker.job) /\ ~control.published
  BY <1>2, <1>3, <1>5 DEF Works, Answered, Handle
<1>7. worker' \in Workers /\ worker'.at = "idle"
  BY <1>2 DEF Idle, Workers
<1>8. BridgeType'
  BY <1>1, <1>7 DEF BridgeType, Workers, Busy
<1>9. ~Busy'
  BY <1>7 DEF Busy
<1>10. HostPart'
  BY <1>1, <1>2, <1>3, <1>6, <1>9, EndingKeeps
<1>11. QED
  BY <1>1, <1>2, <1>4, <1>8, <1>10, ReaderOut

LEMMA GoodbyeKeeps == ASSUME IInv, BridgePart, Goodbye PROVE IInv' /\ BridgePart'
<1> USE DEF BridgePart
<1>1. TypeOK /\ UNCHANGED <<caller, host, process, toPlugin, alive, reader, control>>
  BY DEF IInv, Goodbye
<1>2. /\ alive /\ worker.at = "idle" /\ jobs # <<>> /\ Head(jobs) = Close /\ jobs' = Tail(jobs)
      /\ worker' = [worker EXCEPT !.at = "gone"]
      /\ fromPlugin' = Append(fromPlugin, Answer(Close, "answer"))
  BY DEF Goodbye, At
<1>3. Asked /\ Passed /\ Answered /\ Handle
  BY <1>2 DEF HostPart, OneRequest
<1>4. Len(jobs) = 1 /\ jobs \in Seq(Ids) /\ jobs' = <<>>
  <2>1. Len(jobs) = 1
    BY <1>2, <1>3 DEF Passed
  <2>2. jobs \in Seq(Ids)
    BY DEF BridgeType
  <2>3. jobs' \in Seq(Ids) /\ Len(jobs') = 0
    BY <1>2, <2>1, <2>2, TailParts
  <2>4. QED
    BY <2>1, <2>2, <2>3, EmptySeq
<1>5. jobs[1] = Close
  BY <1>2, <1>4, TailParts
<1>6. ~Asking /\ ~Ending /\ Out(Close) /\ ~control.published
  BY <1>2, <1>3, <1>5 DEF Passed, Answered, Handle
<1>7. worker' \in Workers /\ worker'.at = "gone"
  BY <1>2 DEF BridgeType, Workers
<1>8. BridgeType'
  BY <1>1, <1>4, <1>7, EmptySeq DEF BridgeType, Workers, Busy
<1>9. ~Busy' /\ "answer" \in Control
  BY <1>7 DEF Busy, Control
<1>10. Close \in Ids
  BY IdsApart
<1>11. HostPart' /\ IInv'
  BY <1>1, <1>2, <1>4, <1>6, <1>9, <1>10, EndingKeeps, AnswerIInv
<1>12. InterruptsOwn'
  BY <1>1, <1>2 DEF InterruptsOwn
<1>13. QED
  BY <1>8, <1>11, <1>12

LEMMA CancelledKeeps == ASSUME IInv, BridgePart, Cancelled PROVE BridgePart'
<1>1. reader' = Nobody /\ UNCHANGED <<vars, control, jobs, worker>>
  BY DEF Cancelled
<1>2. BridgeType' /\ InterruptsOwn'
  BY <1>1 DEF BridgePart, BridgeType, InterruptsOwn, Busy
<1>3. HostPart'
  BY <1>1 DEF vars, BridgePart, HostPart, Fresh, ClosedLast, DeadFirst, OneRequest,
     Asked, Passed, Works, Answered, Handle, Asking, Ending, Asks, Ends, Out, Busy
<1>4. QED
  BY <1>2, <1>3 DEF BridgePart

\* The process is gone from here on.
LEMMA EndsDead ==
  ASSUME IInv, BridgePart, Exit \/ Crash
  PROVE  IInv' /\ BridgePart'
<1>1. /\ ~alive' /\ alive' \in BOOLEAN /\ toPlugin' = <<>>
      /\ UNCHANGED <<caller, host, process, fromPlugin, bridge>>
  BY DEF Exit, Crash, PluginDies
<1>2. IInv'
  BY <1>1, PipesIInv, EmptySeq DEF IInv, ResetTold
<1>3. BridgeType'
  BY <1>1, HostKeepsBridge DEF BridgePart
<1>4. HostPart' /\ InterruptsOwn'
  BY <1>1 DEF BridgePart, HostPart, Fresh, ClosedLast, DeadFirst, OneRequest,
     InterruptsOwn, caller, host, process
<1>5. QED
  BY <1>2, <1>3, <1>4 DEF BridgePart

-----------------------------------------------------------------------------
(* The bridge and its host.                                                *)

LEMMA HostKeeps ==
  ASSUME IInv, BridgePart, HostNext, UNCHANGED bridge
  PROVE  IInv' /\ BridgePart'
<1>1. TypeOK /\ BridgeType /\ HostPart
  BY DEF IInv, BridgePart
<1>2. IInv'
  BY NextIInv DEF Next
<1>3. BridgeType'
  BY <1>1, HostKeepsBridge
<1>4. HostPart'
  <2>1. CASE Threads
    BY <1>1, <2>1, ThreadKeeps, DeadKeeps, ResetKeeps, DropKeeps, RouteKeeps DEF Threads
  <2>2. ASSUME NEW r \in Requests, Caller(r) PROVE HostPart'
    BY <1>1, <2>2, StartKeeps, RefuseKeeps, ThreadKeeps, HandOnKeeps, TakeKeeps, DyingKeeps
       DEF Caller
  <2>3. ASSUME NEW r \in Requests, Cancel(r) \/ Deadline(r) PROVE HostPart'
    BY <1>1, <2>3, ThreadKeeps
  <2>4. QED
    BY <2>1, <2>2, <2>3 DEF HostNext
<1>5. InterruptsOwn'
  <2>1. alive' => alive
    <3>1. CASE Threads
      BY <3>1 DEF Threads, Route, Break, Eof, Reap, KillMute, Reset, DropHandle,
         CloseInput, CloseReap, End, pipes
    <3>2. ASSUME NEW r \in Requests, Caller(r) \/ Cancel(r) \/ Deadline(r)
          PROVE  alive' => alive
      BY <3>2 DEF Caller, Start, Refuse, GiveUp, TellStop, HandOn, TakeAnswer, TakeReset,
         CallDeadline, Release, Cancel, Deadline, End, pipes
    <3>3. QED
      BY <3>1, <3>2 DEF HostNext
  <2>2. QED
    BY <2>1 DEF BridgePart, InterruptsOwn, bridge
<1>6. QED
  BY <1>2, <1>3, <1>4, <1>5 DEF BridgePart

LEMMA StillsIInv == ASSUME IInv, UNCHANGED vars PROVE IInv'
  BY NextIInv

LEMMA BridgeSteps == IInv /\ BridgePart /\ [BridgeNext]_allVars => IInv' /\ BridgePart'
<1> SUFFICES ASSUME IInv, BridgePart, [BridgeNext]_allVars PROVE IInv' /\ BridgePart'
  OBVIOUS
<1>1. CASE HostNext /\ UNCHANGED bridge
  BY <1>1, HostKeeps
<1>2. CASE ReadFrame
  BY <1>2, ReadFrameIInv, ReadFrameType, ReadFrameKeeps DEF BridgePart, IInv
<1>3. CASE Cancelled
  BY <1>3, CancelledKeeps, StillsIInv DEF Cancelled
<1>4. CASE TakeJob
  BY <1>4, TakeJobKeeps, StillsIInv DEF TakeJob
<1>5. CASE Call
  BY <1>5, CallKeeps, StillsIInv DEF Call
<1>6. CASE Returns
  BY <1>6, ReturnsKeeps, StillsIInv DEF Returns
<1>7. CASE Unpublish
  BY <1>7, UnpublishKeeps, StillsIInv DEF Unpublish
<1>8. CASE TakeCredit
  BY <1>8, TakeCreditKeeps, TakeCreditIInv
<1>9. CASE Reply
  BY <1>9, ReplyKeeps
<1>10. CASE Goodbye
  BY <1>10, GoodbyeKeeps
<1>11. CASE Exit \/ Crash
  BY <1>11, EndsDead
<1>12. CASE UNCHANGED allVars
  <2>1. UNCHANGED vars /\ UNCHANGED bridge
    BY <1>12 DEF allVars
  <2>2. IInv'
    BY <2>1, StillsIInv
  <2>3. BridgeType'
    BY <2>1, HostKeepsBridge DEF BridgePart
  <2>4. HostPart' /\ InterruptsOwn'
    BY <2>1 DEF vars, bridge, BridgePart, HostPart, Fresh, ClosedLast, DeadFirst, OneRequest,
       Asked, Passed, Works, Answered, Handle, Asking, Ending, Asks, Ends, Out, Busy,
       InterruptsOwn
  <2>5. QED
    BY <2>2, <2>3, <2>4 DEF BridgePart
<1>13. QED
  BY <1>1, <1>2, <1>3, <1>4, <1>5, <1>6, <1>7, <1>8, <1>9, <1>10, <1>11, <1>12
     DEF BridgeNext, Worker

\* The invariant above holds of every state of host and bridge together.
THEOREM BridgeInvariant == BridgeSpec => [](IInv /\ BridgePart)
<1>1. BridgeInit => IInv /\ BridgePart
  BY BridgeInits DEF BridgeIInv, BridgePart, HostPart
<1>2. QED
  BY <1>1, BridgeSteps, PTL DEF BridgeSpec

\* SQLCancel is called on the statement the Cancel was for, while it is in a
\* call and not freed: the reader keeps the lock across it, the worker takes
\* the lock before it takes the handle back, and no other request is near.
THEOREM InterruptsItsOwn == BridgeSpec => []InterruptsOwn
<1>1. BridgePart => InterruptsOwn
  BY DEF BridgePart
<1>2. QED
  BY <1>1, BridgeInvariant, PTL

-----------------------------------------------------------------------------
(* What the host may owe and be owed.                                      *)

\* A plugin that runs was not given up.
AliveUnreset == alive => reset = "no"

\* Until then the host keeps a request for as long as its answer is awaited...
Awaited == reset = "no" => \A r \in pending : Out(r)

\* ... what is in the pipe to it belongs to such a request, rows to a
\* statement, with its answer behind them...
Owed ==
  reset = "no" =>
    \A i \in 1..Len(fromPlugin) :
      /\ fromPlugin[i].id \in pending
      /\ fromPlugin[i].kind = "data" => fromPlugin[i].id \in Statements
      /\ Ends(i) => i = Len(fromPlugin)

\* ... and the rows of each fit what is left of its credit, or are one frame
\* that has the whole of it.
NoRows(r) == \A i \in 1..Len(fromPlugin) :
               ~(fromPlugin[i].id = r /\ fromPlugin[i].kind = "data")
OneOfRows(r) == \A i, j \in 1..Len(fromPlugin) :
                  (/\ fromPlugin[i].id = r /\ fromPlugin[i].kind = "data"
                   /\ fromPlugin[j].id = r /\ fromPlugin[j].kind = "data") => i = j
PipeFits ==
  reset = "no" =>
    \A r \in Statements \cap pending :
      \/ NoRows(r)
      \/ Weigh(RowsOf(r))[fromPlugin] <= credit[r]
      \/ OneOfRows(r) /\ credit[r] = Window

\* A grant to a request is in the pipe.
Granted(r) == \E j \in 1..Len(toPlugin) : toPlugin[j].id = r /\ toPlugin[j].kind = "credit"

\* What is asked for is out, and begins with nothing sent and nothing granted.
Unserved(r) == /\ r \in pending /\ fromPlugin = <<>>
               /\ r \in Requests => inbox[r] = <<>> /\ ~Granted(r)
Begun ==
  alive =>
    /\ \A i \in 1..Len(toPlugin) : Asks(i) => Unserved(toPlugin[i].id)
    /\ jobs # <<>> => jobs[1] \in pending
    /\ Busy => worker.job \in pending

\* The bridge has not heard of a request that was not made.
Unheard == \A r \in Requests : at[r] = "idle" => control.id # r /\ ~Granted(r)

\* All of which is kept together.
CreditPart == /\ AliveUnreset /\ Awaited /\ Owed /\ PipeFits
              /\ Begun /\ Unheard /\ CreditAgrees /\ NeverBroken

-----------------------------------------------------------------------------
(* What is in the pipes.                                                   *)

LEMMA RowsOfWeigh ==
  ASSUME NEW r
  PROVE  /\ RowsOf(r) \in [Frame -> Nat] /\ RowsOf(r) \in [Frame -> Int]
         /\ \A f \in Frame : f.id = r /\ f.kind = "data" =>
              RowsOf(r)[f] = f.cost /\ f.cost \in Nat \ {0}
         /\ \A f \in Frame : ~(f.id = r /\ f.kind = "data") => RowsOf(r)[f] = 0
<1>1. \A f \in Frame : RowsOf(r)[f] = IF f.id = r THEN Rows[f] ELSE 0
  BY DEF RowsOf
<1>2. RowsOf(r) = [f \in Frame |-> RowsOf(r)[f]]
  BY DEF RowsOf
<1>3. Rows \in [Frame -> Nat]
  BY RowsWeigh
<1>4. \A f \in Frame : RowsOf(r)[f] \in Nat /\ RowsOf(r)[f] \in Int
  <2>1. SUFFICES ASSUME NEW f \in Frame PROVE RowsOf(r)[f] \in Nat
    OBVIOUS
  <2>2. Rows[f] \in Nat
    BY <1>3
  <2>3. QED
    BY <1>1, <2>2
<1>5. RowsOf(r) \in [Frame -> Nat] /\ RowsOf(r) \in [Frame -> Int]
  BY <1>2, <1>4
<1>6. QED
  BY <1>1, <1>5, RowsWeigh

LEMMA GrantsWeigh ==
  ASSUME NEW r
  PROVE  /\ GrantsTo(r) \in [Sent -> Nat] /\ GrantsTo(r) \in [Sent -> Int]
         /\ \A f \in Sent : f.id = r /\ f.kind = "credit" =>
              GrantsTo(r)[f] = f.cost /\ f.cost \in Nat
         /\ \A f \in Sent : ~(f.id = r /\ f.kind = "credit") => GrantsTo(r)[f] = 0
<1>1. \A f \in Sent : GrantsTo(r)[f] = IF f.id = r /\ f.kind = "credit" THEN f.cost ELSE 0
  BY DEF GrantsTo
<1>2. GrantsTo(r) = [f \in Sent |-> GrantsTo(r)[f]]
  BY DEF GrantsTo
<1>3. \A f \in Sent : f.kind = "credit" => f.cost \in Nat
  <2>1. \A f \in Sent : f.kind = "credit" => f.cost \in Costs
    BY DEF Sent
  <2>2. Costs \subseteq Nat
    BY CreditAssumption
  <2>3. QED
    BY <2>1, <2>2
<1>4. \A f \in Sent : GrantsTo(r)[f] \in Nat /\ GrantsTo(r)[f] \in Int
  <2>1. SUFFICES ASSUME NEW f \in Sent PROVE GrantsTo(r)[f] \in Nat
    OBVIOUS
  <2>2. QED
    BY <1>1, <1>3
<1>5. GrantsTo(r) \in [Sent -> Nat] /\ GrantsTo(r) \in [Sent -> Int]
  BY <1>2, <1>4
<1>6. QED
  BY <1>1, <1>3, <1>5

LEMMA PipesWeigh ==
  ASSUME TypeOK, NEW r
  PROVE  /\ fromPlugin \in Seq(Frame) /\ toPlugin \in Seq(Sent)
         /\ Weigh(RowsOf(r))[fromPlugin] \in Nat /\ Weigh(GrantsTo(r))[toPlugin] \in Nat
<1>1. fromPlugin \in Seq(Frame) /\ toPlugin \in Seq(Sent)
  BY DEF TypeOK
<1>2. QED
  BY <1>1, RowsOfWeigh, GrantsWeigh, WeighNat

\* A queue of what weighs nothing weighs nothing.
LEMMA WeighNothing ==
  ASSUME NEW F, NEW w \in [F -> Int]
  PROVE  \A s \in Seq(F) : (\A i \in 1..Len(s) : w[s[i]] = 0) => Weigh(w)[s] = 0
<1> DEFINE Light(s) == \A i \in 1..Len(s) : w[s[i]] = 0
           T == {k \in Nat : \E s \in Seq(F) : Len(s) = k /\ Light(s) /\ Weigh(w)[s] # 0}
<1>1. \A s \in Seq(F) : Len(s) \in Nat
  BY LenProperties
<1>2. SUFFICES ASSUME T # {} PROVE FALSE
  BY <1>1
<1>3. PICK k \in T : \A j \in T : k <= j
  BY <1>2, LeastNumber
<1>4. PICK s \in Seq(F) : Len(s) = k /\ Light(s) /\ Weigh(w)[s] # 0
  BY <1>3
<1>5. s # <<>>
  BY <1>4, WeighParts
<1>6. /\ Tail(s) \in Seq(F) /\ Len(Tail(s)) = k - 1 /\ k \in Nat \ {0} /\ Head(s) = s[1]
      /\ \A i \in 1..Len(Tail(s)) : i + 1 \in 1..Len(s) /\ Tail(s)[i] = s[i + 1]
  BY <1>4, <1>5, TailParts
<1>7. Light(Tail(s)) /\ w[Head(s)] = 0
  BY <1>4, <1>6
<1>8. Weigh(w)[s] = w[Head(s)] + Weigh(w)[Tail(s)]
  BY <1>5, WeighParts
<1>9. Weigh(w)[Tail(s)] # 0
  BY <1>4, <1>7, <1>8
<1> HIDE DEF Light
<1>10. \E t \in Seq(F) : Len(t) = k - 1 /\ Light(t) /\ Weigh(w)[t] # 0
  BY <1>6, <1>7, <1>9
<1>11. k - 1 \in T
  BY <1>6, <1>10
<1>12. QED
  BY <1>3, <1>6, <1>11

\* What is behind the head.
LEMMA WeighTail ==
  ASSUME NEW F, NEW w \in [F -> Nat], NEW s \in Seq(F), s # <<>>
  PROVE  /\ Weigh(w)[s] = w[Head(s)] + Weigh(w)[Tail(s)]
         /\ Weigh(w)[Tail(s)] \in Nat /\ Weigh(w)[s] \in Nat /\ w[Head(s)] \in Nat
<1>1. w \in [F -> Int]
  OBVIOUS
<1>2. Weigh(w)[s] = w[Head(s)] + Weigh(w)[Tail(s)]
  BY <1>1, WeighParts
<1>3. Head(s) \in F /\ Tail(s) \in Seq(F)
  BY Taken
<1>4. QED
  BY <1>2, <1>3, WeighNat

LEMMA InitCredit == BridgeInit => CreditPart
<1> SUFFICES ASSUME BridgeInit PROVE CreditPart
  OBVIOUS
<1>1. Init /\ worker = Idle /\ jobs = <<>> /\ control.id = Nobody
  BY DEF BridgeInit
<1>2. pending = {} /\ fromPlugin = <<>> /\ toPlugin = <<>> /\ reset = "no" /\ Len(toPlugin) = 0
      /\ Len(fromPlugin) = 0
  BY <1>1 DEF Init
<1>3. ~Busy
  BY <1>1 DEF Busy, Idle
<1>4. AliveUnreset /\ Awaited /\ NeverBroken /\ CreditAgrees
  BY <1>2 DEF AliveUnreset, Awaited, NeverBroken, CreditAgrees
<1>5. Owed /\ PipeFits /\ Begun
  BY <1>1, <1>2, <1>3 DEF Owed, PipeFits, Begun
<1>6. Unheard
  BY <1>1, <1>2, IdsApart DEF Unheard, Granted
<1>7. QED
  BY <1>4, <1>5, <1>6 DEF CreditPart

\* What is known of host and bridge besides.
Known == IInv /\ BridgePart /\ Counted

LEMMA PipeTyped ==
  ASSUME TypeOK
  PROVE  /\ \A i \in 1..Len(toPlugin) : toPlugin[i] \in Sent
         /\ \A i \in 1..Len(fromPlugin) : fromPlugin[i] \in Frame
  BY ElementOfSeq DEF TypeOK

\* A stop, a cancel or an ask is written, or nothing.
Written ==
  \/ UNCHANGED toPlugin
  \/ ~alive /\ toPlugin' = <<>>
  \/ \E f \in Sent : f.kind \in {"stop", "cancel"} /\ toPlugin' = Append(toPlugin, f)

LEMMA WrittenParts ==
  ASSUME TypeOK, Written, alive
  PROVE  /\ \A r : Weigh(GrantsTo(r))[toPlugin'] = Weigh(GrantsTo(r))[toPlugin]
         /\ \A r : Granted(r)' => Granted(r)
         /\ \A i \in 1..Len(toPlugin') :
              Asks(i)' => i \in 1..Len(toPlugin) /\ toPlugin'[i] = toPlugin[i]
<1>1. CASE UNCHANGED toPlugin
  BY <1>1 DEF Granted, Asks
<1>2. ASSUME NEW f \in Sent, f.kind \in {"stop", "cancel"}, toPlugin' = Append(toPlugin, f)
      PROVE  /\ \A r : Weigh(GrantsTo(r))[toPlugin'] = Weigh(GrantsTo(r))[toPlugin]
             /\ \A r : Granted(r)' => Granted(r)
             /\ \A i \in 1..Len(toPlugin') :
                  Asks(i)' => i \in 1..Len(toPlugin) /\ toPlugin'[i] = toPlugin[i]
  <2>1. ASSUME NEW r PROVE Weigh(GrantsTo(r))[toPlugin'] = Weigh(GrantsTo(r))[toPlugin]
    <3>1. GrantsTo(r)[f] = 0 /\ GrantsTo(r) \in [Sent -> Int]
      BY <1>2, GrantsWeigh
    <3>2. toPlugin \in Seq(Sent) /\ Weigh(GrantsTo(r))[toPlugin] \in Nat
      BY PipesWeigh
    <3>3. Weigh(GrantsTo(r))[Append(toPlugin, f)] = Weigh(GrantsTo(r))[toPlugin] + GrantsTo(r)[f]
      BY <3>1, <3>2, WeighAppend
    <3>4. QED
      BY <1>2, <3>1, <3>2, <3>3
  <2>2. /\ Len(toPlugin') = Len(toPlugin) + 1 /\ Len(toPlugin) \in Nat
        /\ toPlugin'[Len(toPlugin) + 1] = f
        /\ \A i \in 1..Len(toPlugin) : toPlugin'[i] = toPlugin[i]
    BY <1>2, AppendParts DEF TypeOK
  <2>3. \A i \in 1..Len(toPlugin') : toPlugin'[i].kind \in {"request", "credit"} =>
          i \in 1..Len(toPlugin) /\ toPlugin'[i] = toPlugin[i]
    BY <1>2, <2>2
  <2>4. QED
    BY <2>1, <2>3 DEF Granted, Asks
<1>3. QED
  BY <1>1, <1>2 DEF Written

\* A step that moves neither credit nor rows.
LEMMA QuietCredit ==
  ASSUME CreditPart, TypeOK,
         UNCHANGED <<pending, credit, fromPlugin, reset, alive>>,
         control'.id = control.id, control'.left = control.left,
         \A r \in Requests : /\ at'[r] = "idle" => at[r] = "idle"
                             /\ inbox[r] = <<>> => inbox'[r] = <<>>,
         reset = "no" => \A r \in pending : Out(r)',
         Written,
         alive => /\ jobs' # <<>> => jobs'[1] \in pending
                  /\ Busy' => worker'.job \in pending
  PROVE  CreditPart'
<1> USE DEF CreditPart
<1>1. AliveUnreset' /\ NeverBroken' /\ Awaited'
  BY DEF AliveUnreset, NeverBroken, Awaited
<1>2. Owed'
  BY DEF Owed, Ends
<1>3. PipeFits'
  BY DEF PipeFits, NoRows, OneOfRows
<1>4. CASE alive
  <2>1. /\ \A r : Weigh(GrantsTo(r))[toPlugin'] = Weigh(GrantsTo(r))[toPlugin]
        /\ \A r : Granted(r)' => Granted(r)
        /\ \A i \in 1..Len(toPlugin') :
              Asks(i)' => i \in 1..Len(toPlugin) /\ toPlugin'[i] = toPlugin[i]
    BY <1>4, WrittenParts
  <2>2. Unheard'
    BY <2>1 DEF Unheard
  <2>3. \A r : Unserved(r) => Unserved(r)'
    BY <2>1 DEF Unserved
  <2>4. Begun'
    <3>1. (\A i \in 1..Len(toPlugin) : Asks(i) => Unserved(toPlugin[i].id))'
      BY <1>4, <2>1, <2>3 DEF Begun, Asks
    <3>2. QED
      BY <1>4, <3>1 DEF Begun
  <2>5. \A r \in Requests : OnTheWay(r)' = OnTheWay(r)
    BY <2>1 DEF OnTheWay
  <2>6. CreditAgrees'
    BY <2>5, IdsApart DEF CreditAgrees
  <2>7. QED
    BY <1>1, <1>2, <1>3, <2>2, <2>4, <2>6
<1>5. CASE ~alive
  <2>1. Begun' /\ CreditAgrees'
    BY <1>5 DEF Begun, CreditAgrees
  <2>2. \A r \in Requests : at[r] = "idle" => ~Granted(r)'
    <3>1. CASE UNCHANGED toPlugin
      BY <3>1 DEF Unheard, Granted
    <3>2. CASE toPlugin' = <<>>
      <4>1. Len(toPlugin') = 0
        BY <3>2
      <4>2. QED
        BY <4>1 DEF Granted
    <3>3. CASE \E f \in Sent : f.kind \in {"stop", "cancel"} /\ toPlugin' = Append(toPlugin, f)
      <4>1. PICK f \in Sent : f.kind \in {"stop", "cancel"} /\ toPlugin' = Append(toPlugin, f)
        BY <3>3
      <4>2. /\ Len(toPlugin') = Len(toPlugin) + 1 /\ Len(toPlugin) \in Nat
            /\ toPlugin'[Len(toPlugin) + 1] = f
            /\ \A i \in 1..Len(toPlugin) : toPlugin'[i] = toPlugin[i]
        BY <4>1, AppendParts DEF TypeOK
      <4>3. \A r : Granted(r)' => Granted(r)
        BY <4>1, <4>2 DEF Granted
      <4>4. QED
        BY <4>3 DEF Unheard
    <3>4. QED
      BY <3>1, <3>2, <3>3 DEF Written
  <2>3. Unheard'
    BY <2>2 DEF Unheard
  <2>4. QED
    BY <1>1, <1>2, <1>3, <2>1, <2>3
<1>6. QED
  BY <1>4, <1>5

\* The process goes, given up on or by itself.
LEMMA DiesCredit ==
  ASSUME CreditPart, ~alive', UNCHANGED control,
         toPlugin' = <<>> \/ UNCHANGED toPlugin,
         \A r \in Requests : at'[r] = "idle" => at[r] = "idle",
         \/ reset' \notin {"no", "protocol"}
         \/ /\ UNCHANGED <<at, inbox, pending, credit, fromPlugin, reset>>
            /\ closing # "no" => closing' # "no"
  PROVE  CreditPart'
<1> USE DEF CreditPart
<1>1. Unheard'
  <2>1. CASE UNCHANGED toPlugin
    BY <2>1 DEF Unheard, Granted
  <2>2. CASE toPlugin' = <<>>
    <3>1. Len(toPlugin') = 0
      BY <2>2
    <3>2. QED
      BY <3>1 DEF Unheard, Granted
  <2>3. QED
    BY <2>1, <2>2
<1>2. Begun' /\ CreditAgrees' /\ AliveUnreset'
  BY DEF Begun, CreditAgrees, AliveUnreset
<1>3. CASE reset' \notin {"no", "protocol"}
  BY <1>1, <1>2, <1>3 DEF Awaited, Owed, PipeFits, NeverBroken
<1>4. CASE /\ UNCHANGED <<at, inbox, pending, credit, fromPlugin, reset>>
           /\ closing # "no" => closing' # "no"
  <2>1. \A r : Out(r) => Out(r)'
    BY <1>4 DEF Out
  <2>2. (Awaited /\ Owed /\ NeverBroken)'
    BY <1>4, <2>1 DEF Awaited, Owed, Ends, NeverBroken
  <2>3. PipeFits'
    BY <1>4 DEF PipeFits, NoRows, OneOfRows
  <2>4. QED
    BY <1>1, <1>2, <2>2, <2>3
<1>5. QED
  BY <1>3, <1>4

\* A request is asked for, with nothing in the pipes.
LEMMA AskCredit ==
  ASSUME Known, CreditPart, NEW r \in Ids, \A s \in Ids : ~Out(s),
         Write(<<Ask(r, "request")>>), Out(r)', pending' = pending \cup {r},
         UNCHANGED <<credit, inbox, reset, fromPlugin, alive, bridge>>, reset = "no",
         r \in Requests => inbox[r] = <<>> /\ at[r] = "idle",
         \A s \in Requests : at'[s] = "idle" => at[s] = "idle"
  PROVE  CreditPart'
<1> USE DEF CreditPart
<1>1. TypeOK /\ OneRequest /\ BridgeType
  BY DEF Known, IInv, BridgePart, HostPart
<1>2. pending = {}
  BY <1>1 DEF Awaited, TypeOK
<1>3. Len(fromPlugin) = 0 /\ fromPlugin = <<>>
  <2>1. fromPlugin \in Seq(Frame) /\ Len(fromPlugin) \in Nat
    BY <1>1, LenProperties DEF TypeOK
  <2>2. Len(fromPlugin) = 0
    BY <1>2, <2>1 DEF Owed
  <2>3. QED
    BY <2>1, <2>2, EmptySeq
<1>4. AliveUnreset' /\ NeverBroken' /\ Awaited'
  BY <1>2 DEF AliveUnreset, NeverBroken, Awaited
<1>5. Owed' /\ PipeFits'
  BY <1>3 DEF Owed, PipeFits, NoRows
<1>6. CreditAgrees'
  <2>1. r \in Requests => control.id # r
    BY DEF Unheard
  <2>2. QED
    BY <1>2, <2>1, IdsApart DEF CreditAgrees, bridge
<1>7. CASE alive
  <2>1. ~Asking /\ jobs = <<>> /\ ~Busy /\ ~Ending
    BY <1>1, <1>7, NothingOut
  <2>2. Ask(r, "request") \in Sent /\ toPlugin \in Seq(Sent)
    BY <1>1, AskSent DEF TypeOK
  <2> DEFINE f == Ask(r, "request")
  <2>3. toPlugin' = Append(toPlugin, f) /\ f.id = r /\ f.kind = "request" /\ f \in Sent
    BY <1>7, <2>2, AppendIsConcat DEF Write, Ask
  <2> HIDE DEF f
  <2>4. /\ Len(toPlugin') = Len(toPlugin) + 1 /\ Len(toPlugin) \in Nat
        /\ toPlugin'[Len(toPlugin) + 1] = f
        /\ \A i \in 1..Len(toPlugin) : toPlugin'[i] = toPlugin[i]
    BY <2>2, <2>3, AppendParts
  <2>5. \A s : Granted(s)' => Granted(s)
    BY <2>3, <2>4 DEF Granted
  <2>6. \A i \in 1..Len(toPlugin') : Asks(i)' => toPlugin'[i].id = r
    BY <2>1, <2>3, <2>4 DEF Asks, Asking
  <2>7. r \in Requests => ~Granted(r)'
    BY <2>5 DEF Unheard
  <2>8. jobs' = <<>> /\ ~Busy'
    BY <2>1 DEF bridge, Busy
  <2>9. Begun'
    <3>1. Unserved(r)'
      BY <1>3, <2>7 DEF Unserved
    <3>2. (\A i \in 1..Len(toPlugin) : Asks(i) => Unserved(toPlugin[i].id))'
      BY <2>6, <3>1
    <3>3. QED
      BY <2>8, <3>2 DEF Begun
  <2>10. Unheard'
    BY <2>5 DEF Unheard, bridge
  <2>11. QED
    BY <1>4, <1>5, <1>6, <2>9, <2>10
<1>8. CASE ~alive
  <2>1. Begun'
    BY <1>8 DEF Begun
  <2>2. toPlugin' = <<>> /\ Len(toPlugin') = 0
    BY <1>8 DEF Write
  <2>3. Unheard'
    BY <2>2 DEF Unheard, Granted, bridge
  <2>4. QED
    BY <1>4, <1>5, <1>6, <2>1, <2>3
<1>9. QED
  BY <1>7, <1>8

-----------------------------------------------------------------------------
(* The host's steps keep the counts.                                       *)

\* What the reader finds is allowed, until the plugin is given up.
LEMMA HeadLegal ==
  ASSUME Known, CreditPart, reset = "no", fromPlugin # <<>>
  PROVE  Legal(Head(fromPlugin))
<1> DEFINE f == Head(fromPlugin)
<1>1. TypeOK /\ fromPlugin \in Seq(Frame)
  BY DEF Known, IInv, TypeOK
<1>2. 1 \in 1..Len(fromPlugin) /\ f = fromPlugin[1] /\ f \in Frame
  BY <1>1, TailParts
<1> HIDE DEF f
<1>3. f.id \in pending /\ (f.kind = "data" => f.id \in Statements)
  BY <1>2 DEF CreditPart, Owed
<1>4. ASSUME f.kind = "data" PROVE Fits(f.cost, credit[f.id])
  <2> DEFINE r == f.id
  <2>1. r \in Statements \cap pending /\ ~NoRows(r)
    BY <1>2, <1>3, <1>4 DEF NoRows
  <2>2. RowsOf(r)[f] = f.cost /\ f.cost \in Nat
    BY <1>2, <1>4, RowsOfWeigh
  <2>3. Weigh(RowsOf(r))[fromPlugin] = f.cost + Weigh(RowsOf(r))[Tail(fromPlugin)]
        /\ Weigh(RowsOf(r))[Tail(fromPlugin)] \in Nat
    <3>1. RowsOf(r) \in [Frame -> Nat]
      BY RowsOfWeigh
    <3>2. Weigh(RowsOf(r))[fromPlugin] = RowsOf(r)[Head(fromPlugin)] + Weigh(RowsOf(r))[Tail(fromPlugin)]
          /\ Weigh(RowsOf(r))[Tail(fromPlugin)] \in Nat
      BY <1>1, <3>1, WeighTail
    <3>3. QED
      BY <2>2, <3>2 DEF f
  <2>4. credit[r] \in Int
    BY <1>1, <2>1 DEF TypeOK
  <2> HIDE DEF r
  <2>5. Weigh(RowsOf(r))[fromPlugin] <= credit[r] \/ credit[r] = Window
    BY <2>1 DEF CreditPart, PipeFits
  <2>6. f.cost <= credit[r] \/ credit[r] = Window
    BY <2>2, <2>3, <2>4, <2>5
  <2>7. QED
    BY <2>6 DEF Fits, r
<1>5. QED
  BY <1>3, <1>4 DEF Legal, f

LEMMA BreakCredit == ASSUME Known, CreditPart, Break, UNCHANGED bridge PROVE CreditPart'
<1>1. reset # "no"
  BY HeadLegal DEF Break
<1>2. /\ reset' = reset /\ ~alive' /\ (toPlugin' = <<>> \/ UNCHANGED toPlugin)
      /\ reset # "protocol" /\ UNCHANGED at
  BY <1>1 DEF Break, End, CreditPart, NeverBroken, AliveUnreset, caller
<1>3. QED
  BY <1>1, <1>2, DiesCredit DEF bridge

\* What ends the plugin, or finds it ended, on the host's side.
LEMMA EndCredit ==
  ASSUME Known, CreditPart, UNCHANGED bridge,
         \/ KillMute \/ CloseReap \/ Reset
         \/ \E r \in Requests : CallDeadline(r) \/ (Deadline(r) /\ r \in pending)
  PROVE  CreditPart'
<1>1. TypeOK /\ ClosedLast /\ DeadFirst /\ reset # "protocol"
  BY DEF Known, IInv, BridgePart, HostPart, CreditPart, NeverBroken
<1>2. UNCHANGED control
  BY DEF bridge
<1>3. CASE KillMute
  BY <1>2, <1>3, DiesCredit DEF KillMute, caller, host, process
<1>4. CASE CloseReap
  <2>1. /\ ~alive' /\ toPlugin' = <<>> /\ closing' = "done"
        /\ UNCHANGED <<at, inbox, pending, credit, fromPlugin, reset>>
    BY <1>4 DEF CloseReap, caller, host
  <2>2. QED
    BY <1>2, <2>1, DiesCredit
<1>5. CASE Reset
  <2>1. ~alive' /\ UNCHANGED toPlugin /\ UNCHANGED at /\ reset' \notin {"no", "protocol"}
    BY <1>1, <1>5 DEF Reset, DeadFirst, pipes, caller
  <2>2. QED
    BY <1>2, <2>1, DiesCredit
<1>6. ASSUME NEW r \in Requests, CallDeadline(r) PROVE CreditPart'
  <2>1. slot # "dropped"
    BY <1>1, <1>6 DEF ClosedLast, CallDeadline, Reading
  <2>2. /\ ~alive' /\ toPlugin' = <<>> /\ reset' \notin {"no", "protocol"}
        /\ at' = [at EXCEPT ![r] = "returning"]
    BY <1>1, <1>6, <2>1 DEF CallDeadline, End, Return
  <2>3. \A s \in Requests : at'[s] = "idle" => at[s] = "idle"
    BY <1>1, <2>2 DEF TypeOK
  <2>4. QED
    BY <1>2, <2>2, <2>3, DiesCredit
<1>7. ASSUME NEW r \in Requests, Deadline(r), r \in pending PROVE CreditPart'
  <2>1. alive => slot # "dropped"
    BY <1>1, <1>7, IdsApart DEF ClosedLast, CreditPart, AliveUnreset, Awaited, Out
  <2>2. /\ ~alive' /\ (toPlugin' = <<>> \/ UNCHANGED toPlugin)
        /\ reset' \notin {"no", "protocol"} /\ UNCHANGED at
    BY <1>1, <1>7, <2>1 DEF Deadline, End, caller
  <2>3. QED
    BY <1>2, <2>2, DiesCredit
<1>8. QED
  BY <1>3, <1>4, <1>5, <1>6, <1>7

\* A caller that has nothing awaited goes on its way.
LEMMA CallerCredit ==
  ASSUME Known, CreditPart, UNCHANGED bridge, NEW r \in Requests, ~Out(r),
         NEW place \in {"returning", "ended"}, at' = [at EXCEPT ![r] = place],
         inbox' = inbox \/ inbox' = [inbox EXCEPT ![r] = <<>>],
         UNCHANGED <<pending, credit, closing, reset, pipes>>
  PROVE  CreditPart'
<1> USE IdsApart
<1>1. TypeOK
  BY DEF Known, IInv
<1>2. \A s \in Ids : Out(s) => Out(s)'
  BY <1>1 DEF Out, TypeOK
<1>3. reset = "no" => \A s \in pending : Out(s)'
  BY <1>1, <1>2 DEF CreditPart, Awaited, TypeOK
<1>4. \A s \in Requests : /\ at'[s] = "idle" => at[s] = "idle"
                         /\ inbox[s] = <<>> => inbox'[s] = <<>>
  BY <1>1 DEF TypeOK
<1>5. alive => /\ jobs' # <<>> => jobs'[1] \in pending
               /\ Busy' => worker'.job \in pending
  BY DEF CreditPart, Begun, bridge, Busy
<1>6. QED
  BY <1>1, <1>3, <1>4, <1>5, QuietCredit DEF Written, bridge, pipes

LEMMA LeavesCredit ==
  ASSUME Known, CreditPart, UNCHANGED bridge, NEW r \in Requests,
         \/ Refuse(r) \/ GiveUp(r) \/ Release(r) \/ TakeAnswer(r) \/ TakeReset(r)
  PROVE  CreditPart'
<1> USE IdsApart
<1>1. TypeOK
  BY DEF Known, IInv
<1>2. CASE Refuse(r) \/ GiveUp(r) \/ Release(r)
  <2>1. /\ at' = [at EXCEPT ![r] = "ended"] /\ at[r] # "reading"
        /\ UNCHANGED <<inbox, pending, credit, closing, reset, pipes>>
    BY <1>2 DEF Refuse, GiveUp, Release, process, host
  <2>2. ~Out(r)
    BY <2>1 DEF Out
  <2>3. QED
    BY <2>1, <2>2, CallerCredit
<1>3. CASE TakeAnswer(r) \/ TakeReset(r)
  <2>1. /\ at' = [at EXCEPT ![r] = "returning"] /\ inbox' = [inbox EXCEPT ![r] = <<>>]
        /\ UNCHANGED <<pending, credit, closing, reset, pipes>>
        /\ inbox[r] # <<>> /\ Head(inbox[r]).kind # "data"
    BY <1>3 DEF TakeAnswer, TakeReset, process, Return, Has
  <2>2. inbox[r] \in Seq(Frame)
    BY <1>1 DEF TypeOK
  <2>3. 1 \in 1..Len(inbox[r]) /\ Head(inbox[r]) = inbox[r][1]
    BY <2>1, <2>2, TailParts
  <2>4. ~Out(r)
    BY <2>1, <2>3 DEF Out
  <2>5. QED
    BY <2>1, <2>4, CallerCredit
<1>4. QED
  BY <1>2, <1>3

\* The threads that look on, and the user.
LEMMA LookCredit ==
  ASSUME Known, CreditPart, UNCHANGED bridge,
         \/ Eof \/ Reap \/ CloseInput
         \/ \E r \in Requests : TellStop(r) \/ Cancel(r) \/ (Deadline(r) /\ r \notin pending)
  PROVE  CreditPart'
<1> USE IdsApart
<1>1. TypeOK
  BY DEF Known, IInv
<1>2. alive => /\ jobs' # <<>> => jobs'[1] \in pending
               /\ Busy' => worker'.job \in pending
  BY DEF CreditPart, Begun, bridge, Busy
<1>3. /\ UNCHANGED <<at, inbox, pending, credit, fromPlugin, reset, alive>>
      /\ closing # "no" => closing' # "no"
  <2>1. CASE Eof \/ Reap
    BY <2>1 DEF Eof, Reap, caller, host, pipes
  <2>2. CASE CloseInput
    BY <2>2 DEF CloseInput, caller, host, pipes
  <2>3. ASSUME NEW r \in Requests, TellStop(r) \/ Cancel(r) \/ (Deadline(r) /\ r \notin pending)
        PROVE  /\ UNCHANGED <<at, inbox, pending, credit, fromPlugin, reset, alive>>
               /\ closing # "no" => closing' # "no"
    BY <2>3 DEF TellStop, Cancel, Deadline, caller, process, host
  <2>4. QED
    BY <2>1, <2>2, <2>3
<1>4. Written
  <2>1. CASE Eof \/ Reap \/ CloseInput
    BY <2>1 DEF Eof, Reap, CloseInput, pipes, Written
  <2>2. ASSUME NEW r \in Requests, Deadline(r), r \notin pending PROVE Written
    BY <2>2 DEF Deadline, Written
  <2>3. ASSUME NEW r \in Requests, TellStop(r) \/ Cancel(r) PROVE Written
    <3>0. PICK kind \in {"stop", "cancel"} : UNCHANGED toPlugin \/ Write(<<Ask(r, kind)>>)
      BY <2>3 DEF TellStop, Cancel
    <3> DEFINE f == Ask(r, kind)
    <3>1. f \in Sent /\ f.kind \in {"stop", "cancel"}
      BY AskSent DEF Ask
    <3>2. UNCHANGED toPlugin \/ Write(<<f>>)
      BY <3>0
    <3> HIDE DEF f
    <3>3. toPlugin \o <<f>> = Append(toPlugin, f)
      BY <1>1, <3>1, AppendIsConcat DEF TypeOK
    <3>4. QED
      BY <3>1, <3>2, <3>3 DEF Write, Written
  <2>4. QED
    BY <2>1, <2>2, <2>3
<1>5. \A s : Out(s) => Out(s)'
  BY <1>3 DEF Out
<1>6. reset = "no" => \A s \in pending : Out(s)'
  BY <1>5 DEF CreditPart, Awaited
<1>7. QED
  BY <1>1, <1>2, <1>3, <1>4, <1>6, QuietCredit DEF bridge

\* The bridge's steps that move no credit and no rows.
LEMMA StepCredit ==
  ASSUME Known, CreditPart, \/ Cancelled \/ TakeJob \/ Call \/ Returns \/ Unpublish
                            \/ UNCHANGED allVars
  PROVE  CreditPart'
<1>1. TypeOK /\ UNCHANGED vars
  BY DEF Known, IInv, Cancelled, TakeJob, Call, Returns, Unpublish, allVars
<1>2. \A s : Out(s) => Out(s)'
  BY <1>1 DEF Out, vars
<1>3. reset = "no" => \A s \in pending : Out(s)'
  BY <1>2 DEF CreditPart, Awaited
<1>4. control'.id = control.id /\ control'.left = control.left
  <2>1. CASE Cancelled \/ TakeJob \/ Returns \/ UNCHANGED allVars
    BY <2>1 DEF Cancelled, TakeJob, Returns, allVars, bridge
  <2>2. CASE Call \/ Unpublish
    <3>1. \/ control' = control \/ control' = [control EXCEPT !.published = TRUE]
          \/ control' = [control EXCEPT !.published = FALSE]
      BY <2>2 DEF Call, Unpublish
    <3>2. QED
      BY <3>1 DEF Known, BridgePart, BridgeType
  <2>3. QED
    BY <2>1, <2>2
<1>5. alive => /\ jobs' # <<>> => jobs'[1] \in pending
               /\ Busy' => worker'.job \in pending
  <2>1. SUFFICES ASSUME alive
                 PROVE  /\ jobs' # <<>> => jobs'[1] \in pending
                        /\ Busy' => worker'.job \in pending
    OBVIOUS
  <2>2. /\ jobs # <<>> => jobs[1] \in pending
        /\ Busy => worker.job \in pending
    BY <2>1 DEF CreditPart, Begun
  <2>3. CASE Cancelled \/ UNCHANGED allVars
    BY <2>2, <2>3 DEF Cancelled, Busy, allVars, bridge
  <2>4. CASE Call \/ Returns \/ Unpublish
    <3>1. worker'.job = worker.job /\ UNCHANGED jobs /\ Busy
      <4>1. worker \in Workers
        BY DEF Known, BridgePart, BridgeType, Workers
      <4>2. CASE Call
        <5>1. UNCHANGED jobs /\ worker.at = "ready"
          BY <4>2 DEF Call, At
        <5>2. \/ worker' = [worker EXCEPT !.at = "settling", !.reply = "error"]
              \/ worker' = [worker EXCEPT !.at = "calling", !.draining = @ \/ control.stop]
          BY <4>2 DEF Call
        <5>3. worker'.job = worker.job
          BY <4>1, <5>2 DEF Workers
        <5>4. QED
          BY <5>1, <5>3 DEF Busy
      <4>3. CASE Returns
        BY <4>1, <4>3 DEF Returns, At, Busy, Workers
      <4>4. CASE Unpublish
        <5>1. UNCHANGED jobs /\ worker.at = "called" /\ worker' \in Outcomes
          BY <4>4 DEF Unpublish, At
        <5>2. worker'.job = worker.job
          BY <4>1, <5>1 DEF Workers, Outcomes
        <5>3. QED
          BY <5>1, <5>2 DEF Busy
      <4>5. QED
        BY <2>4, <4>2, <4>3, <4>4
    <3>2. QED
      BY <2>2, <3>1
  <2>5. CASE TakeJob
    <3>1. /\ jobs # <<>> /\ jobs \in Seq(Ids) /\ Len(jobs) = 1 /\ jobs' = Tail(jobs)
          /\ worker' = [Idle EXCEPT !.at = "ready", !.job = Head(jobs)]
      BY <2>1, <2>5 DEF TakeJob, Known, BridgePart, BridgeType, HostPart, OneRequest, Passed
    <3>2. Len(jobs') = 0 /\ jobs' \in Seq(Ids) /\ Head(jobs) = jobs[1]
      BY <3>1, TailParts
    <3>3. worker'.job = jobs[1]
      BY <3>1, <3>2 DEF Idle
    <3>4. jobs' = <<>>
      BY <3>2, EmptySeq
    <3>5. QED
      BY <2>2, <3>1, <3>3, <3>4
  <2>6. QED
    BY <2>3, <2>4, <2>5
<1>6. QED
  BY <1>1, <1>3, <1>4, <1>5, QuietCredit DEF vars, Written

LEMMA StartCredit ==
  ASSUME Known, CreditPart, NEW r \in Requests, Start(r), UNCHANGED bridge
  PROVE  CreditPart'
<1> USE IdsApart
<1>1. TypeOK /\ (\A s \in Requests : at[s] \in {"idle", "ended"})
  BY NobodyOut DEF Known, IInv, Start
<1>2. /\ at' = [at EXCEPT ![r] = "reading"] /\ at[r] = "idle" /\ closing = "no" /\ reset = "no"
      /\ pending' = pending \cup {r}
      /\ UNCHANGED <<inbox, closing, alive, fromPlugin, credit, reset>>
      /\ Write(<<Ask(r, "request")>>)
  BY DEF Start, process
<1>3. inbox[r] = <<>>
  BY <1>2 DEF Known, Counted, NothingKept
<1>4. Out(r)'
  BY <1>1, <1>2, <1>3 DEF Out, TypeOK
<1>5. \A s \in Ids : ~Out(s)
  BY <1>1, <1>2 DEF Out
<1>6. \A s \in Requests : at'[s] = "idle" => at[s] = "idle"
  BY <1>1, <1>2 DEF TypeOK
<1>7. QED
  BY <1>2, <1>3, <1>4, <1>5, <1>6, AskCredit

LEMMA DropCredit ==
  ASSUME Known, CreditPart, DropHandle, UNCHANGED bridge
  PROVE  CreditPart'
<1> USE IdsApart
<1>1. /\ closing = "no" /\ closing' # "no"
      /\ \A r \in Requests : at[r] \in {"idle", "ended"}
      /\ UNCHANGED <<at, inbox, alive, fromPlugin, credit, reset>>
  BY DEF DropHandle, caller
<1>2. \A r \in Ids : ~Out(r)
  BY <1>1 DEF Out
<1>3. Out(Close)'
  BY <1>1 DEF Out
<1>4. CASE reset = "no"
  BY <1>1, <1>2, <1>3, <1>4, AskCredit DEF DropHandle
<1>5. CASE reset # "no"
  <2>1. UNCHANGED <<pending, toPlugin>> /\ ~alive
    BY <1>5 DEF DropHandle, CreditPart, AliveUnreset
  <2>2. TypeOK
    BY DEF Known, IInv
  <2>3. QED
    BY <1>1, <1>5, <2>1, <2>2, QuietCredit DEF bridge, Written
<1>6. QED
  BY <1>4, <1>5

\* What a caller hands on is granted again.
LEMMA HandOnCredit ==
  ASSUME Known, CreditPart, NEW r \in Requests, HandOn(r), UNCHANGED bridge
  PROVE  CreditPart'
<1> USE IdsApart
<1> DEFINE c == Head(inbox[r]).cost
<1>1. /\ r \in Statements /\ inbox[r] # <<>> /\ Head(inbox[r]).kind = "data" /\ at[r] = "reading"
      /\ inbox' = [inbox EXCEPT ![r] = Tail(@)]
      /\ UNCHANGED <<at, pending, closing, reset, fromPlugin, alive>>
  BY DEF HandOn, Has, Reading, process, caller
<1>2. TypeOK
  BY DEF Known, IInv
<1>3. inbox[r] \in Seq(Frame) /\ Head(inbox[r]) \in Frame
  BY <1>1, <1>2, Taken DEF TypeOK
<1>4. c \in Costs /\ c \in Nat \ {0}
  BY <1>1, <1>3, FrameParts, CreditAssumption
<1> DEFINE g == Grant(r, c)
<1>5. g \in Sent /\ g.kind = "credit" /\ g.id = r /\ g.cost = c
  BY <1>1, <1>4, GrantSent DEF Grant
<1>6. \/ r \notin pending /\ UNCHANGED <<credit, toPlugin>>
      \/ /\ r \in pending /\ credit' = [credit EXCEPT ![r] = @ + c]
         /\ Write(<<g>>)
  BY DEF HandOn
<1>7. credit \in [Statements -> Int] /\ toPlugin \in Seq(Sent)
  BY <1>2 DEF TypeOK
<1>8. r \in pending => credit[r] + Weigh(Rows)[inbox[r]] = Window /\ c <= Weigh(Rows)[inbox[r]]
  <2>1. Rows[Head(inbox[r])] = c
    BY <1>1, <1>3, RowsWeigh
  <2>2. Rows \in [Frame -> Nat]
    BY RowsWeigh
  <2>3. Weigh(Rows)[inbox[r]] = c + Weigh(Rows)[Tail(inbox[r])]
        /\ Weigh(Rows)[Tail(inbox[r])] \in Nat
    BY <1>1, <1>3, <2>1, <2>2, WeighTail
  <2>4. r \in pending => credit[r] + Weigh(Rows)[inbox[r]] = Window
    BY <1>1 DEF Known, Counted, CreditKept
  <2> HIDE DEF c
  <2>5. c <= Weigh(Rows)[inbox[r]]
    BY <1>4, <2>3
  <2>6. QED
    BY <2>4, <2>5
<1>9. Weigh(Rows)[inbox[r]] \in Nat
  BY <1>2, HeldTyped
<1> HIDE DEF c, g
<1>10. \A s \in Ids : Out(s) => Out(s)'
  <2>1. SUFFICES ASSUME NEW s \in Ids, Out(s) PROVE Out(s)'
    OBVIOUS
  <2>2. CASE s = r
    BY <1>1, <1>2, <1>3, <2>1, <2>2, TailParts DEF Out, TypeOK
  <2>3. CASE s # r
    BY <1>1, <1>2, <2>1, <2>3 DEF Out, TypeOK
  <2>4. QED
    BY <2>2, <2>3
<1>11. Awaited'
  BY <1>1, <1>2, <1>10 DEF CreditPart, Awaited, TypeOK
<1>12. (AliveUnreset /\ NeverBroken /\ Owed)'
  BY <1>1 DEF CreditPart, AliveUnreset, NeverBroken, Owed, Ends
<1>13. PipeFits'
  <2>1. SUFFICES ASSUME reset = "no", NEW s \in Statements \cap pending
                 PROVE  \/ NoRows(s)'
                        \/ Weigh(RowsOf(s))[fromPlugin'] <= credit'[s]
                        \/ OneOfRows(s)' /\ credit'[s] = Window
    BY <1>1 DEF PipeFits
  <2>2. \/ NoRows(s)
        \/ Weigh(RowsOf(s))[fromPlugin] <= credit[s]
        \/ OneOfRows(s) /\ credit[s] = Window
    BY <2>1 DEF CreditPart, PipeFits
  <2>3. (NoRows(s) => NoRows(s)') /\ (OneOfRows(s) => OneOfRows(s)')
    BY <1>1 DEF NoRows, OneOfRows
  <2>4. CASE s # r
    <3>1. credit'[s] = credit[s]
      BY <1>6, <1>7, <2>4
    <3>2. QED
      BY <1>1, <2>2, <2>3, <3>1
  <2>5. CASE s = r
    <3>1. credit'[s] = credit[s] + c /\ credit[s] \in Int
      BY <1>1, <1>4, <1>6, <1>7, <2>1, <2>5
    <3>2. credit[s] # Window
      BY <1>4, <1>8, <1>9, <2>1, <2>5, <3>1, CreditAssumption
    <3>3. Weigh(RowsOf(s))[fromPlugin] \in Nat
      BY <1>2, PipesWeigh
    <3>4. Weigh(RowsOf(s))[fromPlugin] <= credit[s] => Weigh(RowsOf(s))[fromPlugin] <= credit'[s]
      BY <1>4, <3>1, <3>3
    <3>5. QED
      BY <1>1, <2>2, <2>3, <3>2, <3>4
  <2>6. QED
    BY <2>4, <2>5
<1>14. CASE ~alive \/ r \notin pending
  <2>1. toPlugin' = <<>> \/ UNCHANGED toPlugin
    BY <1>6, <1>14 DEF Write
  <2>2. \A s : Granted(s)' => Granted(s)
    <3>1. CASE UNCHANGED toPlugin
      BY <3>1 DEF Granted
    <3>2. CASE toPlugin' = <<>>
      <4>1. Len(toPlugin') = 0
        BY <3>2
      <4>2. QED
        BY <4>1 DEF Granted
    <3>3. QED
      BY <2>1, <3>1, <3>2
  <2>3. Unheard'
    BY <1>1, <2>2 DEF CreditPart, Unheard, bridge
  <2>4. Begun' /\ CreditAgrees'
    <3>1. CASE ~alive
      BY <1>1, <3>1 DEF Begun, CreditAgrees
    <3>2. CASE r \notin pending
      <4>1. UNCHANGED <<credit, toPlugin>>
        BY <1>6, <3>2
      <4>2. CreditAgrees'
        BY <1>1, <4>1 DEF CreditPart, CreditAgrees, OnTheWay, bridge
      <4>3. \A s : Unserved(s) => Unserved(s)'
        <5>1. \A s \in Requests : s # r => inbox'[s] = inbox[s]
          BY <1>1, <1>2 DEF TypeOK
        <5>2. QED
          BY <1>1, <2>2, <3>2, <5>1 DEF Unserved
      <4>4. (\A i \in 1..Len(toPlugin) : Asks(i) => Unserved(toPlugin[i].id))'
            \/ ~alive
        BY <4>1, <4>3 DEF CreditPart, Begun, Asks
      <4>5. Begun'
        BY <1>1, <4>4 DEF CreditPart, Begun, bridge, Busy
      <4>6. QED
        BY <4>2, <4>5
    <3>3. QED
      BY <1>14, <3>1, <3>2
  <2>5. QED
    BY <1>11, <1>12, <1>13, <2>3, <2>4 DEF CreditPart
<1>15. CASE alive /\ r \in pending
  <2>1. toPlugin' = Append(toPlugin, g)
    BY <1>5, <1>6, <1>7, <1>15, AppendIsConcat DEF Write
  <2>3. /\ Len(toPlugin') = Len(toPlugin) + 1 /\ toPlugin'[Len(toPlugin) + 1] = g
        /\ \A i \in 1..Len(toPlugin) : toPlugin'[i] = toPlugin[i]
    BY <1>5, <1>7, <2>1, AppendParts
  <2>4. \A i \in 1..Len(toPlugin') :
          (i \in 1..Len(toPlugin) /\ toPlugin'[i] = toPlugin[i]) \/ toPlugin'[i] = g
    BY <1>7, <2>3, LenProperties
  <2>5. \A s : s # r /\ Granted(s)' => Granted(s)
    BY <1>5, <2>4 DEF Granted
  <2>6. Unheard'
    BY <1>1, <2>5 DEF CreditPart, Unheard, bridge
  <2>7. \A s \in Statements :
          OnTheWay(s)' = IF s = r THEN OnTheWay(s) + c ELSE OnTheWay(s)
    <3>1. SUFFICES ASSUME NEW s \in Statements
                   PROVE OnTheWay(s)' = IF s = r THEN OnTheWay(s) + c ELSE OnTheWay(s)
      OBVIOUS
    <3>2. GrantsTo(s)[g] = IF s = r THEN c ELSE 0
      BY <1>5, GrantsWeigh
    <3>4. Weigh(GrantsTo(s))[toPlugin'] = Weigh(GrantsTo(s))[toPlugin] + GrantsTo(s)[g]
      BY <1>5, <1>7, <2>1, GrantsWeigh, WeighAppend
    <3>5. Weigh(GrantsTo(s))[toPlugin] \in Nat /\ Weigh(RowsOf(s))[fromPlugin] \in Nat
      BY <1>2, PipesWeigh
    <3>6. OnTheWay(s)' = Weigh(RowsOf(s))[fromPlugin] + Weigh(GrantsTo(s))[toPlugin']
      BY <1>1 DEF OnTheWay
    <3>7. QED
      BY <1>4, <3>2, <3>4, <3>5, <3>6 DEF OnTheWay
  <2>8. CreditAgrees'
    <3>1. SUFFICES ASSUME NEW s \in Statements \cap pending, control.id = s
                   PROVE  credit'[s] = control.left + OnTheWay(s)'
      BY <1>1 DEF CreditAgrees, bridge
    <3>2. credit[s] = control.left + OnTheWay(s)
      BY <1>15, <3>1 DEF CreditPart, CreditAgrees
    <3>3. credit'[s] = IF s = r THEN credit[s] + c ELSE credit[s]
      BY <1>6, <1>7, <1>15
    <3>4. credit[s] \in Int /\ control.left \in Int /\ OnTheWay(s) \in Int
      <4>1. Weigh(GrantsTo(s))[toPlugin] \in Nat /\ Weigh(RowsOf(s))[fromPlugin] \in Nat
        BY <1>2, PipesWeigh
      <4>2. QED
        BY <1>7, <4>1 DEF Known, BridgePart, BridgeType, OnTheWay
    <3>5. QED
      BY <1>4, <2>7, <3>2, <3>3, <3>4
  <2>9. Begun'
    <3>1. \A i \in 1..Len(toPlugin') : Asks(i)' => i \in 1..Len(toPlugin) /\ toPlugin'[i] = toPlugin[i]
      BY <1>5, <2>4 DEF Asks
    <3>2. \A s \in Ids : s # r /\ Unserved(s) => Unserved(s)'
      BY <1>1, <1>2, <2>5 DEF Unserved, TypeOK
    <3>3. \A i \in 1..Len(toPlugin) : Asks(i) => toPlugin[i].id # r /\ toPlugin[i].id \in Ids
                                       /\ Unserved(toPlugin[i].id)
      <4>1. ~Unserved(r)
        BY <1>1 DEF Unserved
      <4>2. \A i \in 1..Len(toPlugin) : toPlugin[i].id \in Ids
        BY <1>2, PipeTyped DEF Sent
      <4>3. QED
        BY <1>15, <4>1, <4>2 DEF CreditPart, Begun
    <3>4. (\A i \in 1..Len(toPlugin) : Asks(i) => Unserved(toPlugin[i].id))'
      BY <3>1, <3>2, <3>3 DEF Asks
    <3>5. QED
      BY <1>1, <1>15, <3>4 DEF CreditPart, Begun, bridge, Busy
  <2>10. QED
    BY <1>11, <1>12, <1>13, <2>6, <2>8, <2>9 DEF CreditPart
<1>16. QED
  BY <1>14, <1>15

-----------------------------------------------------------------------------
(* The bridge's steps keep the counts.                                     *)

LEMMA ReadFrameCredit == ASSUME Known, CreditPart, ReadFrame PROVE CreditPart'
<1> USE IdsApart
<1> DEFINE f == Head(toPlugin)
<1>1. /\ TypeOK /\ BridgeType /\ HostPart /\ CreditKept
      /\ toPlugin \in Seq(Sent) /\ toPlugin # <<>> /\ toPlugin' = Tail(toPlugin)
  BY DEF Known, IInv, BridgePart, TypeOK, ReadFrame, Counted
<1>2. /\ f \in Sent /\ f.id \in Ids /\ f = toPlugin[1] /\ 1 \in 1..Len(toPlugin)
      /\ f.kind = "credit" => f.cost \in Int
      /\ \A i \in 1..Len(toPlugin') :
           i + 1 \in 1..Len(toPlugin) /\ toPlugin'[i] = toPlugin[i + 1]
  BY <1>1, ReadFrameParts
<1>3. /\ alive /\ UNCHANGED <<at, inbox, closing, pending, credit, reset, fromPlugin, alive, worker>>
      /\ control' = IF f.kind = "request" /\ f.id # Close THEN Started(f.id)
                    ELSE IF f.kind = "credit" /\ f.id = control.id
                         THEN [control EXCEPT !.left = @ + f.cost]
                    ELSE IF f.kind = "stop" /\ f.id = control.id
                         THEN [control EXCEPT !.stop = TRUE]
                    ELSE IF f.kind = "cancel" /\ f.id = control.id
                         THEN [control EXCEPT !.cancel = TRUE] ELSE control
      /\ jobs' = IF f.kind = "request" THEN Append(jobs, f.id) ELSE jobs
  BY DEF ReadFrame, caller, host, process
<1>4. Asked /\ Passed /\ Works /\ reset = "no"
  BY <1>1, <1>3 DEF HostPart, OneRequest, CreditPart, AliveUnreset
<1>5. \A s : Weigh(GrantsTo(s))[toPlugin] = GrantsTo(s)[f] + Weigh(GrantsTo(s))[toPlugin']
             /\ Weigh(GrantsTo(s))[toPlugin'] \in Nat /\ GrantsTo(s)[f] \in Nat
  <2>1. SUFFICES ASSUME NEW s
                 PROVE /\ Weigh(GrantsTo(s))[toPlugin] = GrantsTo(s)[f] + Weigh(GrantsTo(s))[toPlugin']
                       /\ Weigh(GrantsTo(s))[toPlugin'] \in Nat /\ GrantsTo(s)[f] \in Nat
    OBVIOUS
  <2>2. GrantsTo(s) \in [Sent -> Nat]
    BY GrantsWeigh
  <2>3. QED
    BY <1>1, <2>2, WeighTail
<1>6. control \in [id : Ids \cup {Nobody}, left : Int, stop : BOOLEAN, cancel : BOOLEAN,
                   published : BOOLEAN]
  BY <1>1 DEF BridgeType
<1> HIDE DEF f
<1>7. \A s : Granted(s)' => Granted(s)
  BY <1>2 DEF Granted
<1>8. (AliveUnreset /\ NeverBroken /\ Owed /\ Awaited /\ PipeFits)'
  <2>1. (AliveUnreset /\ NeverBroken /\ Owed)'
    BY <1>3 DEF CreditPart, AliveUnreset, NeverBroken, Owed, Ends
  <2>2. \A s : Out(s) => Out(s)'
    BY <1>3 DEF Out
  <2>3. Awaited'
    BY <1>3, <2>2 DEF CreditPart, Awaited
  <2>4. PipeFits'
    BY <1>3 DEF CreditPart, PipeFits, NoRows, OneOfRows
  <2>5. QED
    BY <2>1, <2>3, <2>4
<1>9. \A s : Unserved(s) => Unserved(s)'
  BY <1>3, <1>7 DEF Unserved
<1>10. (\A i \in 1..Len(toPlugin) : Asks(i) => Unserved(toPlugin[i].id))'
  BY <1>2, <1>3, <1>9 DEF CreditPart, Begun, Asks
<1>11. CASE f.kind = "request"
  <2>1. Asks(1) /\ Asking
    BY <1>2, <1>11 DEF Asks, Asking
  <2>2. jobs = <<>> /\ ~Busy
    BY <1>4, <2>1 DEF Passed, Works
  <2>3. Unserved(f.id) /\ Out(f.id)
    BY <1>2, <1>3, <1>4, <2>1 DEF CreditPart, Begun, Asked
  <2>4. jobs'[1] \in pending
    <3>1. jobs' = <<f.id>>
      BY <1>3, <1>11, <2>2
    <3>2. QED
      BY <2>3, <3>1 DEF Unserved
  <2>5. Begun'
    BY <1>3, <1>10, <2>2, <2>4 DEF Begun, Busy
  <2>6. control'.id = IF f.id # Close THEN f.id ELSE control.id
    BY <1>3, <1>11 DEF Started
  <2>7. Unheard'
    BY <1>3, <1>7, <2>3, <2>6 DEF CreditPart, Unheard, Out
  <2>8. CreditAgrees'
    <3>1. CASE f.id = Close
      <4>1. control' = control
        BY <1>3, <1>11, <3>1
      <4>2. \A s \in Requests : GrantsTo(s)[f] = 0
        BY <1>2, <3>1, GrantsWeigh
      <4>3. \A s \in Requests : Weigh(GrantsTo(s))[toPlugin'] = Weigh(GrantsTo(s))[toPlugin]
        BY <1>5, <4>2
      <4>4. QED
        BY <1>3, <4>1, <4>3 DEF CreditPart, CreditAgrees, OnTheWay
    <3>2. CASE f.id # Close
      <4>1. SUFFICES ASSUME NEW s \in Statements \cap pending, s = f.id
                     PROVE  credit[s] = control'.left + OnTheWay(s)'
        BY <1>3, <2>6, <3>2 DEF CreditAgrees
      <4>2. control'.left = Window
        BY <1>3, <1>11, <3>2 DEF Started
      <4>3. /\ at[s] = "reading" /\ inbox[s] = <<>> /\ ~Granted(s) /\ fromPlugin = <<>>
        BY <2>3, <3>2, <4>1 DEF Out, Unserved
      <4>4. Weigh(Rows)[<<>>] = 0 /\ Weigh(RowsOf(s))[<<>>] = 0
        BY RowsWeigh, RowsOfWeigh, WeighParts
      <4>5. credit[s] + 0 = Window
        BY <1>1, <4>1, <4>3, <4>4 DEF CreditKept
      <4>6. Weigh(GrantsTo(s))[toPlugin'] = 0
        <5>1. toPlugin' \in Seq(Sent)
          BY <1>1, Taken
        <5>6. ~(Granted(s)')
          BY <1>7, <4>3
        <5>7. \A i \in 1..Len(toPlugin') : toPlugin'[i] \in Sent
          BY <5>1, ElementOfSeq
        <5>2. \A i \in 1..Len(toPlugin') : toPlugin'[i] \in Sent
                                           /\ ~(toPlugin'[i].id = s /\ toPlugin'[i].kind = "credit")
          BY <5>6, <5>7 DEF Granted
        <5>3. \A i \in 1..Len(toPlugin') : GrantsTo(s)[toPlugin'[i]] = 0
          BY <5>2, GrantsWeigh
        <5>4. GrantsTo(s) \in [Sent -> Int]
          BY GrantsWeigh
        <5>5. QED
          BY <5>1, <5>3, <5>4, WeighNothing
      <4>7. OnTheWay(s)' = 0 + 0
        <5>1. OnTheWay(s)' = Weigh(RowsOf(s))[fromPlugin'] + Weigh(GrantsTo(s))[toPlugin']
          BY DEF OnTheWay
        <5>2. QED
          BY <1>3, <4>3, <4>4, <4>6, <5>1
      <4>8. credit[s] \in Int /\ Window \in Int
        BY <1>1, <4>1, CreditAssumption DEF TypeOK
      <4>9. QED
        BY <4>2, <4>5, <4>7, <4>8
    <3>3. QED
      BY <3>1, <3>2
  <2>9. QED
    BY <1>8, <2>5, <2>7, <2>8 DEF CreditPart
<1>12. CASE f.kind # "request"
  <2>1. control'.id = control.id /\ jobs' = jobs
    BY <1>3, <1>6, <1>12
  <2>2. Begun'
    BY <1>3, <1>10, <2>1 DEF CreditPart, Begun, Busy
  <2>3. Unheard'
    BY <1>3, <1>7, <2>1 DEF CreditPart, Unheard
  <2>4. CreditAgrees'
    <3>1. SUFFICES ASSUME NEW s \in Statements \cap pending, control.id = s
                   PROVE  credit[s] = control'.left + OnTheWay(s)'
      BY <1>3, <2>1 DEF CreditAgrees
    <3>2. credit[s] = control.left + OnTheWay(s)
      BY <1>3, <3>1 DEF CreditPart, CreditAgrees
    <3>3. control'.left = control.left + GrantsTo(s)[f]
      <4>1. CASE f.kind = "credit" /\ f.id = s
        <5>1. GrantsTo(s)[f] = f.cost
          BY <1>2, <4>1, GrantsWeigh
        <5>2. control' = [control EXCEPT !.left = @ + f.cost]
          BY <1>3, <1>12, <3>1, <4>1
        <5>3. QED
          BY <1>6, <5>1, <5>2
      <4>2. CASE ~(f.kind = "credit" /\ f.id = s)
        <5>1. GrantsTo(s)[f] = 0
          BY <1>2, <4>2, GrantsWeigh
        <5>2. \/ control' = control \/ control' = [control EXCEPT !.stop = TRUE]
              \/ control' = [control EXCEPT !.cancel = TRUE]
          BY <1>3, <1>12, <3>1, <4>2
        <5>3. control'.left = control.left /\ control.left \in Int
          BY <1>6, <5>2
        <5>4. QED
          BY <5>1, <5>3
      <4>3. QED
        BY <4>1, <4>2
    <3>4. OnTheWay(s) = Weigh(RowsOf(s))[fromPlugin] + (GrantsTo(s)[f] + Weigh(GrantsTo(s))[toPlugin'])
          /\ OnTheWay(s)' = Weigh(RowsOf(s))[fromPlugin] + Weigh(GrantsTo(s))[toPlugin']
      BY <1>3, <1>5 DEF OnTheWay
    <3>5. Weigh(RowsOf(s))[fromPlugin] \in Nat /\ control.left \in Int
      BY <1>1, <1>6, PipesWeigh
    <3>6. Weigh(GrantsTo(s))[toPlugin'] \in Nat /\ GrantsTo(s)[f] \in Nat
      BY <1>5
    <3>7. QED
      BY <3>2, <3>3, <3>4, <3>5, <3>6
  <2>5. QED
    BY <1>8, <2>2, <2>3, <2>4 DEF CreditPart
<1>13. QED
  BY <1>11, <1>12

\* What the worker sends in answer ends what was out.
LEMMA AnswerCredit ==
  ASSUME Known, CreditPart, alive, ~Ending, ~Asking, jobs' = <<>>, ~Busy',
         NEW r \in pending, NEW kind \in Control,
         fromPlugin' = Append(fromPlugin, Answer(r, kind)),
         UNCHANGED <<caller, host, process, toPlugin, alive, control>>
  PROVE  CreditPart'
<1> USE IdsApart
<1> DEFINE f == Answer(r, kind)
<1>1. TypeOK /\ fromPlugin \in Seq(Frame) /\ reset = "no" /\ r \in Ids
  BY DEF Known, IInv, TypeOK, CreditPart, AliveUnreset
<1>2. f \in Frame /\ f.id = r /\ f.kind # "data" /\ fromPlugin' = Append(fromPlugin, f)
  BY <1>1, AnswerPlain DEF Answer, Plain, Control
<1>3. UNCHANGED <<at, inbox, closing, pending, credit, reset>>
  BY DEF caller, host, process
<1> HIDE DEF f
<1>4. /\ Len(fromPlugin') = Len(fromPlugin) + 1 /\ Len(fromPlugin) \in Nat
      /\ fromPlugin'[Len(fromPlugin) + 1] = f
      /\ \A i \in 1..Len(fromPlugin) : fromPlugin'[i] = fromPlugin[i]
  BY <1>1, <1>2, AppendParts
<1>5. \A i \in 1..Len(fromPlugin') : i \in 1..Len(fromPlugin) \/ i = Len(fromPlugin')
  BY <1>4
<1>6. Owed'
  <2>1. \A i \in 1..Len(fromPlugin') :
          /\ fromPlugin'[i].id \in pending
          /\ fromPlugin'[i].kind = "data" => fromPlugin'[i].id \in Statements
          /\ fromPlugin'[i].kind # "data" => i = Len(fromPlugin')
    BY <1>1, <1>2, <1>4, <1>5 DEF CreditPart, Owed, Ending, Ends
  <2>2. QED
    BY <1>3, <2>1 DEF Owed, Ends
<1>7. \A s : Weigh(RowsOf(s))[fromPlugin'] = Weigh(RowsOf(s))[fromPlugin]
  <2>1. SUFFICES ASSUME NEW s PROVE Weigh(RowsOf(s))[fromPlugin'] = Weigh(RowsOf(s))[fromPlugin]
    OBVIOUS
  <2>2. RowsOf(s)[f] = 0 /\ RowsOf(s) \in [Frame -> Int]
    BY <1>2, RowsOfWeigh
  <2>3. Weigh(RowsOf(s))[Append(fromPlugin, f)] = Weigh(RowsOf(s))[fromPlugin] + RowsOf(s)[f]
    BY <1>1, <1>2, <2>2, WeighAppend
  <2>4. Weigh(RowsOf(s))[fromPlugin] \in Nat
    BY <1>1, PipesWeigh
  <2>5. QED
    BY <1>2, <2>2, <2>3, <2>4
<1>8. PipeFits'
  <2>1. \A i \in 1..Len(fromPlugin') :
          fromPlugin'[i].kind = "data" => i \in 1..Len(fromPlugin) /\ fromPlugin'[i] = fromPlugin[i]
    BY <1>2, <1>4, <1>5
  <2>2. ASSUME NEW s PROVE (NoRows(s) => NoRows(s)') /\ (OneOfRows(s) => OneOfRows(s)')
    <3>1. NoRows(s) => NoRows(s)'
      BY <2>1 DEF NoRows
    <3>2. OneOfRows(s) => OneOfRows(s)'
      BY <2>1 DEF OneOfRows
    <3>3. QED
      BY <3>1, <3>2
  <2>3. QED
    BY <1>3, <1>7, <2>2 DEF CreditPart, PipeFits
<1>9. (AliveUnreset /\ NeverBroken /\ Unheard)'
  BY <1>3 DEF CreditPart, AliveUnreset, NeverBroken, Unheard, Granted
<1>10. Awaited'
  <2>1. \A s : Out(s) => Out(s)'
    BY <1>3 DEF Out
  <2>2. QED
    BY <1>3, <2>1 DEF CreditPart, Awaited
<1>11. Begun'
  <2>1. ~(Asking')
    BY DEF Asking, Asks
  <2>2. QED
    BY <2>1 DEF Begun, Asking
<1>12. CreditAgrees'
  BY <1>3, <1>7 DEF CreditPart, CreditAgrees, OnTheWay
<1>13. QED
  BY <1>6, <1>8, <1>9, <1>10, <1>11, <1>12 DEF CreditPart

LEMMA RepliesCredit == ASSUME Known, CreditPart, Reply \/ Goodbye PROVE CreditPart'
<1>1. BridgeType /\ HostPart
  BY DEF Known, BridgePart
<1>2. CASE Reply
  <2>1. /\ alive /\ worker.at = "settling" /\ worker' = Idle
        /\ fromPlugin' = Append(fromPlugin, Answer(worker.job, worker.reply))
        /\ UNCHANGED <<caller, host, process, toPlugin, alive, control, jobs>>
    BY <1>2 DEF Reply, At
  <2>2. Busy /\ worker.reply \in Control /\ ~Busy'
    BY <1>1, <2>1 DEF Busy, BridgeType, Idle
  <2>3. ~Asking /\ ~Ending /\ jobs = <<>>
    BY <1>1, <2>1, <2>2 DEF HostPart, OneRequest, Works, Answered
  <2>4. worker.job \in pending
    BY <2>1, <2>2 DEF CreditPart, Begun
  <2>5. QED
    BY <2>1, <2>2, <2>3, <2>4, AnswerCredit
<1>3. CASE Goodbye
  <2>1. /\ alive /\ worker.at = "idle" /\ jobs # <<>> /\ Head(jobs) = Close /\ jobs' = Tail(jobs)
        /\ worker' = [worker EXCEPT !.at = "gone"]
        /\ fromPlugin' = Append(fromPlugin, Answer(Close, "answer"))
        /\ UNCHANGED <<caller, host, process, toPlugin, alive, control>>
    BY <1>3 DEF Goodbye, At
  <2>2. jobs \in Seq(Ids) /\ Len(jobs) = 1 /\ ~Asking /\ ~Ending
    BY <1>1, <2>1 DEF BridgeType, HostPart, OneRequest, Passed, Answered
  <2>3. Len(jobs') = 0 /\ jobs' \in Seq(Ids) /\ Head(jobs) = jobs[1]
    BY <2>1, <2>2, TailParts
  <2>4. jobs' = <<>> /\ Close \in pending
    BY <2>1, <2>3, EmptySeq DEF CreditPart, Begun
  <2>5. ~Busy' /\ "answer" \in Control
    BY <1>1, <2>1 DEF Busy, BridgeType, Control
  <2>6. QED
    BY <2>1, <2>2, <2>4, <2>5, AnswerCredit
<1>4. QED
  BY <1>2, <1>3

\* What the reader routes leaves the pipe.
LEMMA RouteCredit == ASSUME Known, CreditPart, Route, UNCHANGED bridge PROVE CreditPart'
<1> USE IdsApart
<1>1. TypeOK /\ HostPart /\ HostPart' /\ fromPlugin \in Seq(Frame) /\ fromPlugin # <<>>
  BY RouteKeeps DEF Known, IInv, BridgePart, TypeOK, Route
<1>2. /\ UNCHANGED <<at, closing, reset, toPlugin, alive, control, jobs, worker>>
      /\ fromPlugin' = Tail(fromPlugin)
  BY DEF Route, caller, process, bridge
<1>3. Unheard' /\ AliveUnreset' /\ NeverBroken'
  BY <1>2 DEF CreditPart, Unheard, Granted, AliveUnreset, NeverBroken
<1>4. CASE reset # "no"
  <2>1. ~alive
    BY <1>4 DEF CreditPart, AliveUnreset
  <2>2. QED
    BY <1>2, <1>3, <1>4, <2>1 DEF CreditPart, Awaited, Owed, PipeFits, Begun, CreditAgrees
<1>5. CASE reset = "no"
  <2> DEFINE f == Head(fromPlugin)
  <2>1. /\ f \in Frame /\ f = fromPlugin[1] /\ 1 \in 1..Len(fromPlugin) /\ Len(fromPlugin) \in Nat
        /\ Len(fromPlugin') = Len(fromPlugin) - 1 /\ fromPlugin' \in Seq(Frame)
        /\ \A i \in 1..Len(fromPlugin') :
             i + 1 \in 1..Len(fromPlugin) /\ fromPlugin'[i] = fromPlugin[i + 1]
    BY <1>1, <1>2, TailParts
  <2>2. /\ f.id \in pending /\ Deliver(f)
        /\ pending' = IF f.kind = "data" THEN pending ELSE pending \ {f.id}
        /\ credit' = IF f.kind = "data" THEN [credit EXCEPT ![f.id] = @ - f.cost]
                     ELSE Without({f.id})
    BY DEF Route, Legal
  <2>3. \A s : /\ Weigh(RowsOf(s))[fromPlugin] = RowsOf(s)[f] + Weigh(RowsOf(s))[fromPlugin']
               /\ Weigh(RowsOf(s))[fromPlugin'] \in Nat /\ RowsOf(s)[f] \in Nat
    <3>1. SUFFICES ASSUME NEW s
                   PROVE /\ Weigh(RowsOf(s))[fromPlugin] = RowsOf(s)[f] + Weigh(RowsOf(s))[fromPlugin']
                         /\ Weigh(RowsOf(s))[fromPlugin'] \in Nat /\ RowsOf(s)[f] \in Nat
      OBVIOUS
    <3>2. RowsOf(s) \in [Frame -> Nat]
      BY RowsOfWeigh
    <3>3. QED
      BY <1>1, <1>2, <3>2, WeighTail
  <2>4. PICK g : g = f
    OBVIOUS
  <2>5. credit \in [Statements -> Int] /\ inbox \in [Ids -> Seq(Frame)]
    BY <1>1 DEF TypeOK
  <2> HIDE DEF f
  <2>6. CASE g.kind = "data"
    <3> DEFINE r == g.id
    <3>1. r \in Statements /\ r \in pending /\ RowsOf(r)[g] = g.cost /\ g.cost \in Nat \ {0}
          /\ pending' = pending
      <4>1. g = fromPlugin[1] /\ g \in Frame /\ 1 \in 1..Len(fromPlugin)
        BY <2>1, <2>4
      <4>2. \A i \in 1..Len(fromPlugin) :
              /\ fromPlugin[i].id \in pending
              /\ fromPlugin[i].kind = "data" => fromPlugin[i].id \in Statements
        BY <1>5 DEF CreditPart, Owed
      <4>3. r \in Statements /\ r \in pending
        BY <2>6, <4>1, <4>2
      <4>4. RowsOf(r)[g] = g.cost /\ g.cost \in Nat \ {0}
        BY <2>6, <4>1, RowsOfWeigh
      <4>5. pending' = pending
        BY <2>2, <2>4, <2>6
      <4>6. QED
        BY <4>3, <4>4, <4>5
    <3>2. /\ credit'[r] = credit[r] - g.cost
          /\ \A s \in Statements \ {r} : credit'[s] = credit[s]
      BY <2>2, <2>4, <2>5, <2>6, <3>1
    <3>3. \A s : s # r => RowsOf(s)[g] = 0
      BY <2>1, <2>4, RowsOfWeigh
    <3>4. \A s \in Statements : Weigh(RowsOf(s))[fromPlugin'] =
             IF s = r THEN Weigh(RowsOf(s))[fromPlugin] - g.cost ELSE Weigh(RowsOf(s))[fromPlugin]
      BY <2>3, <2>4, <3>1, <3>3
    <3> HIDE DEF r
    <3>5. Owed'
      <4>1. \A i \in 1..Len(fromPlugin') :
              /\ fromPlugin'[i].id \in pending
              /\ fromPlugin'[i].kind = "data" => fromPlugin'[i].id \in Statements
              /\ fromPlugin'[i].kind # "data" => i + 1 = Len(fromPlugin)
        BY <1>5, <2>1 DEF CreditPart, Owed, Ends
      <4>2. QED
        BY <2>1, <3>1, <4>1 DEF Owed, Ends
    <3>6. Awaited'
      <4>1. SUFFICES ASSUME NEW s \in pending PROVE Out(s)'
        BY <3>1 DEF Awaited
      <4>2. Out(s) /\ s \in Ids
        BY <1>1, <1>5 DEF CreditPart, Awaited, TypeOK
      <4>3. CASE s = Close
        BY <1>2, <4>2, <4>3 DEF Out
      <4>4. CASE s # Close
        <5>1. /\ Len(Append(inbox[s], g)) = Len(inbox[s]) + 1 /\ Len(inbox[s]) \in Nat
              /\ Append(inbox[s], g)[Len(inbox[s]) + 1] = g
              /\ \A i \in 1..Len(inbox[s]) : Append(inbox[s], g)[i] = inbox[s][i]
          BY <2>1, <2>4, <2>5, <4>2, AppendParts
        <5>2. inbox'[s] = inbox[s] \/ inbox'[s] = Append(inbox[s], g)
          BY <2>2, <2>4, <2>5, <4>2 DEF Deliver
        <5>3. \A i \in 1..Len(inbox[s]) : inbox[s][i].kind = "data"
          BY <4>2, <4>4 DEF Out
        <5>4. \A i \in 1..Len(Append(inbox[s], g)) : i \in 1..Len(inbox[s]) \/ i = Len(inbox[s]) + 1
          BY <5>1
        <5>5. \A i \in 1..Len(Append(inbox[s], g)) : Append(inbox[s], g)[i].kind = "data"
          BY <2>6, <5>1, <5>3, <5>4
        <5>6. \A i \in 1..Len(inbox'[s]) : inbox'[s][i].kind = "data"
          BY <5>2, <5>3, <5>5
        <5>7. QED
          BY <1>2, <4>2, <4>4, <5>6 DEF Out
      <4>5. QED
        BY <4>3, <4>4
    <3>7. PipeFits'
      <4>1. SUFFICES ASSUME NEW s \in Statements \cap pending
                     PROVE  \/ NoRows(s)'
                            \/ Weigh(RowsOf(s))[fromPlugin'] <= credit'[s]
                            \/ OneOfRows(s)' /\ credit'[s] = Window
        BY <3>1 DEF PipeFits
      <4>2. \/ NoRows(s)
            \/ Weigh(RowsOf(s))[fromPlugin] <= credit[s]
            \/ OneOfRows(s) /\ credit[s] = Window
        BY <1>5 DEF CreditPart, PipeFits
      <4>3. NoRows(s) => NoRows(s)'
        BY <2>1 DEF NoRows
      <4>4. OneOfRows(s) => OneOfRows(s)'
        <5>1. SUFFICES ASSUME OneOfRows(s),
                              NEW i \in 1..Len(fromPlugin'), NEW j \in 1..Len(fromPlugin'),
                              fromPlugin'[i].id = s /\ fromPlugin'[i].kind = "data",
                              fromPlugin'[j].id = s /\ fromPlugin'[j].kind = "data"
                       PROVE  i = j
          BY DEF OneOfRows
        <5>2. /\ i + 1 \in 1..Len(fromPlugin) /\ fromPlugin[i + 1].id = s
              /\ fromPlugin[i + 1].kind = "data"
          BY <2>1, <5>1
        <5>3. /\ j + 1 \in 1..Len(fromPlugin) /\ fromPlugin[j + 1].id = s
              /\ fromPlugin[j + 1].kind = "data"
          BY <2>1, <5>1
        <5>4. i + 1 = j + 1
          BY <5>1, <5>2, <5>3 DEF OneOfRows
        <5>5. QED
          BY <5>4
      <4>5. CASE s # r
        BY <3>2, <3>4, <4>2, <4>3, <4>4, <4>5
      <4>6. CASE s = r
        <5>1. ~NoRows(s)
          BY <2>1, <2>4, <2>6, <4>6 DEF NoRows, r
        <5>2. OneOfRows(s) => NoRows(s)'
          <6>1. SUFFICES ASSUME OneOfRows(s), NEW i \in 1..Len(fromPlugin'),
                                fromPlugin'[i].id = s /\ fromPlugin'[i].kind = "data"
                         PROVE  FALSE
            BY DEF NoRows
          <6>2. /\ i + 1 \in 1..Len(fromPlugin) /\ fromPlugin[i + 1].id = s
                /\ fromPlugin[i + 1].kind = "data" /\ fromPlugin[1].id = s
                /\ fromPlugin[1].kind = "data" /\ 1 \in 1..Len(fromPlugin)
            BY <2>1, <2>4, <2>6, <4>6, <6>1 DEF r
          <6>3. i + 1 = 1
            BY <6>1, <6>2 DEF OneOfRows
          <6>4. QED
            BY <6>3
        <5>3. credit[s] \in Int /\ Weigh(RowsOf(s))[fromPlugin] \in Nat
          BY <1>1, <2>5, PipesWeigh
        <5>4. Weigh(RowsOf(s))[fromPlugin] <= credit[s] => Weigh(RowsOf(s))[fromPlugin'] <= credit'[s]
          BY <3>1, <3>2, <3>4, <4>6, <5>3
        <5>5. QED
          BY <4>2, <5>1, <5>2, <5>4
      <4>7. QED
        BY <4>5, <4>6
    <3>8. CreditAgrees'
      <4>1. SUFFICES ASSUME NEW s \in Statements \cap pending, alive, control.id = s
                     PROVE  credit'[s] = control.left + OnTheWay(s)'
        BY <1>2, <3>1 DEF CreditAgrees
      <4>2. credit[s] = control.left + OnTheWay(s)
        BY <4>1 DEF CreditPart, CreditAgrees
      <4>3. OnTheWay(s)' = Weigh(RowsOf(s))[fromPlugin'] + Weigh(GrantsTo(s))[toPlugin]
        BY <1>2 DEF OnTheWay
      <4>4. /\ credit[s] \in Int /\ Weigh(RowsOf(s))[fromPlugin] \in Nat
            /\ Weigh(GrantsTo(s))[toPlugin] \in Nat /\ control.left \in Int
        BY <1>1, <2>5, PipesWeigh DEF Known, BridgePart, BridgeType
      <4>5. QED
        BY <3>1, <3>2, <3>4, <4>2, <4>3, <4>4 DEF OnTheWay
    <3>9. Begun'
      <4>1. SUFFICES ASSUME alive PROVE Begun'
        BY <1>2 DEF Begun
      <4>2. ~Asking
        BY <1>1, <4>1 DEF CreditPart, Begun, Asking, Unserved
      <4>3. ~(Asking')
        BY <1>2, <4>2 DEF Asking, Asks
      <4>4. QED
        BY <1>2, <3>1, <4>1, <4>3 DEF CreditPart, Begun, Asking, Busy
    <3>10. QED
      BY <1>3, <3>5, <3>6, <3>7, <3>8, <3>9 DEF CreditPart
  <2>7. CASE g.kind # "data"
    <3>1. pending' = pending \ {g.id} /\ credit' = Without({g.id})
      BY <2>2, <2>4, <2>7
    <3>2. fromPlugin' = <<>> /\ Len(fromPlugin') = 0
      <4>1. Ends(1)
        BY <2>1, <2>4, <2>7 DEF Ends
      <4>2. Len(fromPlugin) = 1
        BY <1>5, <2>1, <4>1 DEF CreditPart, Owed
      <4>3. Len(fromPlugin') = 0
        BY <2>1, <4>2
      <4>4. QED
        BY <2>1, <4>3, EmptySeq
    <3>3. Owed' /\ PipeFits'
      BY <3>2 DEF Owed, PipeFits, NoRows
    <3>4. Awaited'
      <4>1. SUFFICES ASSUME NEW s \in pending, s # g.id PROVE Out(s)'
        BY <3>1 DEF Awaited
      <4>2. Out(s) /\ s \in Ids
        BY <1>1, <1>5 DEF CreditPart, Awaited, TypeOK
      <4>3. inbox'[s] = inbox[s]
        BY <2>2, <2>4, <2>5, <4>1, <4>2 DEF Deliver
      <4>4. QED
        BY <1>2, <4>2, <4>3 DEF Out
    <3>5. Begun'
      <4>1. SUFFICES ASSUME alive PROVE Begun'
        BY <1>2 DEF Begun
      <4>2. Ending
        BY <2>1, <2>4, <2>7 DEF Ending, Ends
      <4>3. jobs = <<>> /\ ~Asking /\ ~Busy
        BY <1>1, <4>1, <4>2 DEF HostPart, OneRequest, Answered
      <4>4. ~(Asking') /\ ~(Busy') /\ jobs' = <<>>
        BY <1>2, <4>3 DEF Asking, Asks, Busy
      <4>5. QED
        BY <4>4 DEF Begun, Asking
    <3>6. CreditAgrees'
      <4>1. SUFFICES ASSUME NEW s \in Statements, s \in pending, s # g.id, alive, control.id = s
                     PROVE  credit'[s] = control.left + OnTheWay(s)'
        BY <1>2, <3>1 DEF CreditAgrees
      <4>2. credit[s] = control.left + OnTheWay(s)
        BY <4>1 DEF CreditPart, CreditAgrees
      <4>3. credit'[s] = credit[s]
        BY <3>1, <4>1 DEF Without
      <4>4. RowsOf(s)[f] = 0
        BY <2>1, <2>4, <2>7, RowsOfWeigh
      <4>5. Weigh(RowsOf(s))[fromPlugin'] = Weigh(RowsOf(s))[fromPlugin]
        BY <2>3, <4>4
      <4>6. OnTheWay(s)' = OnTheWay(s)
        BY <1>2, <4>5 DEF OnTheWay
      <4>7. QED
        BY <4>2, <4>3, <4>6
    <3>7. QED
      BY <1>3, <3>3, <3>4, <3>5, <3>6 DEF CreditPart
  <2>8. QED
    BY <2>6, <2>7
<1>6. QED
  BY <1>4, <1>5

\* A batch goes when it fits what the bridge knows of its credit, which is no
\* more than the host has.
LEMMA TakeCreditCredit == ASSUME Known, CreditPart, TakeCredit PROVE CreditPart'
<1> USE IdsApart
<1>1. /\ TypeOK /\ BridgeType /\ HostPart /\ CreditKept
      /\ fromPlugin \in Seq(Frame) /\ credit \in [Statements -> Int]
  BY DEF Known, IInv, BridgePart, TypeOK, Counted
<1>2. /\ alive /\ worker.at = "sending"
      /\ UNCHANGED <<at, inbox, closing, pending, credit, reset, toPlugin, alive, jobs>>
  BY DEF TakeCredit, At, caller, host, process
<1>3. Busy /\ worker.job \in Statements /\ worker.cost \in Costs /\ worker \in Workers
  BY <1>1, <1>2 DEF Busy, BridgeType, Workers
<1>4. reset = "no" /\ worker.job \in pending /\ Out(worker.job)
      /\ worker.job = control.id /\ jobs = <<>> /\ ~Asking /\ ~Ending
  BY <1>1, <1>2, <1>3 DEF CreditPart, AliveUnreset, Begun, HostPart, OneRequest, Works, Answered
<1>5. control \in [id : Ids \cup {Nobody}, left : Int, stop : BOOLEAN, cancel : BOOLEAN,
                   published : BOOLEAN]
  BY <1>1 DEF BridgeType
<1>6. \A s : Out(s) => Out(s)'
  BY <1>2 DEF Out
<1>7. Awaited'
  BY <1>2, <1>6 DEF CreditPart, Awaited
<1>8. worker'.job = worker.job
  <2>1. CASE worker' = [worker EXCEPT !.at = "settling", !.reply = "error"]
    BY <1>3, <2>1 DEF Workers
  <2>2. CASE worker' = [worker EXCEPT !.at = "ready", !.draining = TRUE]
    BY <1>3, <2>2 DEF Workers
  <2>3. CASE worker' = [worker EXCEPT !.at = "ready", !.sent = @ + 1]
    BY <1>3, <2>3 DEF Workers
  <2>4. QED
    BY <2>1, <2>2, <2>3 DEF TakeCredit
<1>9. CASE UNCHANGED <<control, fromPlugin>>
  <2>1. reset = "no" => \A s \in pending : Out(s)'
    BY <1>2, <1>6 DEF CreditPart, Awaited
  <2>2. alive => /\ jobs' # <<>> => jobs'[1] \in pending
                 /\ Busy' => worker'.job \in pending
    BY <1>2, <1>4, <1>8
  <2>3. QED
    BY <1>1, <1>2, <1>9, <2>1, <2>2, QuietCredit DEF Written
<1>10. CASE /\ Fits(worker.cost, control.left)
            /\ control' = [control EXCEPT !.left = @ - worker.cost]
            /\ fromPlugin' = Append(fromPlugin, Data(worker.job, worker.cost))
  <2>1. PICK r, c, f : r = worker.job /\ c = worker.cost /\ f = Data(r, c)
    OBVIOUS
  <2>2. /\ f \in Frame /\ f.id = r /\ f.kind = "data" /\ f.cost = c /\ c \in Nat \ {0}
        /\ r \in Statements /\ r \in pending /\ control.id = r
    BY <1>3, <1>4, <2>1, DataPlain, CreditAssumption DEF Data, Plain
  <2>3. /\ Fits(c, control.left) /\ fromPlugin' = Append(fromPlugin, f)
        /\ control'.id = control.id /\ control'.left = control.left - c
        /\ control.left \in Int
    BY <1>5, <1>10, <2>1, <2>2
  <2>4. /\ Len(fromPlugin') = Len(fromPlugin) + 1 /\ Len(fromPlugin) \in Nat
        /\ fromPlugin'[Len(fromPlugin) + 1] = f
        /\ \A i \in 1..Len(fromPlugin) : fromPlugin'[i] = fromPlugin[i]
    BY <1>1, <2>2, <2>3, AppendParts
  <2>5. \A i \in 1..Len(fromPlugin') :
          (i \in 1..Len(fromPlugin) /\ fromPlugin'[i] = fromPlugin[i]) \/ fromPlugin'[i] = f
    <3>1. \A i \in 1..Len(fromPlugin') : i \in 1..Len(fromPlugin) \/ i = Len(fromPlugin) + 1
      BY <2>4
    <3>2. QED
      BY <2>4, <3>1
  <2>6. \A s \in Statements :
          /\ Weigh(RowsOf(s))[fromPlugin'] =
               Weigh(RowsOf(s))[fromPlugin] + (IF s = r THEN c ELSE 0)
          /\ Weigh(RowsOf(s))[fromPlugin] \in Nat /\ Weigh(GrantsTo(s))[toPlugin] \in Nat
    <3>1. SUFFICES ASSUME NEW s \in Statements
                   PROVE /\ Weigh(RowsOf(s))[fromPlugin'] =
                              Weigh(RowsOf(s))[fromPlugin] + (IF s = r THEN c ELSE 0)
                         /\ Weigh(RowsOf(s))[fromPlugin] \in Nat
                         /\ Weigh(GrantsTo(s))[toPlugin] \in Nat
      OBVIOUS
    <3>2. RowsOf(s)[f] = IF s = r THEN c ELSE 0
      BY <2>2, RowsOfWeigh
    <3>3. RowsOf(s) \in [Frame -> Int]
      BY RowsOfWeigh
    <3>4. Weigh(RowsOf(s))[Append(fromPlugin, f)] = Weigh(RowsOf(s))[fromPlugin] + RowsOf(s)[f]
      BY <1>1, <2>2, <3>3, WeighAppend
    <3>5. QED
      BY <1>1, <2>3, <3>2, <3>4, PipesWeigh
  <2>7. credit[r] = control.left + OnTheWay(r)
    BY <1>2, <2>2 DEF CreditPart, CreditAgrees
  <2>8. Owed'
    <3>1. \A i \in 1..Len(fromPlugin) : fromPlugin[i].kind = "data"
      BY <1>4 DEF Ending, Ends
    <3>2. \A i \in 1..Len(fromPlugin') :
            /\ fromPlugin'[i].id \in pending /\ fromPlugin'[i].kind = "data"
            /\ fromPlugin'[i].id \in Statements
      BY <1>4, <2>2, <2>5, <3>1 DEF CreditPart, Owed
    <3>3. QED
      BY <1>2, <3>2 DEF Owed, Ends
  <2>9. PipeFits'
    <3>1. SUFFICES ASSUME NEW s \in Statements \cap pending
                   PROVE  \/ NoRows(s)'
                          \/ Weigh(RowsOf(s))[fromPlugin'] <= credit[s]
                          \/ OneOfRows(s)' /\ credit[s] = Window
      BY <1>2 DEF PipeFits
    <3>2. \/ NoRows(s)
          \/ Weigh(RowsOf(s))[fromPlugin] <= credit[s]
          \/ OneOfRows(s) /\ credit[s] = Window
      BY <1>4 DEF CreditPart, PipeFits
    <3>3. CASE s # r
      <4>1. Weigh(RowsOf(s))[fromPlugin'] = Weigh(RowsOf(s))[fromPlugin]
        BY <2>6, <3>3
      <4>2. \A i \in 1..Len(fromPlugin') :
              fromPlugin'[i].id = s => i \in 1..Len(fromPlugin) /\ fromPlugin'[i] = fromPlugin[i]
        BY <2>2, <2>5, <3>3
      <4>3. NoRows(s) => NoRows(s)'
        BY <4>2 DEF NoRows
      <4>4. OneOfRows(s) => OneOfRows(s)'
        BY <4>2 DEF OneOfRows
      <4>5. QED
        BY <3>2, <4>1, <4>3, <4>4
    <3>4. CASE s = r /\ c <= control.left
      <4>1. Weigh(RowsOf(r))[fromPlugin'] <= credit[r]
        <5>1. /\ Weigh(RowsOf(r))[fromPlugin'] = Weigh(RowsOf(r))[fromPlugin] + c
              /\ Weigh(RowsOf(r))[fromPlugin] \in Nat /\ Weigh(GrantsTo(r))[toPlugin] \in Nat
          BY <2>2, <2>6
        <5>2. QED
          BY <2>2, <2>3, <2>7, <3>4, <5>1 DEF OnTheWay
      <4>2. QED
        BY <3>4, <4>1
    <3>5. CASE s = r /\ control.left = Window
      <4>1. at[r] = "reading"
        BY <1>4, <2>1, <2>2 DEF Out
      <4>2. credit[r] + Weigh(Rows)[inbox[r]] = Window
        BY <1>1, <2>2, <4>1 DEF CreditKept
      <4>3. /\ Weigh(Rows)[inbox[r]] \in Nat /\ Window \in Int /\ credit[r] \in Int
            /\ Weigh(RowsOf(r))[fromPlugin] \in Nat /\ Weigh(GrantsTo(r))[toPlugin] \in Nat
        BY <1>1, <2>2, <2>6, HeldTyped, CreditAssumption
      <4>4. Weigh(RowsOf(r))[fromPlugin] = 0 /\ credit[r] = Window
        <5>1. credit[r] = Window + (Weigh(RowsOf(r))[fromPlugin] + Weigh(GrantsTo(r))[toPlugin])
          BY <2>7, <3>5 DEF OnTheWay
        <5>2. \A a, b, h \in Nat : \A m, n \in Int :
                m = n + (a + b) /\ m + h = n => a = 0 /\ m = n
          OBVIOUS
        <5>3. \A a, b, h, m, n : (a \in Nat /\ b \in Nat /\ h \in Nat /\ m \in Int /\ n \in Int
                 /\ m = n + (a + b) /\ m + h = n) => a = 0 /\ m = n
          BY <5>2
        <5>4. PICK a, b, h, m : /\ a = Weigh(RowsOf(r))[fromPlugin] /\ b = Weigh(GrantsTo(r))[toPlugin]
                                /\ h = Weigh(Rows)[inbox[r]] /\ m = credit[r]
          OBVIOUS
        <5>5. a \in Nat /\ b \in Nat /\ h \in Nat /\ m \in Int /\ Window \in Int
              /\ m = Window + (a + b) /\ m + h = Window
          BY <4>2, <4>3, <5>1, <5>4
        <5>6. a = 0 /\ m = Window
          BY <5>3, <5>5
        <5>7. QED
          BY <5>4, <5>6
      <4>5. NoRows(r)
        <5>1. SUFFICES ASSUME NEW i \in 1..Len(fromPlugin), fromPlugin[i].id = r,
                              fromPlugin[i].kind = "data"
                       PROVE  FALSE
          BY DEF NoRows
        <5>2. fromPlugin[i] \in Frame
          BY <1>1, ElementOfSeq
        <5>3. RowsOf(r)[fromPlugin[i]] \in Nat \ {0}
          BY <5>1, <5>2, RowsOfWeigh
        <5>4. RowsOf(r)[fromPlugin[i]] <= 0
          BY <1>1, <4>4, RowsOfWeigh, WeighNat
        <5>5. QED
          BY <5>3, <5>4
      <4>6. OneOfRows(r)'
        <5>1. \A i \in 1..Len(fromPlugin') :
                fromPlugin'[i].id = r /\ fromPlugin'[i].kind = "data" => i = Len(fromPlugin) + 1
          <6>1. \A i \in 1..Len(fromPlugin') : i \in 1..Len(fromPlugin) \/ i = Len(fromPlugin) + 1
            BY <2>4
          <6>2. QED
            BY <2>4, <4>5, <6>1 DEF NoRows
        <5>2. QED
          BY <5>1 DEF OneOfRows
      <4>7. QED
        BY <3>5, <4>4, <4>6
    <3>6. QED
      BY <2>3, <3>3, <3>4, <3>5 DEF Fits
  <2>10. CreditAgrees'
    <3>1. SUFFICES credit[r] = control'.left + OnTheWay(r)'
      BY <1>2, <2>2, <2>3 DEF CreditAgrees
    <3>2. OnTheWay(r)' = Weigh(RowsOf(r))[fromPlugin'] + Weigh(GrantsTo(r))[toPlugin]
      BY <1>2 DEF OnTheWay
    <3>3. Weigh(RowsOf(r))[fromPlugin'] = Weigh(RowsOf(r))[fromPlugin] + c
          /\ Weigh(RowsOf(r))[fromPlugin] \in Nat /\ Weigh(GrantsTo(r))[toPlugin] \in Nat
      BY <2>2, <2>6
    <3>4. QED
      BY <2>2, <2>3, <2>7, <3>2, <3>3 DEF OnTheWay
  <2>11. Begun'
    <3>1. ~(Asking') /\ jobs' = <<>>
      BY <1>2, <1>4 DEF Asking, Asks
    <3>2. worker'.job \in pending'
      BY <1>2, <1>4, <1>8
    <3>3. QED
      BY <3>1, <3>2 DEF Begun, Asking
  <2>12. (AliveUnreset /\ NeverBroken)'
    BY <1>2 DEF CreditPart, AliveUnreset, NeverBroken
  <2>13. Unheard'
    BY <1>2, <2>3 DEF CreditPart, Unheard, Granted
  <2>14. QED
    BY <1>7, <2>8, <2>9, <2>10, <2>11, <2>12, <2>13 DEF CreditPart
<1>11. QED
  BY <1>9, <1>10 DEF TakeCredit

LEMMA GoesCredit == ASSUME Known, CreditPart, Exit \/ Crash PROVE CreditPart'
<1>1. /\ ~alive' /\ toPlugin' = <<>>
      /\ UNCHANGED <<at, inbox, pending, credit, fromPlugin, reset, closing, control>>
  BY DEF Exit, Crash, PluginDies, caller, host, process, bridge
<1>2. QED
  BY <1>1, DiesCredit

LEMMA CreditSteps ==
  ASSUME Known, CreditPart, [BridgeNext]_allVars
  PROVE  CreditPart'
<1>1. CASE HostNext /\ UNCHANGED bridge
  <2>1. CASE Threads
    BY <1>1, <2>1, RouteCredit, BreakCredit, EndCredit, LookCredit, DropCredit DEF Threads
  <2>2. ASSUME NEW r \in Requests, Caller(r) PROVE CreditPart'
    <3>1. CASE CallDeadline(r)
      <4>1. \E s \in Requests : CallDeadline(s) \/ (Deadline(s) /\ s \in pending)
        BY <3>1
      <4>2. QED
        BY <1>1, <4>1, EndCredit
    <3>2. CASE ~CallDeadline(r)
      <4>1. CASE \/ Start(r) \/ Refuse(r) \/ GiveUp(r) \/ HandOn(r)
                 \/ TakeAnswer(r) \/ TakeReset(r) \/ Release(r)
        BY <1>1, <4>1, StartCredit, LeavesCredit, HandOnCredit
      <4>2. CASE TellStop(r)
        <5>1. \E s \in Requests : TellStop(s) \/ Cancel(s) \/ (Deadline(s) /\ s \notin pending)
          BY <4>2
        <5>2. QED
          BY <1>1, <5>1, LookCredit
      <4>3. QED
        BY <2>2, <3>2, <4>1, <4>2 DEF Caller
    <3>3. QED
      BY <3>1, <3>2
  <2>3. ASSUME NEW r \in Requests, Cancel(r) \/ Deadline(r) PROVE CreditPart'
    <3>1. CASE Deadline(r) /\ r \in pending
      <4>1. \E s \in Requests : CallDeadline(s) \/ (Deadline(s) /\ s \in pending)
        BY <3>1
      <4>2. QED
        BY <1>1, <4>1, EndCredit
    <3>2. CASE ~(Deadline(r) /\ r \in pending)
      <4>1. \E s \in Requests : TellStop(s) \/ Cancel(s) \/ (Deadline(s) /\ s \notin pending)
        BY <2>3, <3>2
      <4>2. QED
        BY <1>1, <4>1, LookCredit
    <3>3. QED
      BY <3>1, <3>2
  <2>4. QED
    BY <1>1, <2>1, <2>2, <2>3 DEF HostNext
<1>2. CASE ReadFrame
  BY <1>2, ReadFrameCredit
<1>3. CASE TakeCredit
  BY <1>3, TakeCreditCredit
<1>4. CASE Reply \/ Goodbye
  BY <1>4, RepliesCredit
<1>5. CASE Exit \/ Crash
  BY <1>5, GoesCredit
<1>6. CASE Cancelled \/ TakeJob \/ Call \/ Returns \/ Unpublish \/ UNCHANGED allVars
  BY <1>6, StepCredit
<1>7. QED
  BY <1>1, <1>2, <1>3, <1>4, <1>5, <1>6 DEF BridgeNext, Worker

\* The host counts a bridge's rows as it counts any plugin's.
LEMMA BridgeCounted ==
  ASSUME IInv, Counted, [BridgeNext]_allVars
  PROVE  Counted'
<1>1. CASE HostNext
  BY <1>1, NextCounted DEF Next
<1>2. CASE ~HostNext
  <2> DEFINE S == {}
  <2>1. UNCHANGED <<caller, host>>
    BY <1>2 DEF BridgeNext, ReadFrame, Cancelled, Worker, TakeJob, Call, Returns, Unpublish,
       TakeCredit, Reply, Goodbye, Exit, Crash, PluginDies, allVars, vars, caller, host
  <2>2. UNCHANGED <<at, inbox, credit>> /\ pending' = pending \cup S
    BY <2>1 DEF caller, host
  <2>3. S \cap Statements = {}
    OBVIOUS
  <2> HIDE DEF S
  <2>4. QED
    BY <2>2, <2>3, SameCounted
<1>3. QED
  BY <1>1, <1>2

LEMMA CreditInvariant == BridgeSpec => [](Known /\ CreditPart)
<1>1. BridgeInit => Known /\ CreditPart
  BY BridgeInits, InitCounted, InitCredit DEF Known, BridgeIInv, BridgePart, HostPart, BridgeInit
<1>2. Known /\ CreditPart /\ [BridgeNext]_allVars => Known' /\ CreditPart'
  BY BridgeSteps, BridgeCounted, CreditSteps DEF Known
<1>3. QED
  BY <1>1, <1>2, PTL DEF BridgeSpec

\* What host and bridge count of a statement's credit differ by what is on
\* its way between them and nothing else, whatever is stopped or cancelled in
\* between and whatever a batch costs.
THEOREM CountsAgree == BridgeSpec => []CreditAgrees
<1>1. CreditPart => CreditAgrees
  BY DEF CreditPart
<1>2. QED
  BY <1>1, CreditInvariant, PTL

\* So the host finds nothing wrong with what the bridge sends: no frame of a
\* request that is over, no rows beyond the credit, nothing behind an answer.
THEOREM BridgeObeys == BridgeSpec => []NeverBroken
<1>1. CreditPart => NeverBroken
  BY DEF CreditPart
<1>2. QED
  BY <1>1, CreditInvariant, PTL

=============================================================================
