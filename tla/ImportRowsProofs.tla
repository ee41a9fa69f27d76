-------------------------- MODULE ImportRowsProofs --------------------------
(***************************************************************************)
(* For every number of chunks and rows.  That an import under All or       *)
(* nothing keeps the whole file or none of it, and that what is said of an *)
(* import is what the table has, where the driver of an import under All   *)
(* or nothing does not log in again behind its back.  That what is counted *)
(* stays within the plan and that a COMMIT is spared a Cancel, on every    *)
(* driver.                                                                 *)
(***************************************************************************)
EXTENDS ImportRows, TLAPS

EndType == [is : {"none", "imported", "cancelled", "failed"},
            count : [chunks : Nat, part : Nat]]
RunType == [atomic : BOOLEAN, begun : BOOLEAN, landed : Nat, partial : Nat,
            cancelled : BOOLEAN, failed : BOOLEAN, outcome : EndType]
AnswerType == [is : {"none", "ok", "error", "cancelled"}, applied : Nat]

\* As much of the types as the argument needs.
Typed ==
  /\ run \in RunType
  /\ answer \in AnswerType /\ (answer.is = "none" => answer = NoAnswer)
  /\ kept \in [chunks : Nat, part : Nat]
  /\ staged \in Nat
  /\ tx \in BOOLEAN

\* Nothing is kept, and nothing has landed, before the first step.
Unstarted ==
  /\ dialog = "editing" => task = "none"
  /\ dialog = "editing" \/ task = "opening" =>
       kept = Nothing /\ run.landed = 0 /\ ~run.begun /\ answer.is = "none"

\* A transaction that was begun is there, and empty.
BeginOut ==
  task = "begin" =>
    /\ kept = Nothing /\ run.landed = 0
    /\ answer.is = "ok" => tx /\ staged = 0 /\ session = "open"

\* While a chunk is out, the transaction holds those that landed; with its
\* answer, one more.
ChunkOut ==
  task = "chunk" =>
    /\ kept = Nothing /\ run.begun /\ run.landed < Chunks
    /\ answer.is = "none" /\ session = "open" => tx /\ staged = run.landed
    /\ answer.is = "ok" => tx /\ staged = run.landed + 1 /\ session = "open"

\* A COMMIT is sent over every chunk, and nothing is kept until it is.
CommitOut ==
  task = "commit" =>
    /\ run.begun /\ run.landed = Chunks
    /\ answer.is = "none" => kept = Nothing /\ (tx => staged = Chunks)

Whole1 == kept = Nothing \/ kept = Whole

\* What holds of an import under All or nothing.
Atomic ==
  run.atomic =>
    /\ ~relogin
    /\ Unstarted /\ BeginOut /\ ChunkOut /\ CommitOut /\ Whole1

IInv == Typed /\ Atomic

LEMMA EndedType ==
  ASSUME NEW is \in {"imported", "cancelled", "failed"}, NEW chunks \in Nat, NEW part \in Nat
  PROVE  Ended(is, chunks, part) \in EndType /\ Ended(is, chunks, part) # NoOutcome
  BY DEF Ended, EndType, NoOutcome

LEMMA SettleType ==
  ASSUME NEW r \in RunType
  PROVE  /\ Settle(r) \in RunType
         /\ Settle(r).atomic = r.atomic
         /\ r.atomic => Settle(r) = r
<1>1. CASE r.atomic
  BY <1>1 DEF Settle
<1>2. CASE ~r.atomic
  <2>1. /\ Ended("failed", r.landed, r.partial) \in EndType
        /\ Ended("imported", r.landed, 0) \in EndType
        /\ Ended("cancelled", r.landed, r.partial) \in EndType
    BY EndedType DEF RunType
  <2>2. NoOutcome \in EndType
    BY DEF NoOutcome, Nothing, EndType
  <2>3. PICK o \in EndType : Settle(r) = [r EXCEPT !.outcome = o]
    BY <1>2, <2>1, <2>2 DEF Settle
  <2>4. QED
    BY <1>2, <2>3 DEF RunType
<1>3. QED
  BY <1>1, <1>2 DEF RunType

LEMMA CancelRunType ==
  ASSUME NEW r \in RunType
  PROVE  /\ CancelRun(r) \in RunType
         /\ CancelRun(r).atomic = r.atomic
         /\ r.atomic => CancelRun(r) = r \/ CancelRun(r) = [r EXCEPT !.cancelled = TRUE]
<1>1. [r EXCEPT !.cancelled = TRUE] \in RunType /\ [r EXCEPT !.cancelled = TRUE].atomic = r.atomic
  BY DEF RunType
<1>2. QED
  BY <1>1, SettleType DEF CancelRun

LEMMA LandedOkType ==
  ASSUME NEW r \in RunType, NEW step \in Steps
  PROVE  LandedOk(r, step) \in RunType /\ LandedOk(r, step).atomic = r.atomic
<1>1. CASE step = "begin"
  BY <1>1 DEF LandedOk, RunType
<1>2. CASE step = "chunk"
  BY <1>2 DEF LandedOk, RunType
<1>3. CASE step = "commit"
  <2>1. Ended("imported", r.landed, 0) \in EndType
    BY EndedType DEF RunType
  <2>2. QED
    BY <1>3, <2>1 DEF LandedOk, RunType
<1>4. CASE step = "rollback"
  <2>1. PICK o \in EndType : LandedOk(r, step) = [r EXCEPT !.outcome = o]
    BY <1>4, EndedType DEF LandedOk
  <2>2. QED
    BY <2>1 DEF RunType
<1>5. QED
  BY <1>1, <1>2, <1>3, <1>4 DEF Steps

\* A failed step leaves a run as it was, but for what a chunk of it left and
\* for having failed, which a chunk that was cancelled has not.
FailsWith(r, step, a, p, f) ==
  /\ LandedErr(r, step, a) = [r EXCEPT !.partial = p, !.failed = f]
  /\ r.atomic => p = r.partial /\ ((step = "chunk" /\ r.cancelled) \/ f)

LEMMA LandedErrType ==
  ASSUME NEW r \in RunType, NEW step \in Steps \ {"rollback"}, NEW a \in AnswerType
  PROVE  \E p \in Nat, f \in BOOLEAN : FailsWith(r, step, a, p, f)
<1>1. (IF step = "chunk" /\ ~r.atomic THEN a.applied ELSE r.partial) \in Nat
  BY DEF AnswerType, RunType
<1>2. r.failed \in BOOLEAN /\ r.cancelled \in BOOLEAN
  BY DEF RunType
<1>3. (r.failed \/ ~(step = "chunk" /\ r.cancelled /\ a.is = "cancelled")) \in BOOLEAN
  BY <1>2
<1>4. QED
  BY <1>1, <1>2, <1>3 DEF LandedErr, FailsWith

LEMMA LandedType ==
  ASSUME NEW r \in RunType, NEW step \in Steps, NEW a \in AnswerType
  PROVE  /\ Landed(r, step, a) \in RunType
         /\ Landed(r, step, a).atomic = r.atomic
<1>1. CASE a.is = "ok"
  BY <1>1, LandedOkType, SettleType DEF Landed
<1>2. CASE a.is # "ok" /\ step = "rollback"
  BY <1>2, LandedOkType, SettleType DEF Landed, LandedErr
<1>3. CASE a.is # "ok" /\ step # "rollback"
  <2>1. \E p \in Nat, f \in BOOLEAN :
          LandedErr(r, step, a) = [r EXCEPT !.partial = p, !.failed = f]
    <3>1. step \in Steps \ {"rollback"}
      BY <1>3
    <3>2. PICK p \in Nat, f \in BOOLEAN : FailsWith(r, step, a, p, f)
      BY <3>1, LandedErrType, Zenon
    <3>3. LandedErr(r, step, a) = [r EXCEPT !.partial = p, !.failed = f]
      BY <3>2 DEF FailsWith
    <3>4. QED
      BY <3>3, Zenon
  <2>2. LandedErr(r, step, a) \in RunType /\ LandedErr(r, step, a).atomic = r.atomic
    BY <2>1 DEF RunType
  <2>3. QED
    BY <1>3, <2>2, SettleType DEF Landed
<1>4. QED
  BY <1>1, <1>2, <1>3

LEMMA AtomicOk ==
  ASSUME NEW r \in RunType, r.atomic, NEW step \in Steps, NEW a \in AnswerType, a.is = "ok"
  PROVE  Landed(r, step, a) = LandedOk(r, step)
  BY LandedOkType, SettleType DEF Landed

\* A failed step other than a ROLLBACK leaves only the ROLLBACK.
LEMMA AtomicErr ==
  ASSUME NEW r \in RunType, r.atomic, NEW step \in Steps \ {"rollback"},
         NEW a \in AnswerType, a.is # "ok"
  PROVE  NextStep(Landed(r, step, a)) \in {"rollback", "none"}
<1>1. PICK p \in Nat, f \in BOOLEAN : FailsWith(r, step, a, p, f)
  BY LandedErrType, Zenon
<1> DEFINE l == [r EXCEPT !.partial = p, !.failed = f]
<1>2. l \in RunType /\ l.atomic /\ (l.failed \/ l.cancelled)
  BY <1>1 DEF RunType, FailsWith
<1>3. Landed(r, step, a) = l
  BY <1>1, <1>2, SettleType DEF Landed, FailsWith
<1>4. QED
  BY <1>2, <1>3 DEF NextStep

\* A COMMIT that landed ends the import or leaves the ROLLBACK; a ROLLBACK
\* that landed ends it.
LEMMA AtomicClosing ==
  ASSUME NEW r \in RunType, r.atomic, NEW step \in {"commit", "rollback"}, NEW a \in AnswerType
  PROVE  NextStep(Landed(r, step, a)) \in {"rollback", "none"}
<1> DEFINE is == IF r.cancelled THEN "cancelled" ELSE "failed"
<1>1. /\ Ended("imported", r.landed, 0) # NoOutcome
      /\ Ended(is, 0, 0) # NoOutcome
  <2>1. is \in {"imported", "cancelled", "failed"} /\ r.landed \in Nat
    BY DEF RunType
  <2>2. QED
    BY <2>1, EndedType
<1>2. \A o : [r EXCEPT !.outcome = o].outcome = o
  BY DEF RunType
<1>3. LandedOk(r, step).outcome # NoOutcome
  BY <1>1, <1>2 DEF LandedOk
<1>4. CASE a.is = "ok"
  BY <1>3, <1>4, AtomicOk DEF NextStep, Steps
<1>5. CASE a.is # "ok" /\ step = "rollback"
  <2>1. LandedErr(r, step, a) = LandedOk(r, step)
    BY <1>5 DEF LandedErr
  <2>2. Landed(r, step, a) = LandedOk(r, step)
    BY <1>5, <2>1, LandedOkType, SettleType DEF Landed, Steps
  <2>3. QED
    BY <1>3, <2>2 DEF NextStep
<1>6. CASE a.is # "ok" /\ step = "commit"
  BY <1>6, AtomicErr DEF Steps
<1>7. QED
  BY <1>4, <1>5, <1>6

-----------------------------------------------------------------------------
(* Types.                                                                  *)

LEMMA InitTyped == Init => Typed
<1>1. \A b \in BOOLEAN : NewRun(b) \in RunType
  <2>1. NoOutcome \in EndType
    BY DEF NoOutcome, Nothing, EndType
  <2>2. QED
    BY <2>1 DEF NewRun, RunType
<1>2. NoAnswer \in AnswerType /\ Nothing \in [chunks : Nat, part : Nat]
  BY DEF NoAnswer, AnswerType, Nothing
<1>3. Init => run \in RunType
  BY <1>1 DEF Init
<1>4. Init => tx \in BOOLEAN
  BY DEF Init
<1>5. Init => answer = NoAnswer /\ kept = Nothing /\ staged \in Nat
  BY DEF Init
<1>6. QED
  BY <1>2, <1>3, <1>4, <1>5 DEF Typed

LEMMA AdvanceTyped ==
  ASSUME Typed, NEW r \in RunType, Advance(r), UNCHANGED <<kept, staged, tx>>
  PROVE  Typed'
<1>1. NoAnswer \in AnswerType
  BY DEF NoAnswer, AnswerType
<1>2. QED
  BY <1>1 DEF Advance, Typed

LEMMA ScreenTyped ==
  ASSUME Typed, StartImport \/ OpenFails \/ Opened \/ Land \/ CancelImport \/ Abandon
  PROVE  Typed'
<1> USE DEF Typed
<1>1. NoAnswer \in AnswerType
  BY DEF NoAnswer, AnswerType
<1>2. CASE StartImport \/ OpenFails
  BY <1>2 DEF StartImport, OpenFails, server
<1>3. CASE Opened
  BY <1>1, <1>3, AdvanceTyped DEF Opened, NobodyWaits
<1>4. CASE Land
  BY <1>1, <1>4, LandedType, AdvanceTyped DEF Land, NobodyWaits
<1>5. CASE CancelImport \/ Abandon
  BY <1>5, CancelRunType DEF CancelImport, Abandon, Stop, server
<1>6. QED
  BY <1>2, <1>3, <1>4, <1>5

LEMMA SaysTyped ==
  ASSUME NEW is \in {"ok", "error", "cancelled"}, NEW n \in Nat, Says(is, n)
  PROVE  answer' \in AnswerType /\ answer'.is = is
  BY DEF Says, AnswerType

LEMMA MoreKept ==
  ASSUME kept \in [chunks : Nat, part : Nat], NEW n \in Nat
  PROVE  /\ [kept EXCEPT !.chunks = @ + n] \in [chunks : Nat, part : Nat]
         /\ [kept EXCEPT !.part = @ + n] \in [chunks : Nat, part : Nat]
  OBVIOUS

LEMMA FailsTyped ==
  ASSUME Typed, NEW is \in {"error", "cancelled"}, Fails(is)
  PROVE  Typed'
<1>1. run' = run
  BY DEF Fails, screen
<1>2. staged' \in Nat /\ (tx' = tx \/ tx' = FALSE)
  BY DEF Fails, Typed, NoTransaction
<1>3. \E n \in Nat : Says(is, n) /\ (kept' = kept \/ kept' = [kept EXCEPT !.part = @ + n])
  BY PlanAssumption DEF Fails
<1>4. kept' \in [chunks : Nat, part : Nat]
  BY <1>3, MoreKept DEF Typed
<1>5. QED
  BY <1>1, <1>2, <1>3, <1>4, SaysTyped DEF Typed

LEMMA ServerTyped ==
  ASSUME Typed, Server
  PROVE  Typed'
<1>0. kept \in [chunks : Nat, part : Nat] /\ staged \in Nat /\ tx \in BOOLEAN /\ run \in RunType
      /\ answer \in AnswerType /\ (answer.is = "none" => answer = NoAnswer)
  BY DEF Typed
<1>1. CASE Served
  <2>1. \E n \in Nat : kept' = kept \/ kept' = [kept EXCEPT !.chunks = @ + n]
    <3>1. kept' = kept \/ kept' = [kept EXCEPT !.chunks = @ + 1]
          \/ kept' = [kept EXCEPT !.chunks = @ + staged]
      BY <1>1 DEF Served, Carry
    <3>2. QED
      BY <1>0, <3>1
  <2>2. staged' \in Nat /\ (tx' = tx \/ tx' = FALSE \/ tx' = TRUE)
    BY <1>0, <1>1 DEF Served, Carry, NoTransaction
  <2>3. QED
    BY <1>0, <1>1, <2>1, <2>2, MoreKept, SaysTyped DEF Served, screen, Typed
<1>2. CASE Refused
  BY <1>2, FailsTyped DEF Refused
<1>3. CASE Lost
  <2>1. \E n \in Nat : kept' = kept \/ kept' = [kept EXCEPT !.chunks = @ + n]
    <3>1. kept' = kept \/ kept' = [kept EXCEPT !.chunks = @ + (IF tx THEN staged ELSE 1)]
      BY <1>3 DEF Lost
    <3>2. (IF tx THEN staged ELSE 1) \in Nat
      BY <1>0
    <3>3. QED
      BY <3>1, <3>2
  <2>2. staged' \in Nat /\ tx' = FALSE
    BY <1>3 DEF Lost, NoTransaction
  <2>3. QED
    BY <1>0, <1>3, <2>1, <2>2, MoreKept, SaysTyped DEF Lost, screen, Typed
<1>4. CASE LostBehind
  <2>1. kept' \in [chunks : Nat, part : Nat] /\ staged' \in Nat /\ tx' \in BOOLEAN
    BY <1>0, <1>4, MoreKept DEF LostBehind, NoTransaction
  <2>2. QED
    BY <1>0, <1>4, <2>1, SaysTyped DEF LostBehind, screen, Typed
<1>5. CASE Dead
  BY <1>0, <1>5, SaysTyped DEF Dead, screen, server, Typed
<1>6. CASE StopLands
  <2>1. CASE Fails("cancelled")
    BY <2>1, FailsTyped
  <2>2. CASE /\ Says("cancelled", 0) /\ NoTransaction
             /\ UNCHANGED <<screen, task, relogin, kept, unheard>>
    BY <1>0, <2>2, SaysTyped DEF screen, NoTransaction, Typed
  <2>3. CASE UNCHANGED <<screen, task, answer, server>>
    BY <1>0, <2>3 DEF screen, server, Typed
  <2>4. QED
    BY <1>6, <2>1, <2>2, <2>3 DEF StopLands
<1>7. CASE LogIn
  BY <1>0, <1>7 DEF LogIn, screen, Typed
<1>8. CASE RollBack
  BY <1>0, <1>8 DEF RollBack, NoTransaction, screen, Typed
<1>9. QED
  BY <1>1, <1>2, <1>3, <1>4, <1>5, <1>6, <1>7, <1>8 DEF Server, Serve
-----------------------------------------------------------------------------
(* All or nothing.                                                         *)

LEMMA InitAtomic ==
  ASSUME SqlServer = FALSE
  PROVE  Init => Atomic
<1>1. SUFFICES ASSUME Init, run.atomic PROVE Atomic
  BY DEF Atomic
<1>2. PICK b \in BOOLEAN : run = NewRun(b)
  BY <1>1 DEF Init
<1>3. run.landed = 0 /\ ~run.begun
  BY <1>2 DEF NewRun
<1>4. kept = Nothing /\ answer.is = "none" /\ task = "none" /\ ~relogin
  BY <1>1 DEF Init, NoAnswer
<1>5. QED
  BY <1>3, <1>4 DEF Atomic, Unstarted, BeginOut, ChunkOut, CommitOut, Whole1

\* A step of the dialog that ends in nothing out, or a ROLLBACK.
LEMMA Closing ==
  ASSUME IInv, run'.atomic = run.atomic, UNCHANGED <<kept, relogin>>,
         dialog' # "editing", task' \in {"none", "rollback"}
  PROVE  Atomic'
<1>1. SUFFICES ASSUME run.atomic PROVE Atomic'
  BY DEF Atomic
<1>2. ~relogin /\ Whole1
  BY <1>1 DEF IInv, Atomic
<1>3. QED
  BY <1>2 DEF Atomic, Unstarted, BeginOut, ChunkOut, CommitOut, Whole1

LEMMA LandAtomic ==
  ASSUME IInv, Land
  PROVE  Atomic'
<1>0. run \in RunType /\ answer \in AnswerType /\ answer.is # "none" /\ task \in Steps
      /\ UNCHANGED <<tx, staged, kept, relogin>>
  BY DEF IInv, Typed, Land
<1> DEFINE l == Landed(run, task, answer)
<1>1. l \in RunType /\ l.atomic = run.atomic
  BY <1>0, LandedType
<1>2. SUFFICES ASSUME run'.atomic PROVE Atomic'
  BY DEF Atomic
<1>3. run.atomic
  BY <1>1, <1>2 DEF Land, NobodyWaits, Advance
<1>4. Unstarted /\ BeginOut /\ ChunkOut /\ CommitOut /\ Whole1 /\ ~relogin
  BY <1>3 DEF IInv, Atomic
<1>5. CASE ~Running
  <2>1. run' = run /\ dialog' = dialog /\ task' = "none" /\ answer' = NoAnswer
    BY <1>5 DEF Land, NobodyWaits
  <2>2. QED
    BY <1>0, <1>4, <2>1
    DEF Atomic, Unstarted, BeginOut, ChunkOut, CommitOut, Whole1, NoAnswer
<1>6. CASE Running
  <2>1. Advance(l)
    BY <1>6 DEF Land
  <2>2. /\ run' = l /\ answer'.is = "none" /\ task' = NextStep(l)
        /\ dialog' # "editing" /\ (task' # "none" => session' = session)
    BY <1>6, <2>1 DEF Advance, Running, NoAnswer
  <2>3. CASE task' \in {"none", "rollback"}
    BY <1>0, <1>1, <2>2, <2>3, Closing
  <2>4. CASE task' \notin {"none", "rollback"}
    <3>1. task \in {"begin", "chunk"} /\ answer.is = "ok"
      <4>1. task \notin {"commit", "rollback"}
        BY <1>0, <1>3, <2>2, <2>4, AtomicClosing
      <4>2. answer.is = "ok"
        BY <1>0, <1>3, <2>2, <2>4, <4>1, AtomicErr
      <4>3. QED
        BY <1>0, <4>1, <4>2 DEF Steps
    <3>2. l = LandedOk(run, task)
      BY <1>0, <1>3, <3>1, AtomicOk
    <3>3. /\ task' \in {"begin", "chunk", "commit"}
          /\ task' = "begin" => ~l.begun
          /\ task' = "chunk" => l.begun /\ l.landed < Chunks
          /\ task' = "commit" => l.begun /\ ~(l.landed < Chunks)
      BY <1>1, <1>3, <2>2, <2>4 DEF NextStep
    <3>4. CASE task = "begin"
      <4>1. l.begun /\ l.landed = run.landed
        BY <1>0, <3>2, <3>4 DEF LandedOk, RunType
      <4>2. task' = "chunk"
        BY <1>4, <3>3, <3>4, <4>1, PlanAssumption DEF BeginOut
      <4>3. kept = Nothing /\ run.landed = 0 /\ tx /\ staged = 0
        BY <1>4, <3>1, <3>4 DEF BeginOut
      <4>4. QED
        BY <1>0, <1>4, <2>2, <3>3, <4>1, <4>2, <4>3
        DEF Atomic, Unstarted, BeginOut, ChunkOut, CommitOut, Whole1
    <3>5. CASE task = "chunk"
      <4>1. l.begun = run.begun /\ l.landed = run.landed + 1
        BY <1>0, <3>2, <3>5 DEF LandedOk, RunType
      <4>2. kept = Nothing /\ run.begun /\ run.landed < Chunks /\ tx /\ staged = run.landed + 1
        BY <1>4, <3>1, <3>5 DEF ChunkOut
      <4>3. run.landed \in Nat /\ Chunks \in Nat
        BY <1>0, PlanAssumption DEF RunType
      <4>4. task' = "commit" => l.landed = Chunks
        BY <3>3, <4>1, <4>2, <4>3
      <4>5. QED
        BY <1>0, <1>4, <2>2, <3>3, <4>1, <4>2, <4>4
        DEF Atomic, Unstarted, BeginOut, ChunkOut, CommitOut, Whole1
    <3>6. QED
      BY <3>1, <3>4, <3>5
  <2>5. QED
    BY <2>3, <2>4
<1>7. QED
  BY <1>5, <1>6

LEMMA OpenedAtomic ==
  ASSUME IInv, Opened
  PROVE  Atomic'
<1>0. run \in RunType /\ task = "opening" /\ UNCHANGED <<kept, relogin>>
  BY DEF IInv, Typed, Opened
<1>1. SUFFICES ASSUME run'.atomic PROVE Atomic'
  BY DEF Atomic
<1>2. run' = run
  BY DEF Opened, NobodyWaits, Advance
<1>3. /\ kept = Nothing /\ run.landed = 0 /\ ~run.begun /\ answer.is = "none"
      /\ ~relogin
  BY <1>0, <1>1, <1>2 DEF IInv, Atomic, Unstarted
<1>4. answer'.is = "none"
  BY <1>3 DEF Opened, NobodyWaits, Advance, NoAnswer
<1>5. task' \in {"none", "rollback", "begin"}
  BY <1>0, <1>1, <1>2, <1>3 DEF Opened, NobodyWaits, Advance, NextStep
<1>6. dialog' # "editing"
  BY <1>0, <1>1, <1>2 DEF Opened, NobodyWaits, Advance, Running, IInv, Atomic, Unstarted
<1>7. QED
  BY <1>0, <1>2, <1>3, <1>4, <1>5, <1>6
  DEF Atomic, Unstarted, BeginOut, ChunkOut, CommitOut, Whole1

LEMMA ScreenAtomic ==
  ASSUME IInv, StartImport \/ OpenFails \/ CancelImport \/ Abandon
  PROVE  Atomic'
<1>1. SUFFICES ASSUME run'.atomic PROVE Atomic'
  BY DEF Atomic
<1>2. run' = run \/ run' = CancelRun(run)
  BY DEF StartImport, OpenFails, CancelImport, Abandon, Stop
<1>3. run'.atomic = run.atomic /\ (run.atomic => run'.landed = run.landed /\ run'.begun = run.begun)
  <2>1. CancelRun(run).atomic = run.atomic
        /\ (run.atomic => CancelRun(run) = run \/ CancelRun(run) = [run EXCEPT !.cancelled = TRUE])
    BY CancelRunType DEF IInv, Typed
  <2>2. [run EXCEPT !.cancelled = TRUE].landed = run.landed
        /\ [run EXCEPT !.cancelled = TRUE].begun = run.begun
    BY DEF IInv, Typed, RunType
  <2>3. QED
    BY <1>2, <2>1, <2>2
<1>4. Unstarted /\ BeginOut /\ ChunkOut /\ CommitOut /\ Whole1 /\ ~relogin
  BY <1>1, <1>3 DEF IInv, Atomic
<1>5. UNCHANGED <<answer, kept, relogin, tx, staged, session>>
  BY DEF StartImport, OpenFails, CancelImport, Abandon, server
<1>6. \/ task' = task
      \/ task' = "opening" /\ dialog = "editing"
      \/ task' = "none"
  BY DEF StartImport, OpenFails, CancelImport, Abandon
<1>7. dialog' # "editing"
  BY <1>4 DEF StartImport, OpenFails, CancelImport, Abandon, Running, Unstarted
<1>8. QED
  BY <1>1, <1>3, <1>4, <1>5, <1>6, <1>7
  DEF Atomic, Unstarted, BeginOut, ChunkOut, CommitOut, Whole1

\* The server's side, of a step that is out: what is to be shown of it.
LEMMA OutAtomic ==
  ASSUME IInv, Out, UNCHANGED <<screen, task, relogin>>,
         run.atomic =>
           /\ task = "begin" => kept' = kept /\ (answer'.is = "ok" => tx' /\ staged' = 0 /\ session' = "open")
           /\ task = "chunk" =>
                /\ kept' = kept
                /\ answer'.is = "none" /\ session' = "open" => tx' /\ staged' = run.landed
                /\ answer'.is = "ok" => tx' /\ staged' = run.landed + 1 /\ session' = "open"
           /\ task = "commit" =>
                /\ answer'.is = "none" => kept' = Nothing /\ (tx' => staged' = Chunks)
                /\ kept' \in {kept, Whole}
           /\ task = "rollback" => kept' = kept
  PROVE  Atomic'
<1>1. SUFFICES ASSUME run'.atomic PROVE Atomic'
  BY DEF Atomic
<1>2. /\ Unstarted /\ BeginOut /\ ChunkOut /\ CommitOut /\ Whole1 /\ ~relogin
      /\ UNCHANGED <<dialog, run, task, relogin>> /\ run.atomic
  BY <1>1 DEF IInv, Atomic, screen
<1>3. task \in Steps /\ dialog # "editing" /\ task # "opening"
  BY <1>2 DEF Out, Steps, Unstarted
<1>4. Unstarted'
  BY <1>2, <1>3 DEF Unstarted
<1>5. BeginOut'
  BY <1>2 DEF BeginOut
<1>6. ChunkOut'
  BY <1>2 DEF ChunkOut
<1>7. CommitOut'
  BY <1>2 DEF CommitOut
<1>8. Whole1'
  BY <1>2, <1>3 DEF Whole1, Steps
<1>9. QED
  BY <1>1, <1>2, <1>4, <1>5, <1>6, <1>7, <1>8 DEF Atomic

\* The transaction of an atomic import, while a step of it is out.
LEMMA OutFacts ==
  ASSUME IInv, Out, run.atomic
  PROVE  /\ ~relogin /\ answer.is = "none"
         /\ task = "chunk" => kept = Nothing /\ (session = "open" => tx /\ staged = run.landed)
         /\ task = "commit" => kept = Nothing /\ (tx => staged = Chunks)
  BY DEF IInv, Atomic, Out, NoAnswer, ChunkOut, CommitOut

LEMMA CommitsWhole ==
  ASSUME kept = Nothing
  PROVE  [kept EXCEPT !.chunks = @ + Chunks] = Whole
  BY PlanAssumption DEF Nothing, Whole

LEMMA FailsAtomic ==
  ASSUME IInv, Out, session = "open", NEW is \in {"error", "cancelled"}, Fails(is)
  PROVE  Atomic'
<1>1. UNCHANGED <<screen, task, relogin>>
  BY DEF Fails
<1>2. answer'.is = is
  BY SaysTyped, PlanAssumption DEF Fails
<1>3. run.atomic => kept' = kept
  <2>1. run.atomic => ~(task = "chunk" /\ ~tx)
    BY OutFacts
  <2>2. ~(task = "chunk" /\ ~tx) => kept' = kept
    BY DEF Fails
  <2>3. QED
    BY <2>1, <2>2
<1>4. QED
  BY <1>1, <1>2, <1>3, OutAtomic

LEMMA ServedAtomic ==
  ASSUME IInv, Served
  PROVE  Atomic'
<1>1. /\ Out /\ session = "open" /\ Carry /\ answer'.is = "ok"
      /\ UNCHANGED <<screen, task, relogin, session>>
  BY SaysTyped DEF Served
<1>2. task = "begin" => kept' = kept /\ tx' /\ staged' = 0
  BY <1>1 DEF Carry
<1>3. run.atomic /\ task = "chunk" => kept' = kept /\ tx' /\ staged' = run.landed + 1
  <2>1. run.atomic /\ task = "chunk" => tx /\ staged = run.landed
    BY <1>1, OutFacts
  <2>2. task = "chunk" /\ tx => kept' = kept /\ tx' /\ staged' = staged + 1
    BY <1>1 DEF Carry
  <2>3. QED
    BY <2>1, <2>2
<1>4. run.atomic /\ task = "commit" => kept' = Whole
  <2>1. run.atomic /\ task = "commit" => kept = Nothing /\ (tx => staged = Chunks)
    BY <1>1, OutFacts
  <2>2. task = "commit" => tx /\ kept' = [kept EXCEPT !.chunks = @ + staged]
    BY <1>1 DEF Carry
  <2>3. QED
    BY <2>1, <2>2, CommitsWhole
<1>5. task = "rollback" => kept' = kept
  BY <1>1 DEF Carry
<1>6. QED
  BY <1>1, <1>2, <1>3, <1>4, <1>5, OutAtomic

LEMMA LostAtomic ==
  ASSUME IInv, Lost
  PROVE  Atomic'
<1>1. /\ Out /\ session = "open" /\ session' = "lost" /\ answer'.is = "error"
      /\ UNCHANGED <<screen, task, relogin>>
  BY SaysTyped DEF Lost
<1>2. run.atomic => kept' = kept \/ (task = "commit" /\ kept' = Whole)
  <2>1. \/ kept' = kept
        \/ /\ task \in {"chunk", "commit"} /\ (task = "commit" <=> tx)
           /\ kept' = [kept EXCEPT !.chunks = @ + (IF tx THEN staged ELSE 1)]
    BY DEF Lost
  <2>2. run.atomic /\ task = "chunk" => tx
    BY <1>1, OutFacts
  <2>3. run.atomic /\ task = "commit" /\ tx => kept = Nothing /\ staged = Chunks
    BY <1>1, OutFacts
  <2>4. QED
    BY <2>1, <2>2, <2>3, CommitsWhole
<1>3. QED
  BY <1>1, <1>2, OutAtomic

LEMMA ServerAtomic ==
  ASSUME IInv, Server
  PROVE  Atomic'
<1>1. CASE Served
  BY <1>1, ServedAtomic
<1>2. CASE Refused
  BY <1>2, FailsAtomic DEF Refused
<1>3. CASE Lost
  BY <1>3, LostAtomic
<1>4. CASE LostBehind
  <2>1. relogin /\ run' = run /\ relogin' = relogin
    BY <1>4 DEF LostBehind, screen
  <2>2. QED
    BY <2>1 DEF IInv, Atomic
<1>5. CASE Dead
  <2>1. /\ Out /\ answer'.is = "error" /\ UNCHANGED <<screen, task, relogin, kept>>
    BY <1>5, SaysTyped DEF Dead, server
  <2>2. QED
    BY <2>1, OutAtomic
<1>6. CASE StopLands
  <2>1. CASE Out /\ session = "open" /\ Fails("cancelled")
    BY <2>1, FailsAtomic
  <2>2. CASE relogin /\ UNCHANGED <<screen, relogin>>
    <3>1. run' = run
      BY <2>2 DEF screen
    <3>2. QED
      BY <2>2, <3>1 DEF IInv, Atomic
  <2>3. CASE UNCHANGED <<screen, task, answer, server>>
    BY <2>3
    DEF screen, server, IInv, Atomic, Unstarted, BeginOut, ChunkOut, CommitOut, Whole1
  <2>4. QED
    BY <1>6, <2>1, <2>2, <2>3 DEF StopLands
<1>7. CASE LogIn
  <2>1. relogin /\ run' = run /\ relogin' = relogin
    BY <1>7 DEF LogIn, screen
  <2>2. QED
    BY <2>1 DEF IInv, Atomic
<1>8. CASE RollBack
  <2>1. /\ session = "dropped" /\ tx' = FALSE
        /\ UNCHANGED <<dialog, run, task, answer, relogin, session, kept>>
    BY <1>8 DEF RollBack, NoTransaction, screen
  <2>2. answer.is = "ok" /\ task \in {"begin", "chunk"} /\ run.atomic => FALSE
    BY <2>1 DEF IInv, Atomic, BeginOut, ChunkOut
  <2>3. QED
    BY <2>1, <2>2
    DEF IInv, Atomic, Unstarted, BeginOut, ChunkOut, CommitOut, Whole1
<1>9. QED
  BY <1>1, <1>2, <1>3, <1>4, <1>5, <1>6, <1>7, <1>8 DEF Server, Serve

LEMMA StepIInv ==
  ASSUME IInv, [Next]_vars
  PROVE  IInv'
<1>1. Typed
  BY DEF IInv
<1>2. CASE StartImport \/ OpenFails \/ CancelImport \/ Abandon
  BY <1>1, <1>2, ScreenTyped, ScreenAtomic DEF IInv
<1>3. CASE Opened
  BY <1>1, <1>3, ScreenTyped, OpenedAtomic DEF IInv
<1>4. CASE Land
  BY <1>1, <1>4, ScreenTyped, LandAtomic DEF IInv
<1>5. CASE Server
  BY <1>1, <1>5, ServerTyped, ServerAtomic DEF IInv
<1>6. CASE Done \/ UNCHANGED vars
  <2>1. UNCHANGED <<dialog, run, task, answer, relogin, session, tx, staged, kept>>
    BY <1>6 DEF Done, vars, screen, server
  <2>2. QED
    BY <2>1
    DEF IInv, Typed, Atomic, Unstarted, BeginOut, ChunkOut, CommitOut, Whole1
<1>7. QED
  BY <1>2, <1>3, <1>4, <1>5, <1>6 DEF Next

\* Under All or nothing the table ends with the whole file or with none of it,
\* whatever of Run::next, Run::landed and Run::cancel a failure, a Cancel, a
\* removed profile or a lost session meets: for every number of chunks and
\* rows, on every driver that does not log in again behind the run.
THEOREM KeepsAllOrNothing ==
  ASSUME SqlServer = FALSE
  PROVE  Spec => []AllOrNothing
<1>1. Init => IInv
  BY InitTyped, InitAtomic DEF IInv
<1>2. IInv /\ [Next]_vars => IInv'
  BY StepIInv
<1>3. IInv => AllOrNothing
  BY DEF IInv, Atomic, Whole1, AllOrNothing
<1>4. QED
  BY <1>1, <1>2, <1>3, PTL DEF Spec

-----------------------------------------------------------------------------
(* The bounds of what is counted, on every driver.                         *)

RunRange == [atomic : BOOLEAN, begun : BOOLEAN, landed : 0..Chunks, partial : 0..Rows,
             cancelled : BOOLEAN, failed : BOOLEAN, outcome : Outcome]
AnswerRange == [is : {"none", "ok", "error", "cancelled"}, applied : 0..Rows]

\* Nothing is in the table or on its way there before the first step.
Unsent ==
  /\ dialog = "editing" => task = "none" /\ ~stopping
  /\ dialog = "editing" \/ task = "opening" =>
       /\ kept = Nothing /\ staged = 0 /\ ~unheard /\ answer = NoAnswer
       /\ run.landed = 0 /\ run.partial = 0 /\ ~run.failed /\ ~run.begun

\* The chunks in the table and in the transaction are those that landed and,
\* once it is answered, the one that is out.
ChunksFit ==
  /\ run.atomic /\ ~run.begun => run.landed = 0
  /\ task = "begin" => kept = Nothing /\ staged = 0 /\ run.landed = 0
  /\ task = "chunk" =>
       /\ run.landed < Chunks /\ (run.atomic => run.begun) /\ ~run.failed
       /\ kept.chunks + staged <= run.landed + (IF answer.is = "none" THEN 0 ELSE 1)
       /\ answer.is \in {"none", "ok"} => kept.part = 0
  /\ task = "commit" => kept.chunks + staged <= Chunks

\* A COMMIT is for a run that nothing failed in and no Cancel reached, and a
\* Cancel on its way is known to its run.
CommitClear ==
  /\ task = "commit" => run.landed = Chunks /\ ~run.failed /\ ~run.cancelled
  /\ stopping /\ run.atomic => run.cancelled
  /\ ~run.atomic => task \in {"none", "opening", "chunk"} /\ ~tx

Bounded ==
  /\ TypeOK
  /\ answer.is = "none" => answer = NoAnswer
  /\ ~tx => staged = 0
  /\ Unsent /\ ChunksFit /\ CommitClear

LEMMA RangeType ==
  /\ RunRange \subseteq RunType
  /\ AnswerRange \subseteq AnswerType
  /\ NoOutcome \in Outcome
  /\ \A is \in {"imported", "cancelled", "failed"}, c \in 0..Chunks, p \in 0..Rows :
       Ended(is, c, p) \in Outcome /\ Ended(is, c, p) # NoOutcome
<1>1. Chunks \in Nat /\ Rows \in Nat
  BY PlanAssumption
<1>2. 0..Chunks \subseteq Nat /\ 0..Rows \subseteq Nat /\ 0 \in 0..Chunks /\ 0 \in 0..Rows
  BY <1>1
<1>3. Outcome \subseteq EndType
  BY <1>2 DEF Outcome, EndType, Count
<1>4. RunRange \subseteq RunType
  BY <1>2, <1>3 DEF RunRange, RunType
<1>5. AnswerRange \subseteq AnswerType
  BY <1>2 DEF AnswerRange, AnswerType
<1>6. NoOutcome \in Outcome
  BY <1>2 DEF NoOutcome, Outcome, Count, Nothing
<1>7. \A is \in {"imported", "cancelled", "failed"}, c \in 0..Chunks, p \in 0..Rows :
        Ended(is, c, p) \in Outcome /\ Ended(is, c, p) # NoOutcome
  BY DEF Ended, NoOutcome, Outcome, Count
<1>8. QED
  BY <1>4, <1>5, <1>6, <1>7

\* Settling a run decides its outcome and nothing else.
SettledTo(r, s, o) == s = [r EXCEPT !.outcome = o]

LEMMA SettleRange ==
  ASSUME NEW r \in RunRange
  PROVE  \E o \in Outcome :
           /\ SettledTo(r, Settle(r), o)
           /\ ~r.atomic /\ r.failed => o = Ended("failed", r.landed, r.partial)
           /\ ~r.atomic /\ ~r.failed =>
                o = IF r.landed = Chunks THEN Ended("imported", r.landed, 0)
                    ELSE IF r.cancelled THEN Ended("cancelled", r.landed, r.partial)
                    ELSE NoOutcome
           /\ r.atomic => o = r.outcome
<1>1. CASE r.atomic
  <2>1. SettledTo(r, Settle(r), r.outcome) /\ r.outcome \in Outcome
    BY <1>1 DEF Settle, SettledTo, RunRange
  <2>2. QED
    BY <1>1, <2>1, Zenon
<1>2. CASE ~r.atomic
  <2> DEFINE o == IF r.failed THEN Ended("failed", r.landed, r.partial)
                  ELSE IF r.landed = Chunks THEN Ended("imported", r.landed, 0)
                  ELSE IF r.cancelled THEN Ended("cancelled", r.landed, r.partial)
                  ELSE NoOutcome
  <2>1. r.landed \in 0..Chunks /\ r.partial \in 0..Rows /\ 0 \in 0..Rows
    BY PlanAssumption DEF RunRange
  <2>2. o \in Outcome
    BY <2>1, RangeType
  <2>3. SettledTo(r, Settle(r), o)
    BY <1>2 DEF Settle, SettledTo
  <2>4. QED
    BY <1>2, <2>2, <2>3
<1>3. QED
  BY <1>1, <1>2 DEF RunRange

\* A settled run is the run it was but for its outcome.
LEMMA SettledFields ==
  ASSUME NEW r \in RunRange, NEW o \in Outcome, NEW s, SettledTo(r, s, o)
  PROVE  /\ s \in RunRange /\ s.outcome = o
         /\ s.atomic = r.atomic /\ s.begun = r.begun /\ s.landed = r.landed
         /\ s.partial = r.partial /\ s.cancelled = r.cancelled /\ s.failed = r.failed
  BY DEF SettledTo, RunRange

\* What of a run a Cancel leaves.
CancelsAs(r, c) ==
  /\ c \in RunRange
  /\ c.atomic = r.atomic /\ c.begun = r.begun /\ c.landed = r.landed
  /\ c.partial = r.partial /\ c.failed = r.failed
  /\ r.atomic => c.outcome = r.outcome
  /\ r.cancelled => c.cancelled
  /\ r.landed = Chunks /\ r.atomic => c.cancelled = r.cancelled
  /\ r.outcome = NoOutcome /\ ~r.failed /\ r.landed < Chunks => c.cancelled
  /\ r.outcome = NoOutcome /\ ~r.failed /\ ~r.atomic /\ r.landed < Chunks =>
       c.outcome = Ended("cancelled", r.landed, r.partial)
  /\ c.outcome # NoOutcome \/ c.outcome = r.outcome
  /\ r.outcome # NoOutcome => c = r

LEMMA CancelRange ==
  ASSUME NEW r \in RunRange
  PROVE  CancelsAs(r, CancelRun(r))
<1> DEFINE s == [r EXCEPT !.cancelled = TRUE]
<1>1. /\ s \in RunRange /\ s.atomic = r.atomic /\ s.begun = r.begun /\ s.landed = r.landed
      /\ s.partial = r.partial /\ s.failed = r.failed /\ s.outcome = r.outcome /\ s.cancelled
  BY DEF RunRange
<1>2. r.landed < Chunks => r.landed # Chunks
  BY PlanAssumption DEF RunRange
<1>3. CASE r.outcome # NoOutcome \/ r.failed \/ (r.atomic /\ r.landed = Chunks)
  BY <1>2, <1>3 DEF CancelRun, CancelsAs
<1>4. CASE ~(r.outcome # NoOutcome \/ r.failed \/ (r.atomic /\ r.landed = Chunks))
  <2> HIDE DEF s
  <2>1. CancelRun(r) = Settle(s)
    BY <1>4 DEF CancelRun, s
  <2>2. PICK o \in Outcome :
           /\ SettledTo(s, Settle(s), o)
           /\ ~s.atomic /\ s.failed => o = Ended("failed", s.landed, s.partial)
           /\ ~s.atomic /\ ~s.failed =>
                o = IF s.landed = Chunks THEN Ended("imported", s.landed, 0)
                    ELSE IF s.cancelled THEN Ended("cancelled", s.landed, s.partial)
                    ELSE NoOutcome
           /\ s.atomic => o = s.outcome
    BY <1>1, SettleRange
  <2>3. /\ Settle(s) \in RunRange /\ Settle(s).outcome = o
        /\ Settle(s).atomic = s.atomic /\ Settle(s).begun = s.begun
        /\ Settle(s).landed = s.landed /\ Settle(s).partial = s.partial
        /\ Settle(s).cancelled = s.cancelled /\ Settle(s).failed = s.failed
    BY <1>1, <2>2, SettledFields
  <2>4. r.landed \in 0..Chunks /\ r.partial \in 0..Rows /\ 0 \in 0..Rows
    BY PlanAssumption DEF RunRange
  <2>5. ~r.atomic => o # NoOutcome
    <3>1. ~r.atomic =>
            o = IF r.landed = Chunks THEN Ended("imported", r.landed, 0)
                ELSE Ended("cancelled", r.landed, r.partial)
      BY <1>1, <1>4, <2>2
    <3>2. QED
      BY <2>4, <3>1, RangeType
  <2>6. QED
    BY <1>1, <1>2, <1>4, <2>1, <2>2, <2>3, <2>5 DEF CancelsAs
<1>5. QED
  BY <1>3, <1>4

\* What of a run a landed step leaves.
LandsAs(r, step, a, l) ==
  /\ l \in RunRange
  /\ l.atomic = r.atomic /\ l.cancelled = r.cancelled
  /\ l.landed = IF step = "chunk" /\ a.is = "ok" THEN r.landed + 1 ELSE r.landed
  /\ l.begun = IF step = "begin" /\ a.is = "ok" THEN TRUE ELSE r.begun
  /\ a.is = "ok" \/ step = "rollback" => l.partial = r.partial /\ l.failed = r.failed
  /\ a.is # "ok" /\ step # "rollback" =>
       /\ l.partial = IF r.atomic THEN r.partial ELSE a.applied
       /\ l.failed \/ (step = "chunk" /\ r.cancelled)
  /\ r.atomic =>
       l.outcome = IF step = "rollback"
                   THEN Ended(IF r.cancelled THEN "cancelled" ELSE "failed", 0, 0)
                   ELSE IF step = "commit" /\ a.is = "ok"
                   THEN Ended("imported", r.landed, 0) ELSE r.outcome
  /\ ~r.atomic /\ a.is = "ok" /\ ~r.failed =>
       l.outcome = IF l.landed = Chunks THEN Ended("imported", l.landed, 0)
                   ELSE IF r.cancelled THEN Ended("cancelled", l.landed, r.partial)
                   ELSE NoOutcome
  /\ ~r.atomic /\ a.is # "ok" =>
       l.outcome = Ended(IF l.failed THEN "failed" ELSE "cancelled", r.landed, a.applied)

LEMMA LandedRange ==
  ASSUME NEW r \in RunRange, NEW step \in Steps, NEW a \in AnswerRange, a.is # "none",
         step = "chunk" => r.landed < Chunks,
         ~r.atomic => step = "chunk"
  PROVE  LandsAs(r, step, a, Landed(r, step, a))
<1> DEFINE b == IF a.is = "ok" THEN LandedOk(r, step) ELSE LandedErr(r, step, a)
           l == Landed(r, step, a)
<1>1. /\ r.landed \in 0..Chunks /\ r.partial \in 0..Rows /\ a.applied \in 0..Rows
      /\ 0 \in 0..Rows /\ 0 \in 0..Chunks
      /\ r.cancelled \in BOOLEAN /\ r.failed \in BOOLEAN /\ r.atomic \in BOOLEAN
  BY PlanAssumption DEF RunRange, AnswerRange
<1>2. r.landed < Chunks => r.landed + 1 \in 0..Chunks /\ r.landed # Chunks
  BY <1>1, PlanAssumption
<1> DEFINE Leaves(x) ==
             /\ x \in RunRange
             /\ x.atomic = r.atomic /\ x.cancelled = r.cancelled
             /\ x.landed = IF step = "chunk" /\ a.is = "ok" THEN r.landed + 1 ELSE r.landed
             /\ x.begun = IF step = "begin" /\ a.is = "ok" THEN TRUE ELSE r.begun
             /\ a.is = "ok" \/ step = "rollback" => x.partial = r.partial /\ x.failed = r.failed
             /\ a.is # "ok" /\ step # "rollback" =>
                  /\ x.partial = IF r.atomic THEN r.partial ELSE a.applied
                  /\ x.failed \/ (step = "chunk" /\ r.cancelled)
           Outcomes(x) ==
             r.atomic =>
               x.outcome = IF step = "rollback"
                           THEN Ended(IF r.cancelled THEN "cancelled" ELSE "failed", 0, 0)
                           ELSE IF step = "commit" /\ a.is = "ok"
                           THEN Ended("imported", r.landed, 0) ELSE r.outcome
<1>3. Leaves(b) /\ Outcomes(b)
  <2>1. CASE step = "rollback"
    <3> DEFINE is == IF r.cancelled THEN "cancelled" ELSE "failed"
    <3>1. Ended(is, 0, 0) \in Outcome
      BY <1>1, RangeType
    <3>2. b = [r EXCEPT !.outcome = Ended(is, 0, 0)]
      BY <2>1 DEF LandedOk, LandedErr
    <3>3. SettledTo(r, b, Ended(is, 0, 0))
      BY <3>2 DEF SettledTo
    <3> HIDE DEF b
    <3>4. /\ b \in RunRange /\ b.outcome = Ended(is, 0, 0)
          /\ b.atomic = r.atomic /\ b.begun = r.begun /\ b.landed = r.landed
          /\ b.partial = r.partial /\ b.cancelled = r.cancelled /\ b.failed = r.failed
      BY <3>1, <3>3, SettledFields
    <3>5. QED
      BY <2>1, <3>4
  <2>2. CASE step = "commit" /\ a.is = "ok"
    <3>1. Ended("imported", r.landed, 0) \in Outcome
      BY <1>1, RangeType
    <3>2. SettledTo(r, b, Ended("imported", r.landed, 0))
      BY <2>2 DEF LandedOk, SettledTo
    <3> HIDE DEF b
    <3>4. /\ b \in RunRange /\ b.outcome = Ended("imported", r.landed, 0)
          /\ b.atomic = r.atomic /\ b.begun = r.begun /\ b.landed = r.landed
          /\ b.partial = r.partial /\ b.cancelled = r.cancelled /\ b.failed = r.failed
      BY <3>1, <3>2, SettledFields
    <3>5. QED
      BY <2>2, <3>4
  <2>3. CASE step = "begin" /\ a.is = "ok"
    <3>1. b = [r EXCEPT !.begun = TRUE]
      BY <2>3 DEF LandedOk
    <3> HIDE DEF b
    <3>2. /\ b \in RunRange /\ b.outcome = r.outcome
          /\ b.atomic = r.atomic /\ b.begun = TRUE /\ b.landed = r.landed
          /\ b.partial = r.partial /\ b.cancelled = r.cancelled /\ b.failed = r.failed
      BY <3>1 DEF RunRange
    <3>3. QED
      BY <2>3, <3>2
  <2>4. CASE step = "chunk" /\ a.is = "ok"
    <3>1. b = [r EXCEPT !.landed = @ + 1]
      BY <2>4 DEF LandedOk
    <3> HIDE DEF b
    <3>2. /\ b \in RunRange /\ b.outcome = r.outcome
          /\ b.atomic = r.atomic /\ b.begun = r.begun /\ b.landed = r.landed + 1
          /\ b.partial = r.partial /\ b.cancelled = r.cancelled /\ b.failed = r.failed
      BY <1>1, <1>2, <2>4, <3>1 DEF RunRange
    <3>3. QED
      BY <2>4, <3>2
  <2>5. CASE step # "rollback" /\ a.is # "ok"
    <3> DEFINE p == IF step = "chunk" /\ ~r.atomic THEN a.applied ELSE r.partial
               f == (r.failed \/ ~(step = "chunk" /\ r.cancelled /\ a.is = "cancelled"))
    <3>1. b = [r EXCEPT !.partial = p, !.failed = f]
      BY <2>5 DEF LandedErr
    <3>2. p \in 0..Rows /\ f \in BOOLEAN /\ (f \/ (step = "chunk" /\ r.cancelled))
          /\ p = IF r.atomic THEN r.partial ELSE a.applied
      BY <1>1, <2>5
    <3> HIDE DEF b, p, f
    <3>3. /\ b \in RunRange /\ b.outcome = r.outcome
          /\ b.atomic = r.atomic /\ b.begun = r.begun /\ b.landed = r.landed
          /\ b.partial = p /\ b.cancelled = r.cancelled /\ b.failed = f
      BY <3>1, <3>2 DEF RunRange
    <3>4. QED
      BY <2>5, <3>2, <3>3
  <2>6. QED
    BY <2>1, <2>2, <2>3, <2>4, <2>5 DEF Steps
<1>4. l = Settle(b)
  BY DEF Landed
<1> HIDE DEF b, l
<1>5. PICK o \in Outcome :
           /\ SettledTo(b, Settle(b), o)
           /\ ~b.atomic /\ b.failed => o = Ended("failed", b.landed, b.partial)
           /\ ~b.atomic /\ ~b.failed =>
                o = IF b.landed = Chunks THEN Ended("imported", b.landed, 0)
                    ELSE IF b.cancelled THEN Ended("cancelled", b.landed, b.partial)
                    ELSE NoOutcome
           /\ b.atomic => o = b.outcome
  BY <1>3, SettleRange
<1>6. /\ l \in RunRange /\ l.outcome = o
      /\ l.atomic = b.atomic /\ l.begun = b.begun /\ l.landed = b.landed
      /\ l.partial = b.partial /\ l.cancelled = b.cancelled /\ l.failed = b.failed
  <2>1. b \in RunRange /\ o \in Outcome /\ SettledTo(b, l, o)
    BY <1>3, <1>4, <1>5
  <2>2. QED
    BY <2>1, SettledFields
<1>7. Leaves(l)
  BY <1>3, <1>6
<1>8. Outcomes(l)
  BY <1>3, <1>5, <1>6
<1>9. ~r.atomic /\ a.is = "ok" /\ ~r.failed =>
        l.outcome = IF l.landed = Chunks THEN Ended("imported", l.landed, 0)
                    ELSE IF r.cancelled THEN Ended("cancelled", l.landed, r.partial)
                    ELSE NoOutcome
  BY <1>3, <1>5, <1>6
<1>10. ~r.atomic /\ a.is # "ok" =>
         l.outcome = Ended(IF l.failed THEN "failed" ELSE "cancelled", r.landed, a.applied)
  BY <1>2, <1>3, <1>5, <1>6
<1>11. QED
  BY <1>7, <1>8, <1>9, <1>10 DEF l, LandsAs

LEMMA InitBounded == Init => Bounded
<1> SUFFICES ASSUME Init PROVE Bounded
  OBVIOUS
<1>1. PICK b \in BOOLEAN : run = NewRun(b)
  BY DEF Init
<1>2. 0 \in 0..Chunks /\ 0 \in 0..Rows
  BY PlanAssumption
<1>3. run \in RunRange /\ run.landed = 0 /\ run.partial = 0 /\ ~run.failed /\ ~run.begun
  BY <1>1, <1>2, RangeType DEF NewRun, RunRange
<1>4. NoAnswer \in AnswerRange /\ Nothing \in Count
  BY <1>2 DEF NoAnswer, AnswerRange, Nothing, Count
<1>5. TypeOK
  <2>1. note \in [said : BOOLEAN, landed : 0..Chunks]
    BY <1>2 DEF Init
  <2>2. run \in [atomic : BOOLEAN, begun : BOOLEAN, landed : 0..Chunks,
              partial : 0..Rows, cancelled : BOOLEAN, failed : BOOLEAN,
              outcome : Outcome]
    BY <1>3 DEF RunRange
  <2>3. answer \in [is : {"none", "ok", "error", "cancelled"}, applied : 0..Rows]
    BY <1>4 DEF Init, AnswerRange
  <2>4. dialog = "editing" /\ opened = FALSE /\ task = "none" /\ stopping = FALSE
        /\ relogin \in BOOLEAN /\ session = "none" /\ tx = FALSE /\ staged = 0
        /\ kept = Nothing /\ unheard = FALSE
    BY DEF Init
  <2>5. QED
    BY <1>2, <1>4, <2>1, <2>2, <2>3, <2>4 DEF TypeOK
<1>6. answer.is = "none" /\ answer = NoAnswer
  BY DEF Init, NoAnswer
<1>7. dialog = "editing" /\ task = "none" /\ kept = Nothing /\ staged = 0 /\ ~tx
      /\ ~unheard /\ ~stopping
  BY DEF Init
<1>8. QED
  BY <1>3, <1>5, <1>6, <1>7 DEF Bounded, Unsent, ChunksFit, CommitClear

\* Where a run goes after a step that landed.
GoesOn(l) ==
  /\ l \in RunRange /\ l.atomic = run.atomic
  /\ l.landed = IF task = "chunk" /\ answer.is = "ok" THEN run.landed + 1 ELSE run.landed
  /\ l.atomic /\ ~l.begun => l.landed = 0
  /\ l.cancelled = run.cancelled
  /\ NextStep(l) \in {"none", "rollback", "chunk", "commit"}
  /\ ~l.atomic => NextStep(l) \in {"none", "chunk"}
  /\ NextStep(l) = "chunk" =>
       /\ task \in {"begin", "chunk"} /\ answer.is = "ok"
       /\ l.landed < Chunks /\ (l.atomic => l.begun) /\ ~l.failed
  /\ NextStep(l) = "commit" =>
       /\ task = "chunk" /\ answer.is = "ok"
       /\ l.landed = Chunks /\ ~l.failed /\ ~l.cancelled

LEMMA NextOfLanded ==
  ASSUME Bounded, task \in Steps, answer # NoAnswer
  PROVE  GoesOn(Landed(run, task, answer))
<1> DEFINE l == Landed(run, task, answer)
<1> SUFFICES GoesOn(l)
  OBVIOUS
<1>1. run \in RunRange /\ answer \in AnswerRange
  BY DEF Bounded, TypeOK, RunRange, AnswerRange
<1>2. answer.is # "none"
  BY DEF Bounded
<1>3. /\ task = "chunk" => run.landed < Chunks /\ (run.atomic => run.begun) /\ ~run.failed
      /\ ~run.atomic => task = "chunk"
      /\ run.atomic /\ ~run.begun => run.landed = 0
      /\ task = "begin" => run.landed = 0
  BY DEF Bounded, ChunksFit, CommitClear, Steps
<1>4. /\ l \in RunRange
      /\ l.atomic = run.atomic /\ l.cancelled = run.cancelled
      /\ l.landed = IF task = "chunk" /\ answer.is = "ok" THEN run.landed + 1 ELSE run.landed
      /\ l.begun = IF task = "begin" /\ answer.is = "ok" THEN TRUE ELSE run.begun
      /\ answer.is = "ok" \/ task = "rollback" => l.partial = run.partial /\ l.failed = run.failed
      /\ answer.is # "ok" /\ task # "rollback" =>
           /\ l.partial = IF run.atomic THEN run.partial ELSE answer.applied
           /\ l.failed \/ (task = "chunk" /\ run.cancelled)
      /\ run.atomic =>
           l.outcome = IF task = "rollback"
                       THEN Ended(IF run.cancelled THEN "cancelled" ELSE "failed", 0, 0)
                       ELSE IF task = "commit" /\ answer.is = "ok"
                       THEN Ended("imported", run.landed, 0) ELSE run.outcome
      /\ ~run.atomic /\ answer.is = "ok" /\ ~run.failed =>
           l.outcome = IF l.landed = Chunks THEN Ended("imported", l.landed, 0)
                       ELSE IF run.cancelled THEN Ended("cancelled", l.landed, run.partial)
                       ELSE NoOutcome
      /\ ~run.atomic /\ answer.is # "ok" =>
           l.outcome = Ended(IF l.failed THEN "failed" ELSE "cancelled", run.landed, answer.applied)
  BY <1>1, <1>2, <1>3, LandedRange DEF LandsAs
<1> HIDE DEF GoesOn
<1>5. l.landed \in 0..Chunks /\ Chunks \in Nat /\ run.landed \in 0..Chunks
      /\ answer.applied \in 0..Rows /\ 0 \in 0..Chunks /\ 0 \in 0..Rows
  BY <1>1, <1>4, PlanAssumption DEF RunRange, AnswerRange
<1>6. l.atomic /\ ~l.begun => l.landed = 0
  BY <1>3, <1>4
<1>7. CASE ~run.atomic
  <2>1. NextStep(l) = IF l.outcome # NoOutcome THEN "none" ELSE "chunk"
    BY <1>4, <1>7 DEF NextStep
  <2>2. answer.is # "ok" => l.outcome # NoOutcome
    BY <1>4, <1>5, <1>7, RangeType
  <2>3. answer.is = "ok" /\ l.landed = Chunks => l.outcome # NoOutcome
    BY <1>3, <1>4, <1>5, <1>7, RangeType
  <2>4. QED
    BY <1>3, <1>4, <1>5, <1>6, <1>7, <2>1, <2>2, <2>3 DEF GoesOn
<1>8. CASE run.atomic
  <2>1. task = "rollback" \/ (task = "commit" /\ answer.is = "ok") => l.outcome # NoOutcome
    <3>1. task = "rollback" => l.outcome # NoOutcome
      <4>1. task = "rollback" =>
              l.outcome = Ended(IF run.cancelled THEN "cancelled" ELSE "failed", 0, 0)
        BY <1>4, <1>8
      <4>2. QED
        BY <1>5, <4>1, RangeType
    <3>2. task = "commit" /\ answer.is = "ok" => l.outcome # NoOutcome
      BY <1>4, <1>5, <1>8, RangeType
    <3>3. QED
      BY <3>1, <3>2
  <2>2. NextStep(l) = IF l.outcome # NoOutcome THEN "none"
                      ELSE IF l.failed \/ l.cancelled THEN "rollback"
                      ELSE IF ~l.begun THEN "begin"
                      ELSE IF l.landed < Chunks THEN "chunk" ELSE "commit"
    BY <1>4, <1>8 DEF NextStep
  <2>3. answer.is # "ok" => NextStep(l) \in {"none", "rollback"}
    BY <1>4, <2>1, <2>2
  <2>4. CASE answer.is = "ok" /\ task = "begin"
    BY <1>3, <1>4, <1>5, <1>6, <1>8, <2>2, <2>4, PlanAssumption DEF GoesOn
  <2>5. CASE answer.is = "ok" /\ task = "chunk"
    BY <1>3, <1>4, <1>5, <1>6, <1>8, <2>2, <2>5 DEF GoesOn
  <2>6. CASE answer.is # "ok" \/ task \in {"commit", "rollback"}
    <3>1. NextStep(l) \in {"none", "rollback"}
      BY <2>1, <2>2, <2>3, <2>6
    <3>2. QED
      BY <1>4, <1>6, <1>8, <3>1 DEF GoesOn
  <2>7. QED
    BY <2>4, <2>5, <2>6 DEF Steps
<1>9. QED
  BY <1>7, <1>8, <1>1 DEF RunRange

LEMMA OfTypes ==
  ASSUME TypeOK
  PROVE  /\ run \in RunRange /\ answer \in AnswerRange /\ kept \in Count
         /\ run.landed \in 0..Chunks /\ staged \in 0..Chunks
         /\ kept.chunks \in 0..Chunks /\ kept.part \in 0..Rows
         /\ Chunks \in Nat \ {0} /\ Rows \in Nat \ {0}
         /\ NoAnswer \in AnswerRange /\ NoAnswer.is = "none"
         /\ Nothing \in Count /\ Nothing.chunks = 0 /\ Nothing.part = 0
<1>1. Chunks \in Nat \ {0} /\ Rows \in Nat \ {0}
  BY PlanAssumption
<1>2. run \in RunRange /\ answer \in AnswerRange /\ kept \in Count /\ staged \in 0..Chunks
  BY DEF TypeOK, RunRange, AnswerRange
<1>3. run.landed \in 0..Chunks
  BY <1>2 DEF RunRange
<1>4. kept.chunks \in 0..Chunks /\ kept.part \in 0..Rows
  BY <1>2 DEF Count
<1>5. NoAnswer \in AnswerRange /\ NoAnswer.is = "none"
  BY <1>1 DEF NoAnswer, AnswerRange
<1>6. Nothing \in Count /\ Nothing.chunks = 0 /\ Nothing.part = 0
  BY <1>1 DEF Nothing, Count
<1>7. QED
  BY <1>1, <1>2, <1>3, <1>4, <1>5, <1>6

LEMMA StartBounded ==
  ASSUME Bounded, StartImport \/ OpenFails
  PROVE  Bounded'
<1>0. UNCHANGED <<run, opened, note, answer, stopping, relogin, session, tx, staged, kept, unheard>>
  BY DEF StartImport, OpenFails, server
<1>1. \/ dialog = "editing" /\ task' = "opening" /\ dialog' = "running"
      \/ task = "opening" /\ task' = "none" /\ dialog' \in {dialog, "failed"} /\ dialog' # "editing"
  BY DEF StartImport, OpenFails, Running, Bounded, Unsent
<1>2. TypeOK'
  <2>1. TypeOK
    BY DEF Bounded
  <2>2. QED
    BY <1>0, <1>1, <2>1 DEF TypeOK
<1>3. QED
  BY <1>0, <1>1, <1>2 DEF Bounded, Unsent, ChunksFit, CommitClear

LEMMA CancelBounded ==
  ASSUME Bounded, CancelImport \/ Abandon
  PROVE  Bounded'
<1>0. /\ UNCHANGED <<opened, task, answer, relogin, session, tx, staged, kept, unheard>>
      /\ run' = CancelRun(run) /\ dialog = "running" /\ dialog' \in {dialog, "gone"}
      /\ stopping' = (stopping \/ (opened /\ NextStep(run) \in {"begin", "chunk"}))
      /\ note' = note \/ note' = [said |-> TRUE, landed |-> run.landed]
  BY DEF CancelImport, Abandon, Stop, Running, server
<1>1. TypeOK
  BY DEF Bounded
<1>2. run \in RunRange /\ run.landed \in 0..Chunks /\ Chunks \in Nat \ {0}
  BY <1>1, OfTypes
<1>3. /\ run' \in RunRange
      /\ run'.atomic = run.atomic /\ run'.begun = run.begun /\ run'.landed = run.landed
      /\ run'.partial = run.partial /\ run'.failed = run.failed
      /\ run.cancelled => run'.cancelled
      /\ run.landed = Chunks /\ run.atomic => run'.cancelled = run.cancelled
      /\ run.outcome = NoOutcome /\ ~run.failed /\ run.landed < Chunks => run'.cancelled
  BY <1>0, <1>2, CancelRange DEF CancelsAs
<1>4. TypeOK'
  <2>1. dialog \in {"editing", "running", "failed", "closed", "gone"}
        /\ opened \in BOOLEAN /\ task \in Steps \cup {"none", "opening"}
        /\ answer \in [is : {"none", "ok", "error", "cancelled"}, applied : 0..Rows]
        /\ stopping \in BOOLEAN /\ note \in [said : BOOLEAN, landed : 0..Chunks]
        /\ relogin \in BOOLEAN /\ session \in {"none", "open", "lost", "dropped"}
        /\ tx \in BOOLEAN /\ staged \in 0..Chunks /\ kept \in Count /\ unheard \in BOOLEAN
    BY <1>1 DEF TypeOK
  <2>2. note' \in [said : BOOLEAN, landed : 0..Chunks]
    <3>1. note' = note \/ note' = [said |-> TRUE, landed |-> run.landed]
      BY <1>0
    <3>2. run.landed \in 0..Chunks /\ note \in [said : BOOLEAN, landed : 0..Chunks]
      BY <1>2, <2>1
    <3>3. \A b \in BOOLEAN, c \in 0..Chunks :
            [said |-> b, landed |-> c] \in [said : BOOLEAN, landed : 0..Chunks]
      OBVIOUS
    <3>4. QED
      BY <3>1, <3>2, <3>3
  <2>3. stopping' \in BOOLEAN
    BY <1>0, <2>1
  <2>4. QED
    BY <1>0, <1>3, <2>1, <2>2, <2>3 DEF TypeOK, RunRange
<1>5. stopping' /\ run'.atomic => run'.cancelled
  <2>1. CASE stopping
    BY <1>3, <2>1 DEF Bounded, CommitClear
  <2>2. CASE stopping' /\ ~stopping /\ run.atomic
    <3>1. NextStep(run) \in {"begin", "chunk"}
      BY <1>0, <2>2
    <3>2. run.outcome = NoOutcome /\ ~run.failed /\ (~run.begun \/ run.landed < Chunks)
      BY <2>2, <3>1 DEF NextStep
    <3>3. run.landed < Chunks
      BY <1>2, <2>2, <3>2 DEF Bounded, ChunksFit
    <3>4. QED
      BY <1>3, <3>2, <3>3
  <2>3. QED
    BY <1>3, <2>1, <2>2
<1>6. task = "commit" => run.atomic /\ run.landed = Chunks /\ ~run.failed /\ ~run.cancelled
  BY DEF Bounded, CommitClear
<1>7. Unsent'
  BY <1>0, <1>3 DEF Bounded, Unsent
<1>8. ChunksFit'
  BY <1>0, <1>3 DEF Bounded, ChunksFit
<1>9. CommitClear'
  BY <1>0, <1>3, <1>5, <1>6 DEF Bounded, CommitClear
<1>10. QED
  BY <1>0, <1>4, <1>7, <1>8, <1>9 DEF Bounded

LEMMA OpenedBounded ==
  ASSUME Bounded, Opened
  PROVE  Bounded'
<1>0. /\ task = "opening" /\ run' = run /\ answer' = NoAnswer
      /\ UNCHANGED <<note, stopping, relogin, tx, staged, kept, unheard>>
      /\ opened' \in {opened, TRUE}
      /\ dialog' \in {dialog, "failed", "closed"} /\ dialog # "editing"
      /\ session' \in {"open", "dropped"}
      /\ task' \in {"none", NextStep(run)}
  BY DEF Opened, NobodyWaits, Advance, Bounded, Unsent, Running
<1>1. /\ kept = Nothing /\ staged = 0 /\ run.landed = 0 /\ run.partial = 0
      /\ ~run.failed /\ ~run.begun
  BY <1>0 DEF Bounded, Unsent
<1>2. TypeOK
  BY DEF Bounded
<1>3. /\ run \in RunRange /\ NoAnswer.is = "none" /\ Chunks \in Nat \ {0}
      /\ Nothing.chunks = 0 /\ Nothing.part = 0 /\ NoAnswer \in AnswerRange
  BY <1>2, OfTypes
<1>4. NextStep(run) \in {"none", "begin", "rollback", "chunk"}
      /\ (~run.atomic => NextStep(run) \in {"none", "chunk"})
      /\ (run.atomic => NextStep(run) # "chunk")
  BY <1>1 DEF NextStep
<1>5. TypeOK'
  <2>1. opened' \in BOOLEAN
    BY <1>0, <1>2 DEF TypeOK
  <2>2. dialog' \in {"editing", "running", "failed", "closed", "gone"}
        /\ session' \in {"none", "open", "lost", "dropped"}
        /\ task' \in Steps \cup {"none", "opening"}
    BY <1>0, <1>2, <1>4 DEF TypeOK, Steps
  <2>3. answer' \in [is : {"none", "ok", "error", "cancelled"}, applied : 0..Rows]
    BY <1>0, <1>3 DEF AnswerRange
  <2>4. UNCHANGED <<run, note, stopping, relogin, tx, staged, kept, unheard>>
    BY <1>0
  <2>5. QED
    BY <1>2, <2>1, <2>2, <2>3, <2>4 DEF TypeOK
<1>6. QED
  BY <1>0, <1>1, <1>3, <1>4, <1>5 DEF Bounded, Unsent, ChunksFit, CommitClear

LEMMA LandBounded ==
  ASSUME Bounded, Land
  PROVE  Bounded'
<1> DEFINE l == Landed(run, task, answer)
<1>0. /\ task \in Steps /\ answer # NoAnswer /\ answer' = NoAnswer
      /\ UNCHANGED <<opened, note, stopping, relogin, tx, staged, kept, unheard>>
      /\ dialog' \in {dialog, "failed", "closed"} /\ dialog # "editing"
      /\ session' \in {session, "dropped"}
      /\ \/ run' = run /\ task' = "none"
         \/ run' = l /\ task' = NextStep(l)
  <2>1. task \in Steps /\ answer # NoAnswer /\ dialog # "editing"
    BY DEF Land, Bounded, Unsent, Steps
  <2>2. QED
    BY <2>1 DEF Land, NobodyWaits, Advance
<1>1. TypeOK
  BY DEF Bounded
<1>2. /\ run \in RunRange /\ run.landed \in 0..Chunks /\ staged \in 0..Chunks
      /\ kept \in Count /\ kept.chunks \in 0..Chunks /\ NoAnswer.is = "none"
      /\ Chunks \in Nat \ {0} /\ NoAnswer \in AnswerRange
      /\ Nothing.chunks = 0 /\ Nothing.part = 0
  BY <1>1, OfTypes
<1>3. /\ l \in RunRange /\ l.atomic = run.atomic
      /\ l.landed = IF task = "chunk" /\ answer.is = "ok" THEN run.landed + 1 ELSE run.landed
      /\ l.atomic /\ ~l.begun => l.landed = 0
      /\ l.cancelled = run.cancelled
      /\ NextStep(l) \in {"none", "rollback", "chunk", "commit"}
      /\ ~l.atomic => NextStep(l) \in {"none", "chunk"}
      /\ NextStep(l) = "chunk" =>
           /\ task \in {"begin", "chunk"} /\ answer.is = "ok"
           /\ l.landed < Chunks /\ (l.atomic => l.begun) /\ ~l.failed
      /\ NextStep(l) = "commit" =>
           /\ task = "chunk" /\ answer.is = "ok"
           /\ l.landed = Chunks /\ ~l.failed /\ ~l.cancelled
  BY <1>0, NextOfLanded DEF GoesOn
<1> HIDE DEF l
<1>4. TypeOK'
  BY <1>0, <1>1, <1>2, <1>3 DEF TypeOK, AnswerRange, RunRange, Steps
<1>5. Unsent'
  BY <1>0, <1>3 DEF Unsent
<1>6. ChunksFit'
  <2>1. task = "begin" => kept.chunks = 0 /\ kept.part = 0 /\ staged = 0 /\ run.landed = 0
    BY <1>2 DEF Bounded, ChunksFit
  <2>2. task = "chunk" /\ answer.is = "ok" =>
          kept.chunks + staged <= run.landed + 1 /\ kept.part = 0
    BY DEF Bounded, ChunksFit
  <2>3. run'.atomic /\ ~run'.begun => run'.landed = 0
    BY <1>0, <1>3 DEF Bounded, ChunksFit
  <2>4. CASE run' = run /\ task' = "none"
    BY <2>3, <2>4 DEF ChunksFit
  <2>5. CASE run' = l /\ task' = NextStep(l)
    BY <1>0, <1>2, <1>3, <2>1, <2>2, <2>3, <2>5 DEF ChunksFit
  <2>6. QED
    BY <1>0, <2>4, <2>5
<1>7. CommitClear'
  BY <1>0, <1>3 DEF Bounded, CommitClear
<1>8. QED
  BY <1>0, <1>4, <1>5, <1>6, <1>7 DEF Bounded

\* The server's side, of a step that is out: what its answer and the table have
\* to be for the bounds to hold of them.
LEMMA OutBounded ==
  ASSUME Bounded, Out, UNCHANGED <<screen, task, relogin>>,
         NEW is \in {"ok", "error", "cancelled"}, NEW n \in 0..Rows, Says(is, n),
         session' \in {session, "open", "lost", "dropped"},
         stopping' \in {stopping, FALSE},
         tx' \in BOOLEAN, unheard' \in BOOLEAN,
         staged' \in 0..Chunks, kept' \in Count,
         ~run.atomic => ~tx',
         ~tx' => staged' = 0,
         task = "begin" => kept' = kept /\ staged' = 0,
         task = "chunk" => /\ kept'.chunks + staged' <= run.landed + 1
                           /\ is = "ok" => kept'.part = 0,
         task = "commit" => kept'.chunks + staged' <= Chunks
  PROVE  Bounded'
<1>1. /\ UNCHANGED <<dialog, run, opened, note, task, relogin>>
      /\ answer' = [is |-> is, applied |-> n] /\ answer' # NoAnswer
      /\ answer'.is = is /\ is # "none" /\ answer' \in AnswerRange
  BY DEF screen, Says, NoAnswer, AnswerRange
<1>2. TypeOK'
  <2>1. TypeOK
    BY DEF Bounded
  <2>2. session' \in {"none", "open", "lost", "dropped"}
    BY <2>1 DEF TypeOK
  <2>3. stopping' \in BOOLEAN
    BY <2>1 DEF TypeOK
  <2>4. answer' \in [is : {"none", "ok", "error", "cancelled"}, applied : 0..Rows]
    BY <1>1 DEF AnswerRange
  <2>5. UNCHANGED <<dialog, run, opened, note, task, relogin>>
    BY <1>1
  <2>6. QED
    BY <2>1, <2>2, <2>3, <2>4, <2>5 DEF TypeOK
<1>3. Unsent'
  BY <1>1 DEF Bounded, Unsent, Out, Steps
<1>4. ChunksFit'
  <2>1. ChunksFit
    BY DEF Bounded
  <2>2. run' = run /\ task' = task /\ answer'.is = is /\ is # "none"
    BY <1>1
  <2>3. is \in {"none", "ok"} <=> is = "ok"
    OBVIOUS
  <2>4. QED
    BY <2>1, <2>2, <2>3 DEF ChunksFit
<1>5. CommitClear'
  <2>1. stopping' => stopping
    OBVIOUS
  <2>2. QED
    BY <1>1, <2>1 DEF Bounded, CommitClear
<1>6. QED
  BY <1>1, <1>2, <1>3, <1>4, <1>5 DEF Bounded

\* What the bounds say of a step that is out.
LEMMA OutBounds ==
  ASSUME Bounded, Out
  PROVE  /\ answer.is = "none" /\ task \in Steps
         /\ kept \in Count /\ staged \in 0..Chunks /\ tx \in BOOLEAN /\ unheard \in BOOLEAN
         /\ kept.chunks \in 0..Chunks /\ kept.part \in 0..Rows /\ run.landed \in 0..Chunks
         /\ Chunks \in Nat \ {0} /\ Rows \in Nat \ {0}
         /\ ~run.atomic => ~tx
         /\ ~tx => staged = 0
         /\ task = "begin" => staged = 0 /\ kept = Nothing
         /\ task = "chunk" => kept.chunks + staged <= run.landed /\ run.landed < Chunks
                              /\ kept.part = 0
         /\ task = "commit" => kept.chunks + staged <= Chunks
<1>1. TypeOK
  BY DEF Bounded
<1>2. answer.is = "none"
  BY DEF Out, NoAnswer
<1>3. QED
  BY <1>1, <1>2, OfTypes DEF Bounded, Out, TypeOK, ChunksFit, CommitClear

\* Rows more in the table, as many as fit.
LEMMA KeptMore ==
  ASSUME kept \in Count, NEW n \in Nat
  PROVE  /\ kept.chunks + n \in 0..Chunks =>
              LET k == [kept EXCEPT !.chunks = @ + n]
              IN  k \in Count /\ k.chunks = kept.chunks + n /\ k.part = kept.part
         /\ kept.part + n \in 0..Rows =>
              LET k == [kept EXCEPT !.part = @ + n]
              IN  k \in Count /\ k.chunks = kept.chunks /\ k.part = kept.part + n
  BY DEF Count

LEMMA FailsBounded ==
  ASSUME Bounded, Out, NEW is \in {"error", "cancelled"}, Fails(is),
         session' \in {session, "open", "lost", "dropped"},
         stopping' \in {stopping, FALSE}
  PROVE  Bounded'
<1>0. UNCHANGED <<screen, task, relogin, session, unheard>>
  BY DEF Fails
<1>1. /\ kept \in Count /\ staged \in 0..Chunks /\ tx \in BOOLEAN /\ unheard \in BOOLEAN
      /\ kept.chunks \in 0..Chunks /\ kept.part \in 0..Rows /\ run.landed \in 0..Chunks
      /\ Chunks \in Nat \ {0} /\ Rows \in Nat \ {0}
      /\ ~run.atomic => ~tx
      /\ ~tx => staged = 0
      /\ task = "begin" => staged = 0 /\ kept = Nothing
      /\ task = "chunk" => kept.chunks + staged <= run.landed /\ run.landed < Chunks
                           /\ kept.part = 0
      /\ task = "commit" => kept.chunks + staged <= Chunks
  BY OutBounds
<1>2. CASE /\ task = "chunk" /\ ~tx
           /\ \E n \in 0..(Rows - 1) : Says(is, n) /\ kept' = [kept EXCEPT !.part = @ + n]
           /\ UNCHANGED <<tx, staged>>
  <2>1. PICK n \in 0..(Rows - 1) : Says(is, n) /\ kept' = [kept EXCEPT !.part = @ + n]
    BY <1>2
  <2>2. n \in Nat /\ n \in 0..Rows /\ kept.part + n \in 0..Rows
    BY <1>1, <1>2
  <2>3. kept' \in Count /\ kept'.chunks = kept.chunks
    BY <1>1, <2>1, <2>2, KeptMore
  <2>4. kept'.chunks + staged' <= run.landed + 1
    BY <1>1, <1>2, <2>3
  <2>5. QED
    BY <1>0, <1>1, <1>2, <2>1, <2>2, <2>3, <2>4, OutBounded
<1>3. CASE Says(is, 0) /\ UNCHANGED <<tx, staged, kept>>
  <2>1. 0 \in 0..Rows /\ kept.chunks + staged <= run.landed => kept.chunks + staged <= run.landed + 1
    BY <1>1
  <2>2. 0 \in 0..Rows
    BY <1>1
  <2>3. QED
    BY <1>0, <1>1, <1>3, <2>1, <2>2, OutBounded
<1>4. CASE /\ task = "commit"
           /\ Says(is, 0) /\ NoTransaction /\ UNCHANGED kept
  <2>1. 0 \in 0..Rows /\ 0 \in 0..Chunks /\ kept.chunks + 0 <= Chunks
    BY <1>1
  <2>2. tx' = FALSE /\ staged' = 0
    BY <1>4 DEF NoTransaction
  <2>3. QED
    BY <1>0, <1>1, <1>4, <2>1, <2>2, OutBounded
<1>5. QED
  BY <1>2, <1>3, <1>4 DEF Fails

LEMMA ServedBounded ==
  ASSUME Bounded, Served
  PROVE  Bounded'
<1>0. UNCHANGED <<screen, task, stopping, relogin, session, unheard>> /\ Out /\ Says("ok", 0) /\ Carry
  BY DEF Served
<1>1. /\ kept \in Count /\ staged \in 0..Chunks /\ tx \in BOOLEAN /\ unheard \in BOOLEAN
      /\ kept.chunks \in 0..Chunks /\ kept.part \in 0..Rows /\ run.landed \in 0..Chunks
      /\ Chunks \in Nat \ {0} /\ Rows \in Nat \ {0}
      /\ ~run.atomic => ~tx
      /\ ~tx => staged = 0
      /\ task = "begin" => staged = 0 /\ kept = Nothing
      /\ task = "chunk" => kept.chunks + staged <= run.landed /\ run.landed < Chunks
                           /\ kept.part = 0
      /\ task = "commit" => kept.chunks + staged <= Chunks
  BY <1>0, OutBounds
<1>2. 0 \in 0..Rows /\ 0 \in 0..Chunks
  BY <1>1
<1>3. CASE task = "begin" /\ tx' = TRUE /\ staged' = 0 /\ UNCHANGED kept
  <2>1. run.atomic
    BY <1>3 DEF Bounded, CommitClear
  <2>2. QED
    BY <1>0, <1>1, <1>2, <1>3, <2>1, OutBounded
<1>4. CASE task = "chunk" /\ tx /\ staged' = staged + 1 /\ UNCHANGED <<tx, kept>>
  <2>1. staged' \in 0..Chunks /\ kept'.chunks + staged' <= run.landed + 1
    BY <1>1, <1>4
  <2>2. QED
    BY <1>0, <1>1, <1>2, <1>4, <2>1, OutBounded
<1>5. CASE task = "chunk" /\ ~tx /\ kept' = [kept EXCEPT !.chunks = @ + 1] /\ UNCHANGED <<tx, staged>>
  <2>1. kept.chunks + 1 \in 0..Chunks
    BY <1>1, <1>5
  <2>2. kept' \in Count /\ kept'.chunks = kept.chunks + 1 /\ kept'.part = kept.part
    BY <1>1, <1>5, <2>1, KeptMore
  <2>3. kept'.chunks + staged' <= run.landed + 1
    BY <1>1, <1>5, <2>2
  <2>4. QED
    BY <1>0, <1>1, <1>2, <1>5, <2>2, <2>3, OutBounded
<1>6. CASE task = "commit" /\ tx /\ kept' = [kept EXCEPT !.chunks = @ + staged] /\ NoTransaction
  <2>1. kept.chunks + staged \in 0..Chunks /\ staged \in Nat
    BY <1>1, <1>6
  <2>2. kept' \in Count /\ kept'.chunks = kept.chunks + staged
    BY <1>1, <1>6, <2>1, KeptMore
  <2>3. tx' = FALSE /\ staged' = 0
    BY <1>6 DEF NoTransaction
  <2>4. kept'.chunks + staged' <= Chunks
    BY <1>1, <1>6, <2>2, <2>3
  <2>5. QED
    BY <1>0, <1>1, <1>2, <1>6, <2>2, <2>3, <2>4, OutBounded
<1>7. CASE task = "rollback" /\ NoTransaction /\ UNCHANGED kept
  <2>1. tx' = FALSE /\ staged' = 0
    BY <1>7 DEF NoTransaction
  <2>2. QED
    BY <1>0, <1>1, <1>2, <1>7, <2>1, OutBounded
<1>8. QED
  BY <1>0, <1>3, <1>4, <1>5, <1>6, <1>7 DEF Carry

LEMMA LostBounded ==
  ASSUME Bounded, Lost \/ LostBehind \/ Dead
  PROVE  Bounded'
<1>0. UNCHANGED <<screen, task, stopping, relogin>> /\ Out
      /\ session' \in {session, "lost"} /\ unheard' \in {unheard, TRUE}
  BY DEF Lost, LostBehind, Dead, server
<1>1. /\ kept \in Count /\ staged \in 0..Chunks /\ tx \in BOOLEAN /\ unheard \in BOOLEAN
      /\ kept.chunks \in 0..Chunks /\ kept.part \in 0..Rows /\ run.landed \in 0..Chunks
      /\ Chunks \in Nat \ {0} /\ Rows \in Nat \ {0}
      /\ ~run.atomic => ~tx
      /\ ~tx => staged = 0
      /\ task = "begin" => staged = 0 /\ kept = Nothing
      /\ task = "chunk" => kept.chunks + staged <= run.landed /\ run.landed < Chunks
                           /\ kept.part = 0
      /\ task = "commit" => kept.chunks + staged <= Chunks
  BY <1>0, OutBounds
<1>2. 0 \in 0..Rows /\ 0 \in 0..Chunks
  BY <1>1
<1>3. unheard' \in BOOLEAN
  BY <1>0, <1>1
<1>4. PICK is \in {"ok", "error", "cancelled"} : Says(is, 0)
  BY DEF Lost, LostBehind, Dead
<1>5. CASE UNCHANGED kept /\ (NoTransaction \/ UNCHANGED <<tx, staged>>)
  <2>1. tx' \in BOOLEAN /\ staged' \in 0..Chunks /\ staged' <= staged
        /\ (~run.atomic => ~tx') /\ (~tx' => staged' = 0)
    <3>1. CASE tx' = FALSE /\ staged' = 0
      <4>1. tx' \in BOOLEAN
        BY <3>1
      <4>2. staged' \in 0..Chunks /\ staged' <= staged /\ staged' = 0
        BY <1>1, <1>2, <3>1
      <4>3. QED
        BY <3>1, <4>1, <4>2
    <3>2. CASE UNCHANGED <<tx, staged>>
      BY <1>1, <1>2, <3>2
    <3>3. QED
      BY <1>5, <3>1, <3>2 DEF NoTransaction
  <2>2. (task = "chunk" => kept'.chunks + staged' <= run.landed + 1)
        /\ (task = "commit" => kept'.chunks + staged' <= Chunks)
        /\ (task = "begin" => staged' = 0)
    BY <1>1, <1>5, <2>1
  <2>3. QED
    BY <1>0, <1>1, <1>2, <1>3, <1>4, <1>5, <2>1, <2>2, OutBounded
<1>6. CASE /\ \/ task = "chunk" /\ ~tx
              \/ task = "commit" /\ tx
           /\ kept' = [kept EXCEPT !.chunks = @ + (IF tx THEN staged ELSE 1)]
           /\ NoTransaction
  <2> DEFINE m == IF tx THEN staged ELSE 1
  <2>1. m \in Nat /\ kept.chunks + m \in 0..Chunks
        /\ (task = "chunk" => kept.chunks + m <= run.landed + 1)
    BY <1>1, <1>6
  <2>2. kept' = [kept EXCEPT !.chunks = @ + m]
    BY <1>6
  <2> HIDE DEF m
  <2>3. kept' \in Count /\ kept'.chunks = kept.chunks + m /\ kept'.part = kept.part
    BY <1>1, <2>1, <2>2, KeptMore
  <2>4. tx' = FALSE /\ staged' = 0
    BY <1>6 DEF NoTransaction
  <2>5. (task = "chunk" => kept'.chunks + staged' <= run.landed + 1)
        /\ (task = "commit" => kept'.chunks + staged' <= Chunks) /\ task # "begin"
    BY <1>1, <1>6, <2>1, <2>3, <2>4
  <2>6. QED
    BY <1>0, <1>1, <1>2, <1>3, <1>4, <1>6, <2>3, <2>4, <2>5, OutBounded
<1>7. CASE Lost
  <2>1. \/ NoTransaction /\ UNCHANGED kept
        \/ /\ task \in {"chunk", "commit"} /\ (task = "commit" <=> tx)
           /\ kept' = [kept EXCEPT !.chunks = @ + (IF tx THEN staged ELSE 1)]
           /\ NoTransaction
    BY <1>7 DEF Lost
  <2>2. QED
    BY <1>5, <1>6, <2>1
<1>8. CASE LostBehind
  <2>1. CASE task = "chunk" /\ ~tx
    <3>1. kept' = [kept EXCEPT !.chunks = @ + (IF tx THEN staged ELSE 1)] /\ NoTransaction
      BY <1>8, <2>1 DEF LostBehind
    <3>2. QED
      BY <1>6, <2>1, <3>1
  <2>2. CASE ~(task = "chunk" /\ ~tx)
    BY <1>5, <1>8, <2>2 DEF LostBehind
  <2>3. QED
    BY <2>1, <2>2
<1>9. CASE Dead
  BY <1>5, <1>9 DEF Dead, server
<1>10. QED
  BY <1>7, <1>8, <1>9

LEMMA ServerBounded ==
  ASSUME Bounded, Server
  PROVE  Bounded'
<1>1. CASE Served
  BY <1>1, ServedBounded
<1>2. CASE Refused
  BY <1>2, FailsBounded DEF Refused, Fails
<1>3. CASE Lost \/ LostBehind \/ Dead
  BY <1>3, LostBounded
<1>4. CASE StopLands
  <2>0. stopping' = FALSE
    BY <1>4 DEF StopLands
  <2>1. CASE Out /\ Fails("cancelled")
    <3>1. session' = session
      BY <2>1 DEF Fails
    <3>2. QED
      BY <2>0, <2>1, <3>1, FailsBounded
  <2>2. CASE /\ Out /\ session' = "lost" /\ Says("cancelled", 0) /\ NoTransaction
             /\ UNCHANGED <<screen, task, relogin, kept, unheard>>
    <3>1. /\ kept \in Count /\ staged \in 0..Chunks /\ unheard \in BOOLEAN
          /\ kept.chunks \in 0..Chunks /\ run.landed \in 0..Chunks
          /\ Chunks \in Nat \ {0} /\ Rows \in Nat \ {0}
          /\ task = "begin" => staged = 0 /\ kept = Nothing
          /\ task = "chunk" => kept.chunks + staged <= run.landed
          /\ task = "commit" => kept.chunks + staged <= Chunks
      BY <2>2, OutBounds
    <3>2. tx' = FALSE /\ staged' = 0
      BY <2>2 DEF NoTransaction
    <3>3. 0 \in 0..Rows /\ 0 \in 0..Chunks
          /\ (task = "chunk" => kept.chunks + 0 <= run.landed + 1)
          /\ (task = "commit" => kept.chunks + 0 <= Chunks)
      BY <3>1
    <3>4. QED
      BY <2>0, <2>2, <3>1, <3>2, <3>3, OutBounded
  <2>3. CASE UNCHANGED <<screen, task, answer, server>>
    <3>1. UNCHANGED <<dialog, run, opened, note, task, answer, relogin, session, tx, staged, kept, unheard>>
      BY <2>3 DEF screen, server
    <3>2. TypeOK'
      <4>1. stopping' \in BOOLEAN /\ TypeOK
        BY <2>0 DEF Bounded
      <4>2. QED
        BY <3>1, <4>1 DEF TypeOK
    <3>3. QED
      BY <2>0, <3>1, <3>2 DEF Bounded, Unsent, ChunksFit, CommitClear
  <2>4. QED
    BY <1>4, <2>1, <2>2, <2>3 DEF StopLands
<1>5. CASE LogIn \/ RollBack
  <2>1. /\ UNCHANGED <<dialog, run, opened, note, task, answer, stopping, relogin, kept, unheard>>
        /\ session' \in {session, "open"}
        /\ \/ UNCHANGED <<tx, staged>>
           \/ tx' = FALSE /\ staged' = 0
    BY <1>5 DEF LogIn, RollBack, NoTransaction, screen
  <2>2. TypeOK /\ staged \in 0..Chunks /\ kept.chunks \in 0..Chunks /\ Chunks \in Nat \ {0}
    BY OfTypes DEF Bounded
  <2>3. TypeOK'
    <3>1. tx' \in BOOLEAN /\ staged' \in 0..Chunks
      <4>1. CASE tx' = FALSE /\ staged' = 0
        <5>1. tx' \in BOOLEAN
          BY <4>1
        <5>2. staged' \in 0..Chunks
          BY <2>2, <4>1
        <5>3. QED
          BY <5>1, <5>2
      <4>2. CASE UNCHANGED <<tx, staged>>
        BY <2>2, <4>2 DEF TypeOK
      <4>3. QED
        BY <2>1, <4>1, <4>2
    <3>2. session' \in {"none", "open", "lost", "dropped"}
      BY <2>1, <2>2 DEF TypeOK
    <3>3. UNCHANGED <<dialog, run, opened, note, task, answer, stopping, relogin, kept, unheard>>
      BY <2>1
    <3>4. QED
      BY <2>2, <3>1, <3>2, <3>3 DEF TypeOK
  <2>4. staged' <= staged /\ (~tx' => staged' = 0) /\ staged' \in 0..Chunks
        /\ (staged = 0 => staged' = 0)
    BY <2>1, <2>2 DEF Bounded
  <2>5. ChunksFit'
    <3>1. run.landed \in 0..Chunks
      BY <2>2, OfTypes
    <3>2. QED
      BY <2>1, <2>2, <2>4, <3>1 DEF Bounded, ChunksFit
  <2>6. Unsent' /\ CommitClear'
    BY <2>1, <2>4 DEF Bounded, Unsent, CommitClear
  <2>7. QED
    BY <2>1, <2>3, <2>4, <2>5, <2>6 DEF Bounded
<1>6. QED
  BY <1>1, <1>2, <1>3, <1>4, <1>5 DEF Server, Serve

LEMMA StepBounded ==
  ASSUME Bounded, [Next]_vars
  PROVE  Bounded'
<1>1. CASE Done \/ UNCHANGED vars
  <2>1. UNCHANGED <<dialog, run, opened, note, task, answer, stopping, relogin, session,
                    tx, staged, kept, unheard>>
    BY <1>1 DEF Done, vars, screen, server
  <2>2. QED
    BY <2>1 DEF Bounded, TypeOK, Unsent, ChunksFit, CommitClear
<1>2. QED
  BY <1>1, StartBounded, CancelBounded, OpenedBounded, LandBounded, ServerBounded DEF Next

\* What is counted stays within the plan: no chunk lands that the plan does not
\* have, and the table never has more of the file than the file.
THEOREM TypeCorrect == Spec => []TypeOK
<1>1. Init => Bounded
  BY InitBounded
<1>2. Bounded /\ [Next]_vars => Bounded'
  BY StepBounded
<1>3. Bounded => TypeOK
  BY DEF Bounded
<1>4. QED
  BY <1>1, <1>2, <1>3, PTL DEF Spec

\* On every driver stop_import spares a COMMIT: a Cancel is sent to the server
\* only for a run that is cancelled by it, and such a run commits nothing more.
THEOREM SparesCommit == Spec => []CommitSpared
<1>1. Init => Bounded
  BY InitBounded
<1>2. Bounded /\ [Next]_vars => Bounded'
  BY StepBounded
<1>3. Bounded => CommitSpared
  BY DEF Bounded, CommitClear, CommitSpared
<1>4. QED
  BY <1>1, <1>2, <1>3, PTL DEF Spec

-----------------------------------------------------------------------------
(* What is said of an import, at its end and where it goes with its        *)
(* profile.                                                                *)

At(c, p) == [chunks |-> c, part |-> p]

\* What is out of an import that commits as it goes: the table has the chunks
\* that landed and what the last answer says, or a whole chunk nobody heard of.
PieceOut ==
  /\ task = "opening" \/ dialog = "editing" => run.outcome \in {NoOutcome, Ended("cancelled", 0, 0)}
  /\ task = "chunk" =>
       /\ run.partial = 0
       /\ run.outcome \in {NoOutcome, Ended("cancelled", run.landed, 0)}
       /\ answer.is = "none" => kept = At(run.landed, 0) /\ ~unheard
       /\ answer.is = "ok" => kept = At(run.landed + 1, 0) /\ ~unheard
       /\ answer.is \in {"error", "cancelled"} =>
            \/ kept = At(run.landed, answer.applied)
            \/ kept = At(run.landed + 1, 0) /\ unheard
  /\ dialog = "gone" /\ task = "none" => kept.chunks \in {run.landed, run.landed + 1}

\* And of one under All or nothing: the table has nothing, or the whole file
\* once its COMMIT was answered or was not heard of.
WholeOut ==
  /\ dialog \in {"editing", "running", "gone"} => run.outcome = NoOutcome
  /\ task \in {"begin", "chunk"} \/ (task = "commit" /\ answer.is = "none") => ~unheard
  /\ task = "commit" /\ answer.is = "ok" => kept = Whole /\ ~unheard
  /\ run.landed < Chunks => kept = Nothing
  /\ task # "none" => kept = Nothing \/ unheard \/ (task = "commit" /\ answer.is = "ok")

\* A dialog waits for its import, and the note is of the run it left.
Waits ==
  /\ dialog = "running" => task # "none"
  /\ dialog \in {"editing", "failed", "closed"} => task = "none"
  /\ note.said <=> dialog = "gone"
  /\ dialog = "gone" => note.landed = run.landed

Told ==
  /\ Waits
  /\ IF run.atomic THEN WholeOut ELSE PieceOut
  /\ ReportTrue

LEMMA InitTold == Init => Told
<1> SUFFICES ASSUME Init PROVE Told
  OBVIOUS
<1>1. PICK b \in BOOLEAN : run = NewRun(b)
  BY DEF Init
<1>2. run.outcome = NoOutcome /\ run.landed = 0
  BY <1>1 DEF NewRun
<1>3. dialog = "editing" /\ task = "none" /\ kept = Nothing /\ answer.is = "none" /\ ~note.said
  BY DEF Init, NoAnswer
<1>4. QED
  BY <1>2, <1>3 DEF Told, Waits, WholeOut, PieceOut, ReportTrue

LEMMA StartTold ==
  ASSUME Bounded, Told, StartImport \/ OpenFails
  PROVE  Told'
<1>0. UNCHANGED <<run, note, answer, kept, unheard>>
  BY DEF StartImport, OpenFails, server
<1>1. CASE StartImport
  BY <1>0, <1>1 DEF StartImport, Told, Waits, WholeOut, PieceOut, ReportTrue, Bounded, Unsent
<1>2. CASE OpenFails
  <2>1. /\ task = "opening" /\ task' = "none" /\ dialog \in {"running", "gone"}
        /\ dialog' = IF dialog = "running" THEN "failed" ELSE dialog
        /\ kept = Nothing /\ run.landed = 0 /\ ~unheard
    BY <1>2 DEF OpenFails, Running, Bounded, Unsent, Told, Waits, TypeOK
  <2>2. run.outcome \in {NoOutcome, Ended("cancelled", 0, 0)}
    BY <2>1 DEF Told, WholeOut, PieceOut
  <2>3. run.outcome.is # "imported" /\ run.outcome.count = Nothing
    BY <2>2 DEF NoOutcome, Ended, Nothing
  <2>4. kept.chunks = 0 /\ run.outcome.count.chunks = 0
    BY <2>1, <2>3 DEF Nothing
  <2>5. QED
    BY <1>0, <2>1, <2>3, <2>4 DEF Told, Waits, WholeOut, PieceOut, ReportTrue
<1>3. QED
  BY <1>1, <1>2

LEMMA CancelTold ==
  ASSUME Bounded, Told, CancelImport \/ Abandon
  PROVE  Told'
<1>0. /\ UNCHANGED <<task, answer, kept, unheard>>
      /\ run' = CancelRun(run) /\ dialog = "running"
      /\ \/ dialog' = dialog /\ note' = note
         \/ dialog' = "gone" /\ note' = [said |-> TRUE, landed |-> run.landed]
  BY DEF CancelImport, Abandon, Stop, Running, server
<1>1. run \in RunRange /\ run.landed \in 0..Chunks /\ Chunks \in Nat \ {0}
  BY OfTypes DEF Bounded
<1>2. /\ run'.atomic = run.atomic /\ run'.landed = run.landed /\ run'.partial = run.partial
      /\ run.atomic => run'.outcome = run.outcome
      /\ run.outcome = NoOutcome /\ ~run.failed /\ ~run.atomic /\ run.landed < Chunks =>
           run'.outcome = Ended("cancelled", run.landed, run.partial)
      /\ run.outcome # NoOutcome => run' = run
  BY <1>0, <1>1, CancelRange DEF CancelsAs
<1>3. Waits'
  BY <1>0, <1>2 DEF Told, Waits
<1>4. run.atomic => WholeOut'
  BY <1>0, <1>2 DEF Told, WholeOut
<1>5. ~run.atomic => PieceOut'
  <2>1. SUFFICES ASSUME ~run.atomic PROVE PieceOut'
    OBVIOUS
  <2>2. task \in {"opening", "chunk"}
    BY <1>0, <2>1 DEF Told, Waits, Bounded, CommitClear
  <2>3. ~run.failed /\ run.landed < Chunks /\ run.partial = 0
    BY <1>1, <2>1, <2>2 DEF Told, PieceOut, Bounded, Unsent, ChunksFit
  <2>4. task = "opening" => run.landed = 0
    BY DEF Bounded, Unsent
  <2>5. PieceOut
    BY <2>1 DEF Told
  <2>6. run.outcome # NoOutcome => run'.outcome = run.outcome
    BY <1>2
  <2>7. run.outcome = NoOutcome => run'.outcome = Ended("cancelled", run.landed, 0)
    BY <1>2, <2>1, <2>3
  <2>8. QED
    BY <1>0, <1>2, <2>2, <2>4, <2>5, <2>6, <2>7 DEF PieceOut
<1>6. ReportTrue'
  BY <1>0 DEF ReportTrue
<1>7. QED
  BY <1>2, <1>3, <1>4, <1>5, <1>6 DEF Told

LEMMA OpenedTold ==
  ASSUME Bounded, Told, Opened
  PROVE  Told'
<1>0. /\ task = "opening" /\ run' = run /\ answer' = NoAnswer
      /\ UNCHANGED <<note, kept, unheard>>
      /\ kept = Nothing /\ run.landed = 0 /\ run.partial = 0 /\ ~unheard
      /\ ~run.failed /\ ~run.begun
  BY DEF Opened, NobodyWaits, Advance, Bounded, Unsent
<1>1. NoAnswer.is = "none" /\ Nothing = At(0, 0) /\ Nothing.chunks = 0
  BY DEF NoAnswer, Nothing, At
<1>2. run.outcome \in {NoOutcome, Ended("cancelled", 0, 0)}
  BY <1>0 DEF Told, WholeOut, PieceOut, Waits, Bounded, TypeOK
<1>3. run.outcome.is \in {"none", "cancelled"} /\ run.outcome.count = Nothing
  BY <1>2 DEF NoOutcome, Ended, Nothing
<1>4. ReportTrue'
  BY <1>0, <1>1, <1>3 DEF ReportTrue
<1>5. dialog \in {"running", "gone"}
  BY <1>0 DEF Told, Waits, Bounded, TypeOK
<1>6. CASE dialog = "gone"
  <2>1. task' = "none" /\ dialog' = dialog
    BY <1>6 DEF Opened, NobodyWaits, Running
  <2>2. QED
    BY <1>0, <1>1, <1>4, <1>6, <2>1 DEF Told, Waits, WholeOut, PieceOut
<1>7. CASE dialog = "running"
  <2>1. task' = NextStep(run)
        /\ IF NextStep(run) = "none" THEN dialog' \in {"failed", "closed"} ELSE dialog' = dialog
    BY <1>7 DEF Opened, Advance, Running
  <2>2. NextStep(run) \in {"none", "begin", "rollback", "chunk"}
        /\ (NextStep(run) # "none" => run.outcome = NoOutcome)
        /\ (~run.atomic => NextStep(run) \in {"none", "chunk"})
    BY <1>0 DEF NextStep
  <2>3. QED
    BY <1>0, <1>1, <1>2, <1>4, <1>7, <2>1, <2>2 DEF Told, Waits, WholeOut, PieceOut
<1>8. QED
  BY <1>5, <1>6, <1>7

LEMMA LandTold ==
  ASSUME Bounded, Told, Land
  PROVE  Told'
<1> DEFINE l == Landed(run, task, answer)
<1>0. /\ task \in Steps /\ answer # NoAnswer /\ answer.is # "none" /\ answer'.is = "none"
      /\ UNCHANGED <<note, kept, unheard>> /\ dialog \in {"running", "gone"}
  <2>1. task \in Steps /\ answer # NoAnswer /\ UNCHANGED <<note, kept, unheard>> /\ answer' = NoAnswer
    BY DEF Land, NobodyWaits, Advance
  <2>2. dialog \in {"running", "gone"}
    BY <2>1 DEF Told, Waits, Bounded, TypeOK, Steps
  <2>3. answer.is # "none" /\ NoAnswer.is = "none"
    BY <2>1 DEF Bounded, NoAnswer
  <2>4. QED
    BY <2>1, <2>2, <2>3
<1>1. /\ run \in RunRange /\ run.landed \in 0..Chunks /\ Chunks \in Nat \ {0} /\ kept \in Count
      /\ kept.chunks \in 0..Chunks /\ answer \in AnswerRange
  BY OfTypes DEF Bounded
<1>2. answer.is \in {"ok", "error", "cancelled"} /\ answer.applied \in 0..Rows
  BY <1>0, <1>1 DEF AnswerRange
<1>3. /\ task = "chunk" => run.landed < Chunks /\ ~run.failed
      /\ ~run.atomic => task = "chunk"
      /\ task = "commit" => run.landed = Chunks
  BY <1>0 DEF Bounded, ChunksFit, CommitClear, Steps
<1>4. CASE dialog = "gone"
  <2>1. UNCHANGED <<dialog, run>> /\ task' = "none"
    BY <1>4 DEF Land, NobodyWaits, Running
  <2>2. CASE run.atomic
    BY <1>0, <1>4, <2>1, <2>2 DEF Told, Waits, WholeOut, ReportTrue
  <2>3. CASE ~run.atomic
    <3>1. \E p : kept = At(run.landed, p) \/ kept = At(run.landed + 1, p)
      BY <1>2, <1>3, <2>3 DEF Told, PieceOut
    <3>2. kept.chunks \in {run.landed, run.landed + 1}
      BY <3>1 DEF At
    <3>3. QED
      BY <1>0, <1>4, <2>1, <2>3, <3>2 DEF Told, Waits, PieceOut, ReportTrue
  <2>4. QED
    BY <2>2, <2>3
<1>5. CASE dialog = "running"
  <2>1. /\ run' = l
        /\ \/ /\ NextStep(l) = "none" /\ task' = "none"
              /\ dialog' = IF l.outcome.is = "failed" THEN "failed" ELSE "closed"
           \/ NextStep(l) # "none" /\ task' = NextStep(l) /\ dialog' = dialog
    BY <1>5 DEF Land, Advance, Running
  <2>2. Waits'
    BY <1>0, <1>5, <2>1 DEF Told, Waits
  <2>3. /\ l \in RunRange /\ l.atomic = run.atomic
        /\ l.landed = IF task = "chunk" /\ answer.is = "ok" THEN run.landed + 1 ELSE run.landed
        /\ NextStep(l) \in {"none", "rollback", "chunk", "commit"}
        /\ ~l.atomic => NextStep(l) \in {"none", "chunk"}
        /\ NextStep(l) = "chunk" =>
             /\ task \in {"begin", "chunk"} /\ answer.is = "ok" /\ l.landed < Chunks
        /\ NextStep(l) = "commit" => task = "chunk" /\ answer.is = "ok"
    BY <1>0, NextOfLanded DEF GoesOn
  <2>4. LandsAs(run, task, answer, l)
    <3>1. /\ run \in RunRange /\ answer \in AnswerRange /\ task \in Steps /\ answer.is # "none"
          /\ task = "chunk" => run.landed < Chunks
          /\ ~run.atomic => task = "chunk"
      BY <1>0, <1>1, <1>3
    <3>2. QED
      BY <3>1, LandedRange
  <2>5. NextStep(l) # "none" => l.outcome = NoOutcome
    BY DEF NextStep
  <2>6. NextStep(l) = "none" => l.outcome # NoOutcome
    BY DEF NextStep
  <2> HIDE DEF l
  <2>7. CASE run.atomic
    <3>1. WholeOut /\ run.outcome = NoOutcome
      BY <1>5, <2>7 DEF Told, WholeOut
    <3>2. l.landed < Chunks => kept = Nothing
      <4>1. run.landed < Chunks => kept = Nothing
        BY <3>1 DEF WholeOut
      <4>2. l.landed < Chunks => run.landed < Chunks
        BY <1>1, <1>3, <2>3
      <4>3. QED
        BY <4>1, <4>2
    <3>3. CASE NextStep(l) = "none"
      <4>1. task = "rollback" \/ (task = "commit" /\ answer.is = "ok")
        BY <2>4, <2>6, <2>7, <3>1, <3>3 DEF LandsAs
      <4>2. CASE task = "rollback"
        <5>1. l.outcome.is # "imported" /\ l.outcome.count = Nothing
          BY <2>4, <2>7, <4>2 DEF Ended, Nothing, LandsAs
        <5>2. kept = Nothing \/ unheard
          BY <3>1, <4>2 DEF WholeOut
        <5>3. l.outcome.count.chunks <= kept.chunks
          BY <1>1, <5>1 DEF Nothing
        <5>4. ReportTrue'
          BY <1>0, <2>1, <5>1, <5>2, <5>3 DEF ReportTrue
        <5>5. WholeOut'
          BY <1>0, <2>1, <3>2, <3>3 DEF WholeOut
        <5>6. QED
          BY <2>1, <2>2, <2>3, <2>7, <5>4, <5>5 DEF Told
      <4>3. CASE task = "commit" /\ answer.is = "ok"
        <5>1. kept = Whole /\ l.outcome.count = Whole
          BY <1>3, <2>4, <2>7, <3>1, <4>3 DEF Ended, Whole, WholeOut, LandsAs
        <5>2. Whole.chunks <= Whole.chunks
          BY <1>1 DEF Whole
        <5>3. ReportTrue'
          BY <1>0, <2>1, <5>1, <5>2 DEF ReportTrue
        <5>5. WholeOut'
          BY <1>0, <2>1, <3>2, <3>3 DEF WholeOut
        <5>6. QED
          BY <2>1, <2>2, <2>3, <2>7, <5>3, <5>5 DEF Told
      <4>4. QED
        BY <4>1, <4>2, <4>3
    <3>4. CASE NextStep(l) # "none"
      <4>1. ~(task = "commit" /\ answer.is = "ok")
        <5>1. SUFFICES ASSUME task = "commit" /\ answer.is = "ok" PROVE FALSE
          OBVIOUS
        <5>2. l.outcome = Ended("imported", run.landed, 0)
          BY <2>4, <2>7, <5>1 DEF LandsAs
        <5>3. QED
          BY <2>5, <3>4, <5>2 DEF Ended, NoOutcome
      <4>2. kept = Nothing \/ unheard
        BY <1>0, <3>1, <4>1 DEF WholeOut, Steps
      <4>3. task \in {"begin", "chunk"} => ~unheard
        BY <3>1 DEF WholeOut
      <4>4. WholeOut'
        BY <1>0, <1>5, <2>1, <2>3, <2>5, <3>2, <3>4, <4>2, <4>3 DEF WholeOut
      <4>5. ReportTrue'
        BY <1>5, <2>1, <3>4 DEF ReportTrue
      <4>6. QED
        BY <2>1, <2>2, <2>3, <2>7, <4>4, <4>5 DEF Told
    <3>5. QED
      BY <3>3, <3>4
  <2>8. CASE ~run.atomic
    <3>1. PieceOut /\ task = "chunk" /\ run.partial = 0 /\ ~run.failed
      BY <1>3, <2>8 DEF Told, PieceOut
    <3>2. CASE answer.is = "ok"
      <4>1. kept = At(l.landed, 0) /\ ~unheard /\ l.partial = 0
        BY <2>3, <2>4, <3>1, <3>2 DEF PieceOut, LandsAs
      <4>2. l.outcome = IF l.landed = Chunks THEN Ended("imported", l.landed, 0)
                        ELSE IF run.cancelled THEN Ended("cancelled", l.landed, 0)
                        ELSE NoOutcome
        BY <2>4, <2>8, <3>1, <3>2 DEF LandsAs
      <4>3. CASE NextStep(l) = "none"
        <5>1. l.outcome.count = kept /\ (l.outcome.is = "imported" => kept = Whole)
          BY <2>6, <4>1, <4>2, <4>3 DEF Ended, At, Whole
        <5>2. kept.chunks <= kept.chunks
          BY <1>1
        <5>3. ReportTrue'
          BY <1>0, <2>1, <5>1, <5>2 DEF ReportTrue
        <5>4. PieceOut'
          BY <1>5, <2>1, <4>3 DEF PieceOut
        <5>5. QED
          BY <2>1, <2>2, <2>3, <2>8, <5>3, <5>4 DEF Told
      <4>4. CASE NextStep(l) # "none"
        <5>1. task' = "chunk" /\ run' = l /\ dialog' = "running"
          BY <1>5, <2>1, <2>3, <2>8, <4>4
        <5>2. PieceOut'
          BY <1>0, <2>5, <4>1, <4>4, <5>1 DEF PieceOut
        <5>3. ReportTrue'
          BY <5>1 DEF ReportTrue
        <5>4. QED
          BY <2>1, <2>2, <2>3, <2>8, <5>2, <5>3 DEF Told
      <4>5. QED
        BY <4>3, <4>4
    <3>3. CASE answer.is # "ok"
      <4>1. NextStep(l) = "none"
        BY <2>3, <2>8, <3>3
      <4>2. l.outcome = Ended(IF l.failed THEN "failed" ELSE "cancelled", run.landed, answer.applied)
        BY <2>4, <2>8, <3>3 DEF LandsAs
      <4>3. l.outcome.is # "imported" /\ l.outcome.count = At(run.landed, answer.applied)
        BY <4>2 DEF Ended, At
      <4>4. \/ kept = At(run.landed, answer.applied)
            \/ kept = At(run.landed + 1, 0) /\ unheard
        BY <1>2, <3>1, <3>3 DEF PieceOut
      <4>5. l.outcome.count.chunks <= kept.chunks
        BY <1>1, <4>3, <4>4 DEF At
      <4>6. ReportTrue'
        BY <1>0, <2>1, <4>3, <4>4, <4>5 DEF ReportTrue
      <4>7. PieceOut'
        BY <2>1, <4>1 DEF PieceOut
      <4>8. QED
        BY <2>1, <2>2, <2>3, <2>8, <4>6, <4>7 DEF Told
    <3>4. QED
      BY <3>2, <3>3
  <2>9. QED
    BY <2>7, <2>8
<1>6. QED
  BY <1>0, <1>4, <1>5

\* The server's side, of a step that is out.
LEMMA OutTold ==
  ASSUME Bounded, Told, Out, UNCHANGED <<screen, task>>,
         NEW is \in {"ok", "error", "cancelled"}, NEW n \in 0..Rows, Says(is, n),
         unheard' \in {unheard, TRUE},
         run.atomic =>
           \/ kept' = kept /\ unheard' = unheard /\ ~(task = "commit" /\ is = "ok")
           \/ task = "commit" /\ kept' = Whole /\ unheard' = unheard /\ is = "ok"
           \/ task = "commit" /\ kept' = Whole /\ unheard' /\ is = "error",
         ~run.atomic =>
           /\ is = "ok" => kept' = At(run.landed + 1, 0) /\ unheard' = unheard
           /\ is # "ok" => \/ kept' = At(run.landed, n)
                           \/ kept' = At(run.landed + 1, 0) /\ unheard'
  PROVE  Told'
<1>1. UNCHANGED <<dialog, run, note, task>> /\ answer'.is = is
  BY DEF screen, Says
<1>2. task \in Steps /\ answer.is = "none" /\ answer'.applied = n
  BY DEF Out, NoAnswer, Says
<1>3. Waits' /\ dialog' \in {"running", "gone"}
  BY <1>1, <1>2 DEF Told, Waits, Steps, Bounded, TypeOK
<1>4. ReportTrue'
  BY <1>3 DEF ReportTrue
<1>5. CASE run.atomic
  <2>1. WholeOut /\ (task = "commit" => run.landed = Chunks)
    BY <1>5 DEF Told, Bounded, CommitClear
  <2>2. Chunks \in Nat
    BY PlanAssumption
  <2>3. CASE kept' = kept /\ unheard' = unheard /\ ~(task = "commit" /\ is = "ok")
    <3>1. WholeOut'
      BY <1>1, <1>2, <2>1, <2>3 DEF WholeOut
    <3>2. QED
      BY <1>1, <1>3, <1>4, <1>5, <3>1 DEF Told
  <2>4. CASE \/ task = "commit" /\ kept' = Whole /\ unheard' = unheard /\ is = "ok"
             \/ task = "commit" /\ kept' = Whole /\ unheard' /\ is = "error"
    <3>1. WholeOut'
      BY <1>1, <1>2, <2>1, <2>2, <2>4 DEF WholeOut
    <3>2. QED
      BY <1>1, <1>3, <1>4, <1>5, <3>1 DEF Told
  <2>5. QED
    BY <1>5, <2>3, <2>4
<1>6. CASE ~run.atomic
  <2>1. PieceOut /\ task = "chunk"
    BY <1>2, <1>6 DEF Told, Bounded, CommitClear, Steps
  <2>2. answer.is = "none" => ~unheard
    BY <2>1 DEF PieceOut
  <2>3. PieceOut'
    BY <1>1, <1>2, <1>6, <2>1, <2>2 DEF PieceOut
  <2>4. QED
    BY <1>1, <1>3, <1>4, <1>6, <2>3 DEF Told
<1>7. QED
  BY <1>5, <1>6

\* The table while a step is out of an import that commits as it goes.
LEMMA PieceFacts ==
  ASSUME Bounded, Told, Out, ~run.atomic
  PROVE  /\ task = "chunk" /\ ~tx /\ kept = At(run.landed, 0) /\ ~unheard
         /\ \A n \in Nat :
              /\ [kept EXCEPT !.chunks = @ + n] = At(run.landed + n, 0)
              /\ [kept EXCEPT !.part = @ + n] = At(run.landed, n)
<1>1. task = "chunk" /\ ~tx
  BY DEF Bounded, CommitClear, Out, Steps
<1>2. kept = At(run.landed, 0) /\ ~unheard
  BY <1>1 DEF Told, PieceOut, Out, NoAnswer
<1>3. \A n \in Nat : 0 + n = n
  OBVIOUS
<1>4. \A n \in Nat : [kept EXCEPT !.chunks = @ + n] = At(run.landed + n, 0)
  BY <1>2 DEF At
<1>5. \A n \in Nat : [kept EXCEPT !.part = @ + n] = At(run.landed, n)
  BY <1>2, <1>3 DEF At
<1>6. QED
  BY <1>1, <1>2, <1>4, <1>5

LEMMA FailsTold ==
  ASSUME Bounded, IInv, Told, Out, session = "open",
         NEW is \in {"error", "cancelled"}, Fails(is)
  PROVE  Told'
<1>0. UNCHANGED <<screen, task, unheard>>
  BY DEF Fails
<1>1. 0 \in 0..Rows /\ 0..(Rows - 1) \subseteq 0..Rows /\ 0..(Rows - 1) \subseteq Nat
  BY PlanAssumption
<1>2. CASE run.atomic
  <2>1. ~(task = "chunk" /\ ~tx)
    BY <1>2, OutFacts
  <2>2. Says(is, 0) /\ kept' = kept
    BY <2>1 DEF Fails
  <2>3. QED
    BY <1>0, <1>1, <1>2, <2>2, OutTold
<1>3. CASE ~run.atomic
  <2>1. task = "chunk" /\ ~tx
    BY <1>3, PieceFacts
  <2>2. PICK n \in 0..(Rows - 1) : Says(is, n) /\ kept' = [kept EXCEPT !.part = @ + n]
    BY <2>1 DEF Fails
  <2>3. kept' = At(run.landed, n) /\ n \in 0..Rows
    BY <1>1, <1>3, <2>2, PieceFacts
  <2>4. QED
    BY <1>0, <1>3, <2>2, <2>3, OutTold
<1>4. QED
  BY <1>2, <1>3

LEMMA ServedTold ==
  ASSUME Bounded, IInv, Told, Served
  PROVE  Told'
<1>0. UNCHANGED <<screen, task, unheard>> /\ Out /\ session = "open" /\ Says("ok", 0) /\ Carry
  BY DEF Served
<1>1. 0 \in 0..Rows
  BY PlanAssumption
<1>2. CASE run.atomic
  <2>1. /\ task = "chunk" => tx
        /\ task = "commit" => kept = Nothing /\ (tx => staged = Chunks)
    BY <1>0, <1>2, OutFacts
  <2>2. CASE task = "commit" /\ tx /\ kept' = [kept EXCEPT !.chunks = @ + staged]
    <3>1. kept' = Whole
      BY <2>1, <2>2, CommitsWhole
    <3>2. QED
      BY <1>0, <1>1, <1>2, <2>2, <3>1, OutTold
  <2>3. CASE task # "commit" /\ kept' = kept
    BY <1>0, <1>1, <1>2, <2>3, OutTold
  <2>4. QED
    BY <1>0, <2>1, <2>2, <2>3 DEF Carry
<1>3. CASE ~run.atomic
  <2>1. task = "chunk" /\ ~tx
    BY <1>0, <1>3, PieceFacts
  <2>2. kept' = [kept EXCEPT !.chunks = @ + 1]
    BY <1>0, <2>1 DEF Carry
  <2>3. kept' = At(run.landed + 1, 0)
    BY <1>0, <1>3, <2>2, PieceFacts
  <2>4. QED
    BY <1>0, <1>1, <1>3, <2>3, OutTold
<1>4. QED
  BY <1>2, <1>3

LEMMA LostTold ==
  ASSUME Bounded, IInv, Told, Lost \/ LostBehind \/ Dead
  PROVE  Told'
<1>0. UNCHANGED <<screen, task>> /\ Out /\ unheard' \in {unheard, TRUE}
  BY DEF Lost, LostBehind, Dead, server
<1>1. 0 \in 0..Rows
  BY PlanAssumption
<1>2. CASE Dead
  <2>1. Says("error", 0) /\ kept' = kept /\ unheard' = unheard
    BY <1>2 DEF Dead, server
  <2>2. ~run.atomic => kept' = At(run.landed, 0)
    BY <1>0, <2>1, PieceFacts
  <2>3. QED
    BY <1>0, <1>1, <2>1, <2>2, OutTold
<1>3. CASE LostBehind
  <2>1. relogin /\ Says("ok", 0) /\ unheard' = unheard
    BY <1>3 DEF LostBehind
  <2>2. ~run.atomic
    BY <2>1 DEF IInv, Atomic
  <2>3. kept' = [kept EXCEPT !.chunks = @ + 1]
    BY <1>0, <1>3, <2>2, PieceFacts DEF LostBehind
  <2>4. kept' = At(run.landed + 1, 0)
    BY <1>0, <2>2, <2>3, PieceFacts
  <2>5. QED
    BY <1>0, <1>1, <2>1, <2>2, <2>4, OutTold
<1>4. CASE Lost
  <2>0. Says("error", 0) /\ session = "open"
    BY <1>4 DEF Lost
  <2>1. CASE UNCHANGED <<kept, unheard>>
    <3>1. ~run.atomic => kept' = At(run.landed, 0)
      BY <1>0, <2>1, PieceFacts
    <3>2. QED
      BY <1>0, <1>1, <2>0, <2>1, <3>1, OutTold
  <2>2. CASE /\ task \in {"chunk", "commit"} /\ (task = "commit" <=> tx)
             /\ kept' = [kept EXCEPT !.chunks = @ + (IF tx THEN staged ELSE 1)]
             /\ unheard' = TRUE
    <3>1. CASE run.atomic
      <4>1. /\ task = "chunk" => tx
            /\ task = "commit" => kept = Nothing /\ (tx => staged = Chunks)
        BY <1>0, <2>0, <3>1, OutFacts
      <4>2. task = "commit" /\ kept = Nothing /\ kept' = [kept EXCEPT !.chunks = @ + Chunks]
        BY <2>2, <4>1
      <4>3. kept' = Whole
        BY <4>2, CommitsWhole
      <4>4. QED
        BY <1>0, <1>1, <2>0, <2>2, <3>1, <4>2, <4>3, OutTold
    <3>2. CASE ~run.atomic
      <4>1. ~tx
        BY <1>0, <3>2, PieceFacts
      <4>2. kept' = [kept EXCEPT !.chunks = @ + 1]
        BY <2>2, <4>1
      <4>3. kept' = At(run.landed + 1, 0)
        BY <1>0, <3>2, <4>2, PieceFacts
      <4>4. QED
        BY <1>0, <1>1, <2>0, <2>2, <3>2, <4>3, OutTold
    <3>3. QED
      BY <3>1, <3>2
  <2>3. QED
    BY <1>4, <2>1, <2>2 DEF Lost
<1>5. QED
  BY <1>2, <1>3, <1>4

LEMMA SameTold ==
  ASSUME Told, UNCHANGED <<dialog, run, note, task, answer, kept, unheard>>
  PROVE  Told'
  BY DEF Told, Waits, WholeOut, PieceOut, ReportTrue

LEMMA ServerTold ==
  ASSUME Bounded, IInv, Told, Server
  PROVE  Told'
<1>1. CASE Served
  BY <1>1, ServedTold
<1>2. CASE Refused
  BY <1>2, FailsTold DEF Refused
<1>3. CASE Lost \/ LostBehind \/ Dead
  BY <1>3, LostTold
<1>4. CASE StopLands
  <2>1. CASE Out /\ session = "open" /\ Fails("cancelled")
    BY <2>1, FailsTold
  <2>2. CASE /\ Out /\ relogin /\ Says("cancelled", 0)
             /\ UNCHANGED <<screen, task, relogin, kept, unheard>>
    <3>1. ~run.atomic /\ 0 \in 0..Rows
      BY <2>2, PlanAssumption DEF IInv, Atomic
    <3>2. kept' = At(run.landed, 0)
      BY <2>2, <3>1, PieceFacts
    <3>3. QED
      BY <2>2, <3>1, <3>2, OutTold
  <2>3. CASE UNCHANGED <<screen, task, answer, server>>
    BY <2>3, SameTold DEF screen, server
  <2>4. QED
    BY <1>4, <2>1, <2>2, <2>3 DEF StopLands
<1>5. CASE LogIn \/ RollBack
  BY <1>5, SameTold DEF LogIn, RollBack, screen
<1>6. QED
  BY <1>1, <1>2, <1>3, <1>4, <1>5 DEF Server, Serve

\* What there is to know of an import whose driver does not log in again under
\* All or nothing.
Report == IInv /\ Bounded /\ Told

LEMMA StepReport ==
  ASSUME Report, [Next]_vars
  PROVE  Report'
<1>1. IInv' /\ Bounded'
  BY StepIInv, StepBounded DEF Report
<1>2. CASE Done \/ UNCHANGED vars
  BY <1>1, <1>2, SameTold DEF Done, vars, screen, server, Report
<1>3. CASE Next /\ ~Done
  BY <1>1, <1>3, StartTold, CancelTold, OpenedTold, LandTold, ServerTold DEF Next, Report
<1>4. QED
  BY <1>1, <1>2, <1>3 DEF Report

\* What Run::settle and Run::landed count is what the dialog reports, and the
\* table has it: for every number of chunks and rows, in whatever order the
\* answers, the failures and the Cancel of an import come.
THEOREM ReportsTruly ==
  ASSUME SqlServer = FALSE
  PROVE  Spec => []ReportTrue
<1>1. Init => Report
  BY InitTyped, InitAtomic, InitBounded, InitTold DEF Report, IInv
<1>2. Report /\ [Next]_vars => Report'
  BY StepReport
<1>3. Report => ReportTrue
  BY DEF Report, Told
<1>4. QED
  BY <1>1, <1>2, <1>3, PTL DEF Spec

\* So is the note that abandon_import leaves of an import that goes with its
\* profile while a statement of it is still out.
THEOREM NotesTruly ==
  ASSUME SqlServer = FALSE
  PROVE  Spec => []NoteTrue
<1>1. Init => Report
  BY InitTyped, InitAtomic, InitBounded, InitTold DEF Report, IInv
<1>2. Report /\ [Next]_vars => Report'
  BY StepReport
<1>3. ASSUME Report PROVE NoteTrue
  <2>1. SUFFICES ASSUME note.said PROVE NoteTrue
    BY DEF NoteTrue
  <2>2. dialog = "gone" /\ note.landed = run.landed
    BY <1>3, <2>1 DEF Report, Told, Waits
  <2>3. CASE run.atomic
    BY <1>3, <2>2, <2>3 DEF Report, Told, WholeOut, NoteTrue
  <2>4. CASE ~run.atomic
    <3>1. PieceOut /\ task \in {"none", "opening", "chunk"} /\ answer \in AnswerRange
      BY <1>3, <2>4, OfTypes DEF Report, Told, Bounded, CommitClear
    <3>2. CASE task = "none"
      BY <2>2, <2>4, <3>1, <3>2 DEF PieceOut, NoteTrue
    <3>3. CASE task = "opening"
      <4>1. kept = Nothing /\ run.landed = 0
        BY <1>3, <3>3 DEF Report, Bounded, Unsent
      <4>2. QED
        BY <2>2, <2>4, <4>1 DEF NoteTrue, Nothing
    <3>4. CASE task = "chunk"
      <4>1. \E p : kept = At(run.landed, p) \/ kept = At(run.landed + 1, p)
        BY <3>1, <3>4 DEF PieceOut, AnswerRange
      <4>2. QED
        BY <2>2, <2>4, <4>1 DEF NoteTrue, At
    <3>5. QED
      BY <3>1, <3>2, <3>3, <3>4
  <2>5. QED
    BY <2>3, <2>4
<1>4. QED
  BY <1>1, <1>2, <1>3, PTL DEF Spec
=============================================================================
