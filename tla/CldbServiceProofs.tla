-------------------------- MODULE CldbServiceProofs --------------------------
(***************************************************************************)
(* That the service thread and the Python handle stay in step (py/api.rs), *)
(* for runs of any length, any steps that call overrides or give rows, and *)
(* any number of drops, and that together they are a StepApi.              *)
(***************************************************************************)
EXTENDS CldbService, SequenceTheorems, TLAPS

Waiting == {"setup", "clone", "recv"}
Working == {"call", "send"}

\* What is under way between the two, by where they are.  A run that was
\* dropped is over with the command that the thread reads next.
Idle ==
  /\ handle # "recv" /\ service \in Waiting
  /\ results = <<>> /\ position = taken
  /\ drops = 0 => commands = <<>>
  /\ drops # 0 => commands # <<>> /\ Head(commands)
Asked ==
  /\ handle = "recv" /\ service \in Waiting
  /\ results = <<>> /\ position = taken
  /\ drops = 0 => commands = <<FALSE>>
  /\ drops # 0 => commands # <<>> /\ Head(commands)
Stepping ==
  /\ handle = "recv" /\ service \in Working
  /\ commands = <<>> /\ results = <<>> /\ position = taken + 1 /\ drops = 0
Answered ==
  /\ handle = "recv" /\ service = "recv"
  /\ commands = <<>> /\ position = taken + 1 /\ drops = 0
  /\ results = <<[end |-> position = run.length, row |-> RowOf(position)]>>
Gone ==
  /\ service = "gone" /\ position = taken
  /\ results # <<>> => drops # 0 /\ results = <<[end |-> TRUE, row |-> NoRow]>>

\* A handle is over with the run's last step or because it was dropped, and
\* then it asks for nothing.
Over ==
  /\ taken = run.length => ended
  /\ ended /\ drops = 0 => taken = run.length
  /\ handle \in {"send", "recv"} => ~ended

InTouch == Idle \/ Asked \/ Stepping \/ Answered \/ Gone
IInv == TypeOK /\ InTouch /\ Over

\* One end of a channel and the other.
LEMMA Channel ==
  ASSUME NEW S, NEW s \in Seq(S), NEW x \in S
  PROVE  /\ Append(s, x) \in Seq(S) /\ Append(s, x) # <<>>
         /\ s # <<>> => Head(Append(s, x)) = Head(s)
         /\ s = <<>> => Append(s, x) = <<x>>
         /\ s # <<>> => Tail(s) \in Seq(S) /\ Head(s) \in S
         /\ Tail(<<x>>) = <<>> /\ Head(<<x>>) = x /\ <<x>> # <<>>
<1>1. <<>> \in Seq(S) /\ Append(<<>>, x) = <<x>>
  OBVIOUS
<1>2. Append(s, x) \in Seq(S) /\ Append(s, x) # <<>>
  BY AppendProperties
<1>3. s # <<>> => Head(Append(s, x)) = Head(s)
  BY HeadTailAppend
<1>4. s # <<>> => Tail(s) \in Seq(S) /\ Head(s) \in S
  BY HeadTailProperties
<1>5. Tail(<<x>>) = <<>> /\ Head(<<x>>) = x /\ <<x>> # <<>>
  BY <1>1, HeadTailAppend, AppendProperties
<1> QED
  BY <1>1, <1>2, <1>3, <1>4, <1>5

\* A channel that holds one thing.
LEMMA OneThing ==
  ASSUME NEW x
  PROVE  Head(<<x>>) = x /\ Tail(<<x>>) = <<>>
  OBVIOUS

\* Another command on the channel.
LEMMA AnotherCommand ==
  ASSUME NEW s \in Seq(BOOLEAN), NEW x \in BOOLEAN
  PROVE  /\ Append(s, x) \in Seq(BOOLEAN) /\ Append(s, x) # <<>>
         /\ s = <<>> => Append(s, x) = <<x>>
         /\ s # <<>> => Head(Append(s, x)) = Head(s)
  BY Channel

\* What a step of the run shows.
LEMMA Rows ==
  ASSUME NEW n \in Nat, run \in Runs
  PROVE  /\ run.length \in Nat /\ run.length # 0
         /\ RowOf(n) \in Nat
         /\ n = run.length => RowOf(n) = n
  BY RunsAssumption DEF RowOf, NoRow

\* What the types say of numbers.
LEMMA Numbers ==
  ASSUME TypeOK
  PROVE  /\ run.length \in Nat /\ run.length # 0 /\ position \in Nat /\ position <= run.length
         /\ RowOf(position) \in Nat
         /\ position = run.length => RowOf(position) # NoRow
         /\ drops \in Nat /\ taken \in Nat
<1>1. run \in Runs /\ run.length \in Nat /\ run.length # 0
  BY RunsAssumption DEF TypeOK
<1>2. position \in Nat /\ position <= run.length
  BY <1>1 DEF TypeOK
<1>3. RowOf(position) \in Nat /\ (position = run.length => RowOf(position) = position)
  BY <1>1, <1>2, Rows
<1>4. drops \in Nat /\ taken \in Nat
  BY MaxDropsAssumption DEF TypeOK
<1> QED
  BY <1>1, <1>2, <1>3, <1>4 DEF NoRow

\* A channel with one answer.
LEMMA OneAnswer ==
  ASSUME NEW end \in BOOLEAN, NEW row \in Nat
  PROVE  <<[end |-> end, row |-> row]>> \in Seq([end : BOOLEAN, row : Nat])
  OBVIOUS

\* A thread that was just started and a handle nobody has used.
LEMMA Begins == Init => IInv
<1> SUFFICES ASSUME Init PROVE IInv
  OBVIOUS
<1>1. run.length \in Nat \ {0}
  BY RunsAssumption DEF Init
<1>2. TypeOK
  <2>1. commands \in Seq(BOOLEAN) /\ results \in Seq([end : BOOLEAN, row : Nat])
    BY DEF Init
  <2>2. position \in 0..run.length /\ drops \in 0..MaxDrops /\ taken \in Nat /\ last \in Nat
    BY <1>1, MaxDropsAssumption DEF Init
  <2> QED
    BY <2>1, <2>2 DEF Init, TypeOK
<1>3. Idle
  BY DEF Init, Idle, Waiting
<1>4. Over
  BY <1>1 DEF Init, Over
<1> QED
  BY <1>2, <1>3, <1>4 DEF IInv, InTouch
(***************************************************************************)
(* One lemma for each step that touches the channels or what is counted.   *)
(***************************************************************************)
\* The handle sends its command only when nothing is under way.
LEMMA SendKeeps == IInv /\ SendCommand => IInv'
<1> SUFFICES ASSUME IInv, SendCommand PROVE IInv'
  OBVIOUS
<1> USE DEF IInv, TypeOK, caller, channels
<1>1. /\ Append(commands, FALSE) \in Seq(BOOLEAN) /\ Append(commands, FALSE) # <<>>
      /\ commands = <<>> => Append(commands, FALSE) = <<FALSE>>
      /\ commands # <<>> => Head(Append(commands, FALSE)) = Head(commands)
  <2>1. commands \in Seq(BOOLEAN)
    OBVIOUS
  <2> QED
    BY ONLY <2>1, AnotherCommand
<1>2. TypeOK'
  <2>1. commands' \in Seq(BOOLEAN)
    BY <1>1 DEF SendCommand
  <2> QED
    BY <2>1 DEF SendCommand
<1>3. Over'
  BY DEF SendCommand, Over
<1>4. InTouch'
  <2>1. CASE service = "gone"
    BY <2>1 DEF InTouch, Idle, Asked, Stepping, Answered, Gone, SendCommand, Waiting, Working
  <2>2. CASE service # "gone"
    <3>1. Idle
      BY <2>2 DEF InTouch, Idle, Asked, Stepping, Answered, Gone, SendCommand
    <3>2. Asked'
      BY <1>1, <2>2, <3>1 DEF Idle, Asked, SendCommand, Waiting
    <3> QED
      BY <3>2 DEF InTouch
  <2> QED
    BY <2>1, <2>2
<1> QED
  BY <1>2, <1>3, <1>4

\* What the handle reads is the answer to its step, or the end of a dropped run.
LEMMA ReceiveResultKeeps == IInv /\ ReceiveResult => IInv'
<1> SUFFICES ASSUME IInv, ReceiveResult PROVE IInv'
  OBVIOUS
<1> USE DEF IInv, caller, channels
<1>1. /\ run.length \in Nat /\ run.length # 0 /\ position \in Nat /\ taken \in Nat
      /\ RowOf(position) \in Nat /\ (position = run.length => RowOf(position) # NoRow)
  BY Numbers
<1>2. CASE Answered
  <2>1. Head(results) = [end |-> position = run.length, row |-> RowOf(position)] /\ Tail(results) = <<>>
    BY <1>2 DEF Answered
  <2>2. /\ ended' = (ended \/ position = run.length) /\ taken' = taken + 1
        /\ handle' \in {"return", "dict"} /\ last' \in Nat
        /\ results' = <<>>
    BY <1>1, <2>1 DEF ReceiveResult, NoRow, TypeOK
  <2>3. TypeOK'
    BY <2>2, EmptySeq DEF ReceiveResult, TypeOK
  <2>4. Idle'
    BY <1>2, <2>2 DEF Answered, Idle, ReceiveResult, Waiting, TypeOK
  <2>5. Over'
    BY <1>1, <1>2, <2>2 DEF Over, Answered, ReceiveResult, TypeOK
  <2> QED
    BY <2>3, <2>4, <2>5 DEF InTouch
<1>3. CASE Gone
  <2>1. Head(results) = [end |-> TRUE, row |-> NoRow] /\ Tail(results) = <<>> /\ drops # 0
    BY <1>3 DEF Gone, ReceiveResult
  <2>2. ended' = TRUE /\ taken' = taken /\ handle' = "return" /\ last' = last /\ results' = <<>>
    BY <1>3, <2>1 DEF Gone, ReceiveResult, TypeOK
  <2>3. TypeOK'
    BY <2>2, EmptySeq DEF ReceiveResult, TypeOK
  <2>4. Gone'
    BY <1>3, <2>2 DEF Gone, ReceiveResult
  <2>5. Over'
    BY <2>1, <2>2 DEF Over, ReceiveResult
  <2> QED
    BY <2>3, <2>4, <2>5 DEF InTouch
<1> QED
  BY <1>2, <1>3 DEF InTouch, Idle, Asked, Stepping, ReceiveResult

\* A drop comes between calls of step.
LEMMA DropKeeps == IInv /\ CallDrop => IInv'
<1> SUFFICES ASSUME IInv, CallDrop PROVE IInv'
  OBVIOUS
<1> USE DEF IInv, caller, channels
<1>1. /\ Append(commands, TRUE) \in Seq(BOOLEAN) /\ Append(commands, TRUE) # <<>>
      /\ commands = <<>> => Append(commands, TRUE) = <<TRUE>>
      /\ commands # <<>> => Head(Append(commands, TRUE)) = Head(commands)
  <2>1. commands \in Seq(BOOLEAN)
    BY DEF TypeOK
  <2> QED
    BY ONLY <2>1, AnotherCommand
<1>2. drops \in Nat /\ drops' \in 0..MaxDrops /\ drops' # 0
  BY MaxDropsAssumption DEF TypeOK, CallDrop
<1>3. TypeOK'
  <2>1. commands' \in Seq(BOOLEAN)
    BY <1>1 DEF TypeOK, CallDrop
  <2> QED
    BY <1>2, <2>1 DEF CallDrop, TypeOK
<1>4. Over'
  BY <1>2 DEF CallDrop, Over
<1>5. CASE Idle
  <2>1. Append(commands, TRUE) # <<>> /\ Head(Append(commands, TRUE))
    <3>1. Head(<<TRUE>>)
      BY OneThing, Zenon
    <3> QED
      BY <1>1, <1>5, <3>1 DEF Idle
  <2>2. commands' = Append(commands, TRUE)
    BY <1>5 DEF Idle, Waiting, CallDrop
  <2>3. Idle'
    BY <1>2, <1>5, <2>1, <2>2 DEF Idle, CallDrop
  <2> QED
    BY <1>3, <1>4, <2>3 DEF InTouch
<1>6. CASE Gone
  BY <1>2, <1>3, <1>4, <1>6 DEF Gone, InTouch, CallDrop
<1> QED
  BY <1>5, <1>6 DEF InTouch, Asked, Stepping, Answered, CallDrop

\* A command to end is answered by that.
LEMMA EndsTheRun ==
  ASSUME Receive, Head(commands), results = <<>>
  PROVE  service' = "gone" /\ position' = position /\ results' = <<[end |-> TRUE, row |-> NoRow]>>
<1>1. service' = "gone" /\ position' = position /\ results' = Append(results, [end |-> TRUE, row |-> NoRow])
  BY Zenon DEF Receive, Answer
<1>2. Append(<<>>, [end |-> TRUE, row |-> NoRow]) = <<[end |-> TRUE, row |-> NoRow]>>
  BY EmptySeq, Channel
<1> QED
  BY <1>1, <1>2, Zenon

\* A thread that reads a command was asked, or told to end.
LEMMA ReceiveKeeps == IInv /\ Receive => IInv'
<1> SUFFICES ASSUME IInv, Receive PROVE IInv'
  OBVIOUS
<1> USE DEF IInv, caller, channels
<1>1. run.length \in Nat /\ position \in Nat /\ position <= run.length /\ taken \in Nat
  BY Numbers
<1>2. Tail(commands) \in Seq(BOOLEAN) /\ commands' = Tail(commands)
  BY HeadTailProperties DEF TypeOK, Receive
<1>3. CASE Idle
  <2>1. drops # 0 /\ Head(commands)
    BY <1>3 DEF Idle, Receive
  <2>2. service' = "gone" /\ position' = position /\ results' = <<[end |-> TRUE, row |-> NoRow]>>
    BY <1>3, <2>1, EndsTheRun DEF Idle
  <2>3. TypeOK'
    BY <1>2, <2>2, OneAnswer DEF Receive, TypeOK, NoRow
  <2>4. Gone' /\ Over'
    BY <1>3, <2>1, <2>2 DEF Gone, Idle, Receive, Over
  <2> QED
    BY <2>3, <2>4 DEF InTouch
<1>4. CASE Asked /\ drops # 0
  <2>1. service' = "gone" /\ position' = position /\ results' = <<[end |-> TRUE, row |-> NoRow]>>
    BY <1>4, EndsTheRun DEF Asked
  <2>2. TypeOK'
    BY <1>2, <2>1, OneAnswer DEF Receive, TypeOK, NoRow
  <2>3. Gone' /\ Over'
    BY <1>4, <2>1 DEF Gone, Asked, Receive, Over
  <2> QED
    BY <2>2, <2>3 DEF InTouch
<1>5. CASE Asked /\ drops = 0
  <2>1. ~Head(commands)
    BY <1>5, OneThing, Zenon DEF Asked
  <2>2. Tail(commands) = <<>> /\ position # run.length
    BY <1>5, OneThing DEF Asked, Over
  <2>3. service' \in Working /\ position' = position + 1 /\ results' = results
    BY <2>1, <2>2 DEF Receive, Working
  <2>4. TypeOK'
    <3>1. position' \in 0..run.length
      BY <1>1, <2>2, <2>3
    <3> QED
      BY <1>2, <2>3, <3>1 DEF Receive, TypeOK, Working
  <2>5. Stepping' /\ Over'
    BY <1>2, <1>5, <2>2, <2>3 DEF Stepping, Asked, Receive, Over
  <2> QED
    BY <2>4, <2>5 DEF InTouch
<1> QED
  BY <1>3, <1>4, <1>5 DEF InTouch, Stepping, Answered, Gone, Receive, Working

\* A thread that has a result was asked for it.
LEMMA SendResultKeeps == IInv /\ SendResult => IInv'
<1> SUFFICES ASSUME IInv, SendResult PROVE IInv'
  OBVIOUS
<1> USE DEF IInv, caller, channels
<1>1. RowOf(position) \in Nat /\ (position = run.length) \in BOOLEAN
  BY Numbers
<1>2. Stepping
  BY DEF InTouch, Idle, Asked, Answered, Gone, SendResult, Waiting
<1>3. results' = <<[end |-> position = run.length, row |-> RowOf(position)]>> /\ service' = "recv"
  BY <1>2 DEF Stepping, SendResult, Answer
<1>4. TypeOK'
  BY <1>1, <1>3 DEF SendResult, TypeOK
<1>5. UNCHANGED RowOf(position)
  BY DEF SendResult, RowOf
<1>6. Answered' /\ Over'
  BY <1>2, <1>3, <1>5 DEF Answered, Stepping, SendResult, Over
<1> QED
  BY <1>4, <1>6 DEF InTouch
(***************************************************************************)
(* The steps that move nothing from one side to the other.                 *)
(***************************************************************************)
Local ==
  \/ YieldLock \/ ResumePython \/ OtherTakesLock \/ OtherReleasesLock
  \/ CallStep \/ ReceiveFails \/ BuildDict \/ ReturnToPython \/ Free
  \/ Setup \/ CloneOverrides \/ Orphaned \/ TakeLock \/ CallReturns

\* They leave both channels and all counts alone.
LEMMA LocalKeeps == IInv /\ Local => IInv'
<1> SUFFICES ASSUME IInv, Local PROVE IInv'
  OBVIOUS
<1> USE DEF IInv, caller, channels
<1>1. UNCHANGED <<run, commands, results, position, taken, last, drops, ended>>
  BY DEF Local, YieldLock, ResumePython, OtherTakesLock, OtherReleasesLock, CallStep, ReceiveFails, BuildDict,
    ReturnToPython, Free, Setup, CloneOverrides, Orphaned, TakeLock, CallReturns
<1>2. TypeOK'
  BY <1>1 DEF TypeOK, Local, YieldLock, ResumePython, OtherTakesLock, OtherReleasesLock, CallStep, ReceiveFails, BuildDict,
    ReturnToPython, Free, Setup, CloneOverrides, Orphaned, TakeLock, CallReturns
<1>3. UNCHANGED RowOf(position)
  BY <1>1 DEF RowOf
<1>4. Over'
  BY <1>1 DEF Over, Local, YieldLock, ResumePython, OtherTakesLock, OtherReleasesLock, CallStep, ReceiveFails, BuildDict,
    ReturnToPython, Free, Setup, CloneOverrides, Orphaned, TakeLock, CallReturns
<1>5. InTouch'
  <2>1. CASE YieldLock
    BY <1>1, <1>3, <2>1 DEF YieldLock, InTouch, Idle, Asked, Stepping, Answered, Gone, Waiting, Working
  <2>2. CASE ResumePython
    BY <1>1, <1>3, <2>2 DEF ResumePython, InTouch, Idle, Asked, Stepping, Answered, Gone, Waiting, Working
  <2>3. CASE OtherTakesLock
    BY <1>1, <1>3, <2>3 DEF OtherTakesLock, InTouch, Idle, Asked, Stepping, Answered, Gone, Waiting, Working
  <2>4. CASE OtherReleasesLock
    BY <1>1, <1>3, <2>4 DEF OtherReleasesLock, InTouch, Idle, Asked, Stepping, Answered, Gone, Waiting, Working
  <2>5. CASE CallStep
    BY <1>1, <1>3, <2>5 DEF CallStep, InTouch, Idle, Asked, Stepping, Answered, Gone, Waiting, Working
  <2>6. CASE ReceiveFails
    BY <1>1, <1>3, <2>6 DEF ReceiveFails, InTouch, Idle, Asked, Stepping, Answered, Gone, Waiting, Working
  <2>7. CASE BuildDict
    BY <1>1, <1>3, <2>7 DEF BuildDict, InTouch, Idle, Asked, Stepping, Answered, Gone, Waiting, Working
  <2>8. CASE ReturnToPython
    BY <1>1, <1>3, <2>8 DEF ReturnToPython, InTouch, Idle, Asked, Stepping, Answered, Gone, Waiting, Working
  <2>9. CASE Free
    BY <1>1, <1>3, <2>9 DEF Free, InTouch, Idle, Asked, Stepping, Answered, Gone, Waiting, Working
  <2>10. CASE Setup
    BY <1>1, <1>3, <2>10 DEF Setup, InTouch, Idle, Asked, Stepping, Answered, Gone, Waiting, Working
  <2>11. CASE CloneOverrides
    BY <1>1, <1>3, <2>11 DEF CloneOverrides, InTouch, Idle, Asked, Stepping, Answered, Gone, Waiting, Working
  <2>12. CASE Orphaned
    BY <1>1, <1>3, <2>12 DEF Orphaned, InTouch, Idle, Asked, Stepping, Answered, Gone, Waiting, Working
  <2>13. CASE TakeLock
    BY <1>1, <1>3, <2>13 DEF TakeLock, InTouch, Idle, Asked, Stepping, Answered, Gone, Waiting, Working
  <2>14. CASE CallReturns
    BY <1>1, <1>3, <2>14 DEF CallReturns, InTouch, Idle, Asked, Stepping, Answered, Gone, Waiting, Working
  <2> QED
    BY <2>1, <2>2, <2>3, <2>4, <2>5, <2>6, <2>7, <2>8, <2>9, <2>10, <2>11, <2>12, <2>13, <2>14 DEF Local
<1> QED
  BY <1>2, <1>4, <1>5

\* So every step keeps what is under way in order.
LEMMA Kept == IInv /\ [Next]_vars => IInv'
<1> SUFFICES ASSUME IInv, [Next]_vars PROVE IInv'
  OBVIOUS
<1>1. CASE UNCHANGED vars
  BY <1>1 DEF vars, IInv, TypeOK, InTouch, Over, Idle, Asked, Stepping, Answered, Gone, Waiting, Working, RowOf
<1>2. CASE Local
  BY <1>2, LocalKeeps
<1> QED
  BY <1>1, <1>2, SendKeeps, ReceiveResultKeeps, DropKeeps, ReceiveKeeps, SendResultKeeps, Zenon
     DEF Next, Local, Terminated

\* IInv holds in every run.
LEMMA Always == Spec => []IInv
<1> QED
  BY Begins, Kept, PTL DEF Spec

\* The variables of the service keep their types: the run never goes past
\* its end and the handle is never dropped more often than it may be.
THEOREM TypeCorrect == Spec => []TypeOK
<1>1. IInv => TypeOK
  BY DEF IInv
<1> QED
  BY <1>1, Always, PTL

\* The thread is never ahead of the handle by more than the step asked for
\* (py/api.rs start_clvm_program and runstep), whatever the run and however
\* often it is dropped.
THEOREM StaysInStep == Spec => []InStep
<1>1. IInv => InStep
  BY DEF IInv, InTouch, Over, InStep, TypeOK, Idle, Asked, Stepping, Answered, Gone
<1> QED
  BY <1>1, Always, PTL

(***************************************************************************)
(* The handle as its user sees it.                                         *)
(***************************************************************************)
\* A result that is read is the next one, or the run was dropped.
LEMMA Advances == IInv /\ ReceiveResult => [Api!Next]_(Api!vars)
<1> SUFFICES ASSUME IInv, ReceiveResult PROVE [Api!Next]_(Api!vars)
  OBVIOUS
<1>1. /\ run.length \in Nat /\ run.length # 0 /\ position \in Nat /\ taken \in Nat
      /\ RowOf(position) \in Nat /\ (position = run.length => RowOf(position) # NoRow)
  BY Numbers DEF IInv
<1>2. CASE Answered
  <2>1. Head(results) = [end |-> position = run.length, row |-> RowOf(position)]
    BY <1>2 DEF Answered
  <2>2. ~ended /\ drops = 0 /\ position = taken + 1
    BY <1>2 DEF Answered, IInv, Over
  <2>3. /\ ended' = (taken + 1 = run.length) /\ taken' = taken + 1
        /\ UNCHANGED <<run, drops>>
    BY <1>1, <2>1, <2>2 DEF ReceiveResult, NoRow, IInv, TypeOK
  <2>4. last' = IF taken + 1 \in run.shows THEN taken + 1 ELSE last
    BY <1>1, <2>1, <2>2 DEF ReceiveResult, NoRow, RowOf
  <2> QED
    BY <2>2, <2>3, <2>4 DEF Api!Next, Api!Advance
<1>3. CASE Gone
  <2>1. Head(results) = [end |-> TRUE, row |-> NoRow] /\ drops # 0 /\ drops \in Nat
    BY <1>3, Numbers DEF Gone, ReceiveResult, IInv
  <2>2. ended' = TRUE /\ UNCHANGED <<run, taken, last, drops>>
    BY <2>1 DEF ReceiveResult, IInv, TypeOK
  <2> QED
    BY <2>1, <2>2 DEF Api!Next, Api!GiveUp
<1> QED
  BY <1>2, <1>3 DEF IInv, InTouch, Idle, Asked, Stepping, ReceiveResult

\* Every step is one of StepApi or changes nothing the user sees.
LEMMA Implements == IInv /\ [Next]_vars => [Api!Next]_(Api!vars)
<1> SUFFICES ASSUME IInv, [Next]_vars PROVE [Api!Next]_(Api!vars)
  OBVIOUS
<1>1. CASE UNCHANGED <<run, caller, ended>>
  BY <1>1 DEF caller, Api!vars
<1>2. CASE CallDrop
  BY <1>2, Numbers DEF CallDrop, IInv, Api!Next, Api!Drop
<1>3. CASE ReceiveResult
  BY <1>3, Advances
<1>4. CASE Local
  BY <1>1, <1>4 DEF Local, YieldLock, ResumePython, OtherTakesLock, OtherReleasesLock, CallStep, ReceiveFails, BuildDict,
    ReturnToPython, Free, Setup, CloneOverrides, Orphaned, TakeLock, CallReturns
<1>5. CASE SendCommand \/ Receive \/ SendResult
  BY <1>1, <1>5 DEF SendCommand, Receive, SendResult, caller
<1>6. CASE UNCHANGED vars
  BY <1>1, <1>6 DEF vars, caller
<1> QED
  BY <1>2, <1>3, <1>4, <1>5, <1>6, Zenon DEF Next, Local, Terminated

\* Whatever the thread and its caller do in between, the handle gives the
\* results of the run's steps, each once and in order (py/api.rs runstep):
\* the service implements StepApi.
THEOREM GivesEachResult == Spec => HandleSteps
<1>1. Init => Api!Init
  BY DEF Init, Api!Init
<1> QED
  BY <1>1, Always, Implements, PTL DEF Spec, HandleSteps, Api!Spec
=============================================================================
