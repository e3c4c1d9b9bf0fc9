----------------------------- MODULE CldbService -----------------------------
(***************************************************************************)
(* py/api.rs: start_clvm_program and PythonRunStep.  The CldbRun lives in  *)
(* a thread of its own.  The Python handle asks it for a step over one     *)
(* channel and waits for the answer on another.  Overrides are Python      *)
(* callables: the thread needs the interpreter lock (the GIL) to clone and *)
(* to call them, so a handle that waits must have let go of the lock.      *)
(*                                                                         *)
(* The run is abstracted to the number of steps it takes, the steps that   *)
(* call an override and those that give a row to show; the others give     *)
(* None.  A row is the number of the step it came from.                    *)
(***************************************************************************)
EXTENDS Integers, Sequences

CONSTANTS
  Runs,         \* records: length, calls, shows, clones, valid (see RunsAssumption)
  MaxDrops      \* bound: how often the caller calls drop

\* calls are the steps that call an override, shows those that give a row, as
\* the last always does; clones tells whether there are overrides to clone and
\* valid whether the two hex arguments decode.
ASSUME RunsAssumption ==
  \A r \in Runs :
    /\ r.length \in Nat \ {0}
    /\ r.calls \subseteq 1..r.length
    /\ r.shows \subseteq 1..r.length /\ r.length \in r.shows
    /\ r.clones \in BOOLEAN /\ r.valid \in BOOLEAN
ASSUME MaxDropsAssumption == MaxDrops \in Nat

VARIABLES
  run,        \* the run the thread was started for
  commands,   \* channel to the thread: whether to end
  results,    \* channel from the thread: [end, row]
  service,    \* the thread: "setup", "clone", "recv", "call", "send", "gone"
  position,   \* steps the CldbRun has taken
  handle,     \* the Python side: "python", "yielded", "send", "recv", "dict",
              \* "return", "freed"
  ended,      \* PythonRunStep.ended
  taken,      \* results of steps that came to the handle
  last,       \* the step the latest row among them came from
  drops,      \* calls of drop
  gil         \* who holds the interpreter lock: "main", "service", "other"
              \* for another Python thread, or "free"

channels == <<commands, results>>
caller == <<taken, last, drops>>
vars == <<run, commands, results, service, position, handle, ended, taken, last, drops, gil>>

NoRow == 0

Init ==
  /\ run \in Runs
  /\ commands = <<>> /\ results = <<>>
  /\ service = "setup"
  /\ position = 0
  /\ handle = "python"
  /\ ended = FALSE
  /\ taken = 0 /\ last = 0 /\ drops = 0
  /\ gil = "main"

(***************************************************************************)
(* The Python side.                                                        *)
(***************************************************************************)
\* The interpreter lets another thread have the lock, and takes it back.
YieldLock ==
  /\ handle = "python" /\ service \in {"clone", "call"} /\ gil = "main"
  /\ handle' = "yielded" /\ gil' = "free"
  /\ UNCHANGED <<run, channels, service, position, ended, caller>>

ResumePython ==
  /\ handle = "yielded" /\ gil = "free"
  /\ handle' = "python" /\ gil' = "main"
  /\ UNCHANGED <<run, channels, service, position, ended, caller>>

\* Other Python threads of the caller come and go.
OtherTakesLock ==
  /\ gil = "free" /\ gil' = "other"
  /\ UNCHANGED <<run, channels, service, position, handle, ended, caller>>

OtherReleasesLock ==
  /\ gil = "other" /\ gil' = "free"
  /\ UNCHANGED <<run, channels, service, position, handle, ended, caller>>

\* step: allow_threads lets go of the lock.  On an ended handle the call
\* returns at once and changes nothing.
CallStep ==
  /\ handle = "python" /\ ~ended
  /\ handle' = "send" /\ gil' = "free"
  /\ UNCHANGED <<run, channels, service, position, ended, caller>>

\* tx.send(false) fails when the thread is gone.
SendCommand ==
  /\ handle = "send"
  /\ IF service = "gone"
     THEN handle' = "return" /\ UNCHANGED commands
     ELSE handle' = "recv" /\ commands' = Append(commands, FALSE)
  /\ UNCHANGED <<run, results, service, position, ended, caller, gil>>

ReceiveResult ==
  /\ handle = "recv" /\ results # <<>>
  /\ LET res == Head(results)
     IN /\ ended' = (ended \/ res.end)
        /\ taken' = IF res.end /\ res.row = NoRow THEN taken ELSE taken + 1
        /\ IF res.row = NoRow
           THEN handle' = "return" /\ UNCHANGED last
           ELSE handle' = "dict" /\ last' = res.row
  /\ results' = Tail(results)
  /\ UNCHANGED <<run, commands, service, position, drops, gil>>

\* rx.recv() fails once the thread is gone and its answers are read.
ReceiveFails ==
  /\ handle = "recv" /\ results = <<>> /\ service = "gone"
  /\ handle' = "return"
  /\ UNCHANGED <<run, channels, service, position, ended, caller, gil>>

\* The row becomes a dict of the caller's: with_gil, then back to waiting.
BuildDict ==
  /\ handle = "dict" /\ gil = "free"
  /\ handle' = "return"
  /\ UNCHANGED <<run, channels, service, position, ended, caller, gil>>

ReturnToPython ==
  /\ handle = "return" /\ gil = "free"
  /\ handle' = "python" /\ gil' = "main"
  /\ UNCHANGED <<run, channels, service, position, ended, caller>>

\* drop: a failed send is of no interest.
CallDrop ==
  /\ handle = "python" /\ drops < MaxDrops
  /\ drops' = drops + 1
  /\ commands' = IF service = "gone" THEN commands ELSE Append(commands, TRUE)
  /\ UNCHANGED <<run, results, service, position, handle, ended, taken, last, gil>>

\* The handle is garbage and its channel ends with it.
Free ==
  /\ handle = "python"
  /\ handle' = "freed" /\ gil' = "free"
  /\ UNCHANGED <<run, channels, service, position, ended, caller>>

(***************************************************************************)
(* The service thread.                                                     *)
(***************************************************************************)
\* The thread decodes the program and its arguments, or returns.
Setup ==
  /\ service = "setup"
  /\ service' = IF ~run.valid THEN "gone" ELSE IF run.clones THEN "clone" ELSE "recv"
  /\ UNCHANGED <<run, channels, position, handle, ended, caller, gil>>

CloneOverrides ==
  /\ service = "clone" /\ gil = "free"
  /\ service' = "recv"
  /\ UNCHANGED <<run, channels, position, handle, ended, caller, gil>>

RowOf(n) == IF n \in run.shows THEN n ELSE NoRow

Answer(end, row) == results' = Append(results, [end |-> end, row |-> row])

\* Fault: a command to end is taken for a command to step.
Receive_IgnoresEnd ==
  /\ service = "recv" /\ commands # <<>>
  /\ commands' = Tail(commands)
  /\ position' = position + 1
  /\ service' = IF position + 1 \in run.calls THEN "call" ELSE "send"
  /\ UNCHANGED <<run, results, handle, ended, caller, gil>>

\* A command to end, or one for a run that is over, ends the thread; another
\* makes the run take a step, which may call an override.
Receive ==
  /\ service = "recv" /\ commands # <<>>
  /\ commands' = Tail(commands)
  /\ IF Head(commands) \/ position = run.length
     THEN /\ Answer(TRUE, NoRow)
          /\ service' = "gone"
          /\ UNCHANGED position
     ELSE /\ position' = position + 1
          /\ service' = IF position + 1 \in run.calls THEN "call" ELSE "send"
          /\ UNCHANGED results
  /\ UNCHANGED <<run, handle, ended, caller, gil>>

\* Fault: the thread looks for its handle only once the run is over.
Orphaned_AfterEnd ==
  /\ service = "recv" /\ commands = <<>> /\ handle = "freed" /\ position = run.length
  /\ service' = "gone"
  /\ UNCHANGED <<run, channels, position, handle, ended, caller, gil>>

\* No handle is left: commands are all read and their sender is gone.
Orphaned ==
  /\ service = "recv" /\ commands = <<>> /\ handle = "freed"
  /\ service' = "gone"
  /\ UNCHANGED <<run, channels, position, handle, ended, caller, gil>>

\* get_override: with_gil around the Python call.
TakeLock ==
  /\ service = "call" /\ gil = "free"
  /\ gil' = "service"
  /\ UNCHANGED <<run, channels, service, position, handle, ended, caller>>

CallReturns ==
  /\ service = "call" /\ gil = "service"
  /\ gil' = "free" /\ service' = "send"
  /\ UNCHANGED <<run, channels, position, handle, ended, caller>>

\* Fault: the run is said to be over one step early.
SendResult_OffByOne ==
  /\ service = "send"
  /\ IF handle = "freed"
     THEN service' = "gone" /\ UNCHANGED results
     ELSE Answer(position >= run.length - 1, RowOf(position)) /\ service' = "recv"
  /\ UNCHANGED <<run, commands, position, handle, ended, caller, gil>>

\* Fault: a step without a row is not answered.
SendResult_RowsOnly ==
  /\ service = "send"
  /\ IF RowOf(position) = NoRow
     THEN service' = "recv" /\ UNCHANGED results
     ELSE Answer(position = run.length, RowOf(position)) /\ service' = "recv"
  /\ UNCHANGED <<run, commands, position, handle, ended, caller, gil>>

\* The answer to a step; with no handle to take it the thread returns.
SendResult ==
  /\ service = "send"
  /\ IF handle = "freed"
     THEN service' = "gone" /\ UNCHANGED results
     ELSE Answer(position = run.length, RowOf(position)) /\ service' = "recv"
  /\ UNCHANGED <<run, commands, position, handle, ended, caller, gil>>

Terminated == handle = "freed" /\ service = "gone" /\ UNCHANGED vars

Next ==
  \/ YieldLock \/ ResumePython \/ OtherTakesLock \/ OtherReleasesLock
  \/ CallStep \/ SendCommand \/ ReceiveResult \/ ReceiveFails
  \/ BuildDict \/ ReturnToPython
  \/ CallDrop \/ Free
  \/ Setup \/ CloneOverrides \/ Receive \/ Orphaned
  \/ TakeLock \/ CallReturns \/ SendResult
  \/ Terminated

Spec == Init /\ [][Next]_vars

\* Both threads are scheduled, and calls of Python code return.  The lock is
\* strongly fair: the interpreter hands it over to a thread that asks for it
\* before it takes it back.  Nothing makes the caller call step, drop or free.
Fairness ==
  /\ WF_vars(YieldLock) /\ WF_vars(OtherReleasesLock)
  /\ WF_vars(SendCommand) /\ WF_vars(ReceiveResult) /\ WF_vars(ReceiveFails)
  /\ SF_vars(BuildDict) /\ SF_vars(ReturnToPython)
  /\ WF_vars(Setup) /\ SF_vars(CloneOverrides)
  /\ WF_vars(Receive) /\ WF_vars(Orphaned)
  /\ SF_vars(TakeLock) /\ WF_vars(CallReturns) /\ WF_vars(SendResult)

FairSpec == Spec /\ Fairness

(***************************************************************************)
(* Properties                                                              *)
(***************************************************************************)

TypeOK ==
  /\ run \in Runs
  /\ commands \in Seq(BOOLEAN)
  /\ results \in Seq([end : BOOLEAN, row : Nat])
  /\ service \in {"setup", "clone", "recv", "call", "send", "gone"}
  /\ position \in 0..run.length
  /\ handle \in {"python", "yielded", "send", "recv", "dict", "return", "freed"}
  /\ ended \in BOOLEAN
  /\ taken \in Nat /\ last \in Nat /\ drops \in 0..MaxDrops
  /\ gil \in {"main", "service", "other", "free"}

\* The thread is never ahead of the handle by more than the step asked for,
\* and a handle that nobody dropped is over exactly when the run is (api.rs
\* runstep and the thread's loop).
InStep ==
  /\ position \in {taken, taken + 1}
  /\ position # taken => handle = "recv"
  /\ ended /\ drops = 0 => taken = run.length

\* Whatever the two threads do in between, the handle gives the results of
\* the run's steps, each once and in order.
Api == INSTANCE StepApi WITH length <- run.length, shows <- run.shows, dropped <- drops > 0

HandleSteps == Api!Spec

\* A call of step comes back, also when the step calls Python, when the
\* program did not decode and when the run was dropped.
StepReturns == handle \in {"send", "recv"} ~> handle = "python"

\* A run that is dropped or whose handle is gone does not keep its thread.
ThreadEnds == (handle = "freed" \/ drops > 0) ~> service = "gone"
=============================================================================
