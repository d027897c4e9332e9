-------------------------- MODULE ExecutionSystem --------------------------
(***************************************************************************)
(* Run, Stop, Restart, Pause, Step and INPUT in the IDE, end to end: the   *)
(* main thread (RuntimeController) and the execution worker                *)
(* (WorkerSession), joined by the two queues of the worker port.           *)
(***************************************************************************)
EXTENDS RuntimeController, WorkerSession, FiniteSets

vars == << mainVars, workerVars >>

Init == MainInit /\ WorkerInit

\* The student; nothing obliges them to act.
Student ==
  /\ \/ \E mode \in { "continue", "stepInto" } : Run(mode)
     \/ Stop
     \/ Restart
     \/ Pause
     \/ \E mode \in StepMode : Resume(mode)
     \/ SubmitInput
     \/ \E line \in Lines : EditBreakpoint(line)
  /\ UNCHANGED workerVars

Deliver ==
  \/ DeliverEvent /\ UNCHANGED workerVars
  \/ DeliverCrash /\ Terminated /\ UNCHANGED faults

\* Recreating or disposing the worker kills whatever it runs.
Host ==
  \/ RecreateWorker /\ Terminated /\ Fault
  \/ Dispose /\ Terminated /\ Fault

\* What the main thread keeps to itself while the worker moves.
mainOnly == << ui, runVars, loc, bps, delivered, clicks, crashes, port, ready,
               pending >>

Worker ==
  /\ \/ HandleWorkerCommand
     \/ \E s \in Session : SessionStep(s)
     \/ Crash
     \/ \E s \in Session : RunRejects(s)
  /\ UNCHANGED mainOnly

Next == Student \/ Deliver \/ Host \/ Worker

(***************************************************************************)
(* The event loops of both threads are fair: a queued message is           *)
(* delivered, a microtask runs and a timer fires.  The student is not.     *)
(***************************************************************************)
Fairness ==
  /\ WF_vars(Deliver)
  /\ WF_vars(HandleWorkerCommand /\ UNCHANGED mainOnly)
  /\ \A s \in Session : WF_vars(SessionStep(s) /\ UNCHANGED mainOnly)

Spec == Init /\ [][Next]_vars /\ Fairness

TypeOK == MainTypeOK /\ WorkerTypeOK

\* Bound of execution_safety (a CONSTRAINT): a fifth generation, which lets a
\* third session join the queue, comes without a fault and without a click.
ThirdIsPlain == gen > 4 => faults + clicks = 0

-----------------------------------------------------------------------------
(* What the student sees is true *)

\* Some run's promise is pending exactly while the UI is busy, and it is the
\* promise of the run the commands go to: no caller of run() waits for a run
\* that nobody can stop any more.  (RuntimeController.run, restart, stop.)
PromiseTracksState ==
  \A s \in Session : promise[s] = "pending" <=> (ui \in Busy /\ s = sid)

\* A paused UI shows the statement at which the worker is really parked, so a
\* step or Continue acts on what the student sees.  Only a run whose worker
\* died can be paused in the UI alone.
PausedIsParked ==
  ui = "paused" /\ sid \notin lost =>
    /\ cur = sid
    /\ ses[sid].pc = "parked"
    /\ loc = ses[sid].steps

\* The INPUT prompt is shown only to a program that is waiting for it, so the
\* line the student types is never dropped by the worker.
PromptIsAwaited ==
  ui = "waitingForInput" /\ sid \notin lost =>
    cur = sid /\ ses[sid].pc = "input"

\* While the worker does not fail: when no message is in flight, a run that is
\* blocked in the debugger or in INPUT is shown as such, and a busy UI has a
\* live session in the worker, so that nobody waits for somebody who is waiting
\* for them.
NoSilentStall ==
  /\ faults = 0
  /\ ui \in Busy /\ ready /\ toWorker = << >> /\ fromWorker = << >>
  =>
    /\ ses[sid].pc \notin { "none", "ended" }
    /\ ses[sid].pc = "parked" => ui = "paused"
    /\ ses[sid].pc = "input" => ui = "waitingForInput"
    /\ ses[sid].pc = "queued" => ses[ses[sid].after].pc \in Runnable \cup Executing

\* When a run is reported finished, every line its program printed has been
\* delivered to the main thread under that run, once each, before the end was:
\* no line is overtaken by the terminal event, counted twice, or taken from
\* another session.  (What the console keeps of them is less: pushConsole drops
\* all but the last MAX_CONSOLE_LINES, and clearConsole empties it.)
FinishedDeliveredAllOutput ==
  ui \in { "completed", "runtimeError" } /\ gen = sid /\ sid \notin lost =>
    delivered[sid] = said[sid]

\* While a run is current no line it printed is lost or doubled on its way to
\* the main thread.
OutputsOf(s) == { i \in 1 .. Len(fromWorker) :
                    fromWorker[i].type = "output" /\ fromWorker[i].sid = s }

NoOutputLost ==
  ui \in Busy /\ sid \notin lost =>
    said[sid] = delivered[sid] + Cardinality(OutputsOf(sid))

\* A run that ended stays ended until the student starts another: no late
\* event of any session revives or relabels it.
EndedStaysEnded ==
  [][ (ui \in Terminal /\ ui' # ui) => (gen' > gen /\ ui' = "running") ]_vars

\* setState stores whatever it is given; the steps it takes are nevertheless
\* those of the table canTransition.
TransitionsAreLegal == [][ canTransition(ui, ui') ]_ui

\* Once the worker has handled a Stop, the program it stopped executes no
\* statement and prints nothing more.
StoppedRunsNoMore ==
  [][ \A s \in Session : ses[s].abort =>
        /\ said'[s] = said[s]
        /\ ses'[s].steps <= ses[s].steps ]_vars

\* A program that neither pauses nor asks for INPUT ends, and the UI learns
\* of it: "running" is never for ever.
RunningEnds == ui = "running" ~> ui # "running"

\* A session the worker is asked to stop while it is current gets there.
StopTakesEffect ==
  \A s \in Session : ses[s].abort ~> ses[s].pc = "ended"

-----------------------------------------------------------------------------
(* The controller implements the lifecycle of a run *)

Lifecycle == INSTANCE RunLifecycle
               WITH RunId <- Session, phase <- ui, run <- sid

\* Through stale events, overlapping sessions and a worker that dies, every
\* step of the system is a step of RunLifecycle or invisible to it.
ImplementsLifecycle == Lifecycle!Spec

-----------------------------------------------------------------------------
(* The inductive invariant behind PromiseTracksState, EndedStaysEnded and  *)
(* ImplementsLifecycle                                                     *)

\* Once a session id was given out, the commands of the UI carry one, which is
\* never ahead of the generation.
SidKnown == sid <= gen /\ (gen # 0 => sid # 0)

\* The UI is busy with the run it can stop, and the resolver of that run's
\* promise, and of no other, is still there.
RunTracked ==
  /\ ui \in Busy => gen = sid /\ sid # 0 /\ settle = sid
  /\ ui \notin Busy => settle = None
  /\ \A s \in Session : promise[s] = "pending" <=> s = settle

IsRun(c) == c.type = "run"

\* Nothing carries a session id that was not given out yet.
Issued ==
  /\ \A s \in Session : ses[s].pc # "none" => s <= gen
  /\ \A i \in 1 .. Len(fromWorker) : fromWorker[i].sid <= gen
  /\ \A i \in 1 .. Len(toWorker) : toWorker[i].sid <= gen
  /\ \A i \in 1 .. Len(pending) : pending[i].sid <= gen

\* A run command is on its way once, and its session has not begun.
RunsOnce(queue) ==
  \A i \in 1 .. Len(queue) : IsRun(queue[i]) =>
    /\ ses[queue[i].sid].pc = "none"
    /\ \A j \in 1 .. Len(queue) :
         IsRun(queue[j]) /\ queue[j].sid = queue[i].sid => j = i

OneQueue == IF ready THEN pending = << >> ELSE toWorker = << >>

\* The last word of a session is its last: what follows it in the queue is
\* of other sessions, and the session has ended.
IsFinal(e) == e.sid # None /\ e.type \in Terminal \cup { "workerError" }

LastWords ==
  \A i \in 1 .. Len(fromWorker) : IsFinal(fromWorker[i]) =>
    /\ ses[fromWorker[i].sid].pc = "ended"
    /\ \A j \in 1 .. Len(fromWorker) :
         fromWorker[j].sid = fromWorker[i].sid => j <= i

\* When the UI is not busy, nothing is left that could speak in the name of
\* the current generation.
Quiesced ==
  ui \notin Busy =>
    /\ gen # 0 => ses[gen].pc \in { "none", "ended" }
    /\ \A i \in 1 .. Len(fromWorker) :
         fromWorker[i].sid # None => fromWorker[i].sid # gen
    /\ \A i \in 1 .. Len(toWorker) : IsRun(toWorker[i]) => toWorker[i].sid # gen
    /\ \A i \in 1 .. Len(pending) : IsRun(pending[i]) => pending[i].sid # gen

\* Together with TypeOK: what PromiseTracksState, EndedStaysEnded and
\* ImplementsLifecycle rest on.
RunInv ==
  /\ SidKnown
  /\ RunTracked
  /\ Issued
  /\ OneQueue /\ RunsOnce(toWorker) /\ RunsOnce(pending)
  /\ LastWords
  /\ Quiesced

-----------------------------------------------------------------------------
(* The inductive invariant behind PausedIsParked, PromptIsAwaited,         *)
(* FinishedDeliveredAllOutput, NoSilentStall and StoppedRunsNoMore         *)

\* A session that executes, or that was refused and has not said so yet.
Live == Executing \cup { "rejected" }

\* Runs arrive in the order of their ids, and nothing newer than a run on its
\* way has begun.
RunsAscend(queue) ==
  \A i \in 1 .. Len(queue) : IsRun(queue[i]) =>
    /\ \A t \in Session : t >= queue[i].sid => ses[t] = Fresh
    /\ \A j \in 1 .. Len(queue) :
         i < j /\ IsRun(queue[j]) => queue[i].sid < queue[j].sid

\* Whoever waits, waits for the promise the runner holds now, and that of a
\* session that lives; runs that were woken leave nobody waiting.
WaitForTail ==
  /\ tail # None => ses[tail].pc \in Live
  /\ \A s \in Session : ses[s].pc = "queued" =>
       tail # None /\ ses[s].after = tail /\ NoneBegins

\* Sessions begin in the order of their ids, and the newest of all is the
\* current one as long as it lives.
NewestIsCurrent ==
  /\ cur # None => ses[cur].pc \in Live
  /\ \A s, t \in Session : t < s /\ ses[s].pc \in Live =>
       ses[t].pc \notin { "queued", "begin" }
  /\ \A s \in Session :
       ses[s].pc \in Live /\ (\A t \in Session : s < t => ses[t].pc = "none")
         => cur = s

\* The signal is aborted only where the session looks at it next, and never
\* for the run the student sees.
AbortsAreSeen ==
  /\ \A s \in Session : ses[s].abort => ses[s].pc \in { "run", "yield" }
  /\ \A i \in 1 .. Len(toWorker) : toWorker[i].type = "stop" => toWorker[i].sid < gen
  /\ \A i \in 1 .. Len(pending) : pending[i].type = "stop" => pending[i].sid < gen
  /\ ui \in Busy => ~ses[sid].abort

OrderInv ==
  /\ RunsAscend(toWorker) /\ RunsAscend(pending)
  /\ \A s \in Session : ses[s].pc = "none" => ses[s] = Fresh
  /\ WaitForTail
  /\ NewestIsCurrent
  /\ AbortsAreSeen

\* What suspends the program, and what lets it go on.
Asks(e, s)    == e.sid = s /\ e.type \in { "paused", "inputRequest" }
Answers(c, s) == c.sid = s /\ c.type \in { "resume", "input" }
NoAnswer(s) ==
  /\ \A i \in 1 .. Len(toWorker) : ~Answers(toWorker[i], s)
  /\ \A i \in 1 .. Len(pending) : ~Answers(pending[i], s)
NoneSaid(s) == \A i \in 1 .. Len(fromWorker) : fromWorker[i].sid # s

\* The phase in which a session waits for the answer c, or after the event e.
AwaitedBy(c) == IF c.type = "resume" THEN "parked" ELSE "input"
WaitsAfter(e) == IF e.type = "paused" THEN "parked" ELSE "input"

\* An event that suspends the run is the last the program said.
AskIsLast(s) ==
  \A i \in 1 .. Len(fromWorker) : Asks(fromWorker[i], s) =>
    /\ ui = "running"
    /\ ses[s].pc = WaitsAfter(fromWorker[i])
    /\ fromWorker[i].type = "paused" => fromWorker[i].step = ses[s].steps
    /\ NoAnswer(s)
    /\ \A j \in 1 .. Len(fromWorker) : fromWorker[j].sid = s => j <= i

\* The student is asked only when the program has said all, and waits.
SuspendedTogether(s) ==
  ui \in { "paused", "waitingForInput" } =>
    /\ ses[s].pc = (IF ui = "paused" THEN "parked" ELSE "input")
    /\ ui = "paused" => loc = ses[s].steps
    /\ NoAnswer(s)
    /\ NoneSaid(s)

\* An answer finds the program waiting for it, and is the only one.
AnswerIsAwaited(queue, s) ==
  \A i \in 1 .. Len(queue) : Answers(queue[i], s) =>
    /\ ui = "running"
    /\ ses[s].pc = AwaitedBy(queue[i])
    /\ NoneSaid(s)
    /\ \A j \in 1 .. Len(queue) : Answers(queue[j], s) => j = i

\* A session that died with its worker, or lost events with it, is not heard
\* of again.
LostAreSilent ==
  \A s \in lost :
    /\ s <= gen
    /\ ses[s].pc \in { "none", "ended" }
    /\ NoneSaid(s)
    /\ \A i \in 1 .. Len(toWorker) : IsRun(toWorker[i]) => toWorker[i].sid # s
    /\ \A i \in 1 .. Len(pending) : IsRun(pending[i]) => pending[i].sid # s

\* The program and the student take turns.
TurnInv ==
  ui \in Busy /\ sid \notin lost =>
    /\ AskIsLast(sid)
    /\ SuspendedTogether(sid)
    /\ AnswerIsAwaited(toWorker, sid) /\ AnswerIsAwaited(pending, sid)

\* The lines in flight are those said and not yet delivered.
OutputInv ==
  /\ gen = 0 => ui = "idle"
  /\ \A s \in Session : gen < s => said[s] = 0 /\ delivered[s] = 0
  /\ gen = sid /\ sid # 0 /\ sid \notin lost =>
       said[sid] = delivered[sid] + Cardinality(OutputsOf(sid))

\* Without faults a run that is not where the student thinks it is has a
\* message on its way that says so.
MessageUnderway ==
  /\ ui \in Busy => port = "live"
  /\ faults = 0 =>
       /\ lost = {}
       /\ \A i \in 1 .. Len(fromWorker) : ~IsCrash(fromWorker[i])
       /\ ui \in Busy =>
            /\ ses[sid].pc = "none" =>
                 \/ \E i \in 1 .. Len(toWorker) :
                      IsRun(toWorker[i]) /\ toWorker[i].sid = sid
                 \/ \E i \in 1 .. Len(pending) :
                      IsRun(pending[i]) /\ pending[i].sid = sid
            /\ ses[sid].pc = "ended" =>
                 \E i \in 1 .. Len(fromWorker) :
                   IsFinal(fromWorker[i]) /\ fromWorker[i].sid = sid
            /\ ses[sid].pc \in { "parked", "input" } =>
                 \/ ui = (IF ses[sid].pc = "parked" THEN "paused" ELSE "waitingForInput")
                 \/ ~NoAnswer(sid)
                 \/ \E i \in 1 .. Len(fromWorker) : Asks(fromWorker[i], sid)

DialogueInv ==
  OrderInv /\ LostAreSilent /\ TurnInv /\ OutputInv /\ MessageUnderway

-----------------------------------------------------------------------------
(* The safety part of RunningEnds and StopTakesEffect: how far a session   *)
(* is from its end, and that whatever happens it only gets nearer          *)

\* What a session may still go through before its next statement begins.
PhaseWork(pc) ==
  CASE pc = "none"   -> 9
    [] pc = "queued" -> 8
    [] pc = "begin"  -> 7
    [] pc = "parked" -> 6
    [] pc \in { "ticked", "resumed" } -> 5
    [] pc = "yield"  -> 4
    [] pc = "input"  -> 3
    [] pc \in { "run", "rejected" } -> 2
    [] OTHER -> 0

\* The statements the instruction limit leaves it, each with its phases.
SessionWork(st) ==
  IF st.pc = "ended" THEN 0
  ELSE 10 * (MaxSteps + 1 - st.steps) + PhaseWork(st.pc)

\* No session counts more statements than the limit, nor any before it begins.
StepsBounded ==
  \A s \in Session :
    /\ ses[s].steps <= MaxSteps
    /\ ses[s].pc \in { "queued", "begin" } => ses[s].steps = 0

\* No command, answer, abort or waking gives a session more to do than it had,
\* each of its own steps takes something off, and one that has ended never
\* executes again: the instruction limit holds across pauses, INPUT and timers
\* (Interpreter.tick, WorkerSessionRunner).
SessionsWindDown ==
  [][ \A s \in Session :
        /\ SessionWork(ses'[s]) <= SessionWork(ses[s])
        /\ SessionStep(s) => SessionWork(ses'[s]) < SessionWork(ses[s]) ]_vars

\* A session that was told to stop stays so until its next step, whichever that
\* is, ends it: neither a gate, nor an INPUT, nor another statement comes
\* between (stop, cancelInput, tick, maybeYieldEventLoop).
AbortedEndsNext ==
  [][ \A s \in Session : ses[s].abort =>
        /\ ses'[s].abort \/ ses'[s].pc = "ended"
        /\ SessionStep(s) => ses'[s].pc = "ended" ]_vars

\* A run that waits for the one before it waits for a session that was already
\* told to stop, never for one that waits for the student (run, runPromise).
WaitsForStopped ==
  /\ cur = tail
  /\ \A s \in Session : ses[s].pc = "queued" =>
       /\ ses[s].after \in Session
       /\ ses[ses[s].after].abort

\* The step that ends that session is the one that lets the next run begin.
QueuedRunBegins ==
  [][ \A s \in Session :
        (ses[s].pc = "queued" /\ SessionStep(ses[s].after)) =>
          ses'[s].pc = "begin" ]_vars

WindDownInv == StepsBounded /\ WaitsForStopped

-----------------------------------------------------------------------------
(* What the documentation says and the code does not keep *)

\* runtime/README.md: "Single concurrent run per IDE instance".
SingleExecution ==
  Cardinality({ s \in Session : ses[s].pc \in Executing }) <= 1

\* debugger/README.md: "Breakpoint toggles live on the main thread and are
\* synced to the worker via setBreakpoints".
BreakpointsSynced ==
  (ui \in Busy /\ cur = sid /\ toWorker = << >> /\ pending = << >>) =>
    ses[sid].bps = bps

\* WorkerController.ts: "Recreate worker so subsequent runs still work".  A
\* fresh worker that knows no session leaves a UI that accepts a run.
SubsequentRunsWork ==
  (crashes > 0 /\ ready /\ toWorker = << >> /\ fromWorker = << >>) =>
    (ui \in Busy => ses[sid].pc \notin { "none", "ended" })
=============================================================================
