------------------------- MODULE RuntimeController -------------------------
(***************************************************************************)
(* The main thread of the IDE: RuntimeController (the run state React      *)
(* renders) over WorkerController (the bridge that owns the worker port).  *)
(* Each action is one macrotask of the main thread: a click handler, or    *)
(* the delivery of one worker event.  The port itself is a pair of FIFO    *)
(* queues, toWorker and fromWorker; what happens at their other end is     *)
(* module WorkerSession.                                                   *)
(***************************************************************************)
EXTENDS RuntimeProtocol

CONSTANT MaxClicks   \* bound: Pause clicks and breakpoint edits in a behaviour

ASSUME ClicksAssumption == MaxClicks \in Nat

VARIABLES
  ui,         \* state: the ExecutionState shown to the student
  gen,        \* generation: events of any other session are stale
  sid,        \* runSessionId: the session the commands of this run carry
  settle,     \* settleRun: the run whose promise it resolves, or None
  promise,    \* the promise run() returned, per session
  loc,        \* pauseLocation, as its step number; 0 is null
  bps,        \* the enabled lines of the main-thread BreakpointStore
  delivered,  \* history: OUTPUT lines handed to pushConsole, per run
  clicks,     \* bound: Pause clicks and breakpoint edits so far
  port,       \* WorkerController.port: "live", or "gone" after terminate
  ready,      \* WorkerController.ready
  pending,    \* WorkerController.pending
  crashes     \* WorkerController.crashCount

runVars  == << gen, sid, settle, promise >>
portVars == << port, ready, pending, toWorker >>
mainVars == << ui, runVars, loc, bps, delivered, clicks, crashes, portVars,
               fromWorker >>

MainTypeOK ==
  /\ ui \in ExecutionState
  /\ gen \in 0 .. MaxGeneration
  /\ sid \in 0 .. MaxGeneration
  /\ settle \in Session \cup { None }
  /\ promise \in [ Session -> { "none", "pending", "settled" } ]
  /\ loc \in Nat
  /\ bps \subseteq Lines
  /\ delivered \in [ Session -> Nat ]
  /\ clicks \in 0 .. MaxClicks
  /\ port \in { "live", "gone" }
  /\ ready \in BOOLEAN
  /\ pending \in Seq(Command)
  /\ crashes \in Nat
  /\ toWorker \in Seq(Command)
  /\ fromWorker \in Seq(Event)

MainInit ==
  /\ ui = "idle"
  /\ gen = 0
  /\ sid = 0
  /\ settle = None
  /\ promise = [ s \in Session |-> "none" ]
  /\ loc = 0
  /\ bps = {}
  /\ delivered = [ s \in Session |-> 0 ]
  /\ clicks = 0
  /\ port = "live"
  /\ ready = FALSE
  /\ pending = << >>
  /\ crashes = 0
  /\ toWorker = << >>
  /\ fromWorker = << Evt("ready", None) >>

-----------------------------------------------------------------------------
(* WorkerController *)

\* post: before the worker is ready commands wait in `pending'; a terminated
\* controller has no handlers and drops them.
Post(cmds) ==
  /\ IF port = "live" /\ ready
     THEN toWorker' = toWorker \o cmds /\ UNCHANGED pending
     ELSE /\ pending' = IF port = "live" THEN pending \o cmds ELSE pending
          /\ UNCHANGED toWorker
  /\ UNCHANGED << port, ready >>

\* onMessage, event ready: flushPending.
FlushPending ==
  /\ ready' = TRUE
  /\ toWorker' = toWorker \o pending
  /\ pending' = << >>
  /\ UNCHANGED port

\* teardown and spawn: the listeners of the old port are gone, so events in
\* flight are lost with the commands; the new worker announces itself.
Respawn ==
  /\ ready' = FALSE
  /\ pending' = << >>
  /\ toWorker' = << >>
  /\ fromWorker' = << Evt("ready", None) >>
  /\ UNCHANGED port

-----------------------------------------------------------------------------
(* RuntimeController: the operations of the student *)

\* finishRunPromise, as the promises it leaves.
Settled == IF settle = None THEN promise
           ELSE [ promise EXCEPT ![settle] = "settled" ]

\* executeRun, from the promises `p' and after the commands `before'.
ExecuteRun(g, p, before, mode) ==
  /\ g \in Session
  /\ gen' = g
  /\ sid' = g
  /\ ui' = "running"
  /\ loc' = 0
  /\ settle' = g
  /\ promise' = [ p EXCEPT ![g] = "pending" ]
  /\ Post(Append(before, RunCmd(g, bps, mode)))
  /\ UNCHANGED << bps, delivered, clicks, crashes, fromWorker >>

\* run, and stepIntoFromIdle, which runs with initialStepMode stepInto.
Run(mode) ==
  /\ port = "live"
  /\ ui \notin Busy
  /\ ExecuteRun(gen + 1, promise, << >>, mode)

\* Mutant: stop forgets to bump the generation.
StopKeepsGeneration ==
  /\ port = "live"
  /\ ui \in Busy
  /\ ui' = "cancelled"
  /\ loc' = 0
  /\ settle' = None
  /\ promise' = Settled
  /\ Post(<< Cmd("stop", sid) >>)
  /\ UNCHANGED << gen, sid, bps, delivered, clicks, crashes, fromWorker >>

Stop ==
  /\ port = "live"
  /\ ui \in Busy
  /\ gen < MaxGeneration
  /\ gen' = gen + 1
  /\ ui' = "cancelled"
  /\ loc' = 0
  /\ settle' = None
  /\ promise' = Settled
  /\ Post(<< Cmd("stop", sid) >>)
  /\ UNCHANGED << sid, bps, delivered, clicks, crashes, fromWorker >>

\* Mutant: restart replaces the resolver without settling the old promise.
RestartDropsPromise ==
  /\ port = "live"
  /\ IF ui \in Busy
     THEN ExecuteRun(gen + 2, promise, << Cmd("stop", sid) >>, "continue")
     ELSE ExecuteRun(gen + 1, promise, << >>, "continue")

\* restart: stop the run in flight, settle its promise and run again.  The
\* await of the settled promise is a microtask, so nothing comes between.
Restart ==
  /\ port = "live"
  /\ IF ui \in Busy
     THEN ExecuteRun(gen + 2, Settled, << Cmd("stop", sid) >>, "continue")
     ELSE ExecuteRun(gen + 1, promise, << >>, "continue")

Click == clicks < MaxClicks /\ clicks' = clicks + 1

Pause ==
  /\ ui = "running"
  /\ Click
  /\ Post(<< Cmd("pause", sid) >>)
  /\ UNCHANGED << ui, runVars, loc, bps, delivered, crashes, fromWorker >>

\* continue, stepInto, stepOver, stepOut: the UI shows "running" at once.
Resume(mode) ==
  /\ ui = "paused"
  /\ ui' = "running"
  /\ Post(<< ResumeCmd(sid, mode) >>)
  /\ UNCHANGED << runVars, loc, bps, delivered, clicks, crashes, fromWorker >>

SubmitInput ==
  /\ ui = "waitingForInput"
  /\ ui' = "running"
  /\ Post(<< Cmd("input", sid) >>)
  /\ UNCHANGED << runVars, loc, bps, delivered, clicks, crashes, fromWorker >>

\* toggleBreakpoint, setBreakpointEnabled, removeBreakpoint: one enabled line
\* more, or less, or (a disabled one) neither; clearBreakpoints: none is left.
\* The store's listener forwards the list while a run is busy.
EditBreakpoint(line) ==
  /\ port = "live"
  /\ Click
  /\ bps' \in { bps \cup { line }, bps \ { line }, {} }
  /\ IF ui \in Busy /\ sid # 0
     THEN Post(<< BreakpointsCmd(sid, bps') >>)
     ELSE UNCHANGED portVars
  /\ UNCHANGED << ui, runVars, loc, delivered, crashes, fromWorker >>

-----------------------------------------------------------------------------
(* RuntimeController.onWorkerEvent *)

\* Mutant: the stale-session check is left out.
AnyIsCurrent(e) == e.sid # None

\* The session check, of workerError and of the other events alike.
IsCurrent(e) == e.sid # None /\ e.sid = gen

Finish(type) ==
  /\ ui' = type
  /\ settle' = None
  /\ promise' = Settled

\* Mutant: the name of the event is stored as the state.
OnSuspendByName(e) ==
  /\ e.type \in { "inputRequest", "paused" }
  /\ ui' = e.type
  /\ loc' = IF e.type = "paused" THEN e.step ELSE loc
  /\ UNCHANGED << runVars, delivered >>

OnSuspend(e) ==
  /\ e.type \in { "inputRequest", "paused" }
  /\ ui' = IF e.type = "paused" THEN "paused" ELSE "waitingForInput"
  /\ loc' = IF e.type = "paused" THEN e.step ELSE loc
  /\ UNCHANGED << runVars, delivered >>

OnOutput(e) ==
  /\ e.type = "output"
  /\ delivered' = [ delivered EXCEPT ![sid] = @ + 1 ]
  /\ UNCHANGED << ui, runVars, loc >>

OnResumed(e) ==
  /\ e.type = "resumed"
  /\ loc' = 0
  /\ ui' = IF ui = "paused" THEN "running" ELSE ui
  /\ UNCHANGED << runVars, delivered >>

OnTerminal(e) ==
  /\ e.type \in Terminal
  /\ Finish(e.type)
  /\ loc' = 0
  /\ UNCHANGED << gen, sid, delivered >>

\* A failure of the runner itself leaves the pause location as it was.
OnRunRejected(e) ==
  /\ e.type = "workerError"
  /\ Finish("runtimeError")
  /\ UNCHANGED << gen, sid, loc, delivered >>

OnWorkerEvent(e) ==
  IF IsCurrent(e)
  THEN \/ OnSuspend(e)
       \/ OnOutput(e)
       \/ OnResumed(e)
       \/ OnTerminal(e)
       \/ OnRunRejected(e)
  ELSE UNCHANGED << ui, runVars, loc, delivered >>

\* The port's listener: WorkerController first, then onWorkerEvent.  A
\* transport crash respawns the worker and is invisible to the UI state.
IsCrash(e) == e.type = "workerError" /\ e.sid = None

DeliverEvent ==
  /\ fromWorker # << >>
  /\ LET e == Head(fromWorker) IN
     /\ ~IsCrash(e)
     /\ OnWorkerEvent(e)
     /\ IF e.type = "ready" THEN FlushPending ELSE UNCHANGED portVars
  /\ fromWorker' = Tail(fromWorker)
  /\ UNCHANGED << bps, clicks, crashes >>

DeliverCrash ==
  /\ fromWorker # << >>
  /\ IsCrash(Head(fromWorker))
  /\ Respawn
  /\ crashes' = crashes + 1
  /\ UNCHANGED << ui, runVars, loc, bps, delivered, clicks >>

\* recreateWorker: a fresh worker, and the UI state left as it is.
RecreateWorker ==
  /\ port = "live"
  /\ Respawn
  /\ UNCHANGED << ui, runVars, loc, bps, delivered, clicks, crashes >>

\* dispose: Stop if busy, then terminate; nobody uses the controller again.
Dispose ==
  /\ port = "live"
  /\ IF ui \in Busy
     THEN /\ gen < MaxGeneration
          /\ gen' = gen + 1
          /\ Finish("cancelled")
          /\ loc' = 0
     ELSE UNCHANGED << ui, gen, settle, promise, loc >>
  /\ port' = "gone"
  /\ ready' = FALSE
  /\ pending' = << >>
  /\ toWorker' = << >>
  /\ fromWorker' = << >>
  /\ UNCHANGED << sid, bps, delivered, clicks, crashes >>
=============================================================================
