--------------------------- MODULE WorkerSession ---------------------------
(***************************************************************************)
(* The worker's side of the IDE: WorkerSessionRunner, the WorkerRuntimeHost *)
(* and WorkerDebuggerBridge it makes for each run, and the interpreter as  *)
(* far as it decides when a run can be interrupted.                        *)
(*                                                                         *)
(* A worker is one thread.  A posted command and a timer are macrotasks;   *)
(* the continuation of an await is a microtask, and every microtask runs   *)
(* before the next macrotask.  A session in one of the phases Runnable has *)
(* a microtask due; in the phases "yield", "parked" and "input" it waits   *)
(* for a timer, for a debugger command and for an input command.           *)
(***************************************************************************)
EXTENDS RuntimeProtocol

CONSTANTS
  MaxSteps,    \* Interpreter.maxSteps, the instruction limit
  YieldEvery,  \* Interpreter.eventLoopYieldEvery
  MaxFaults    \* bound: worker faults in a behaviour

ASSUME WorkerAssumption == /\ MaxSteps \in Nat \ { 0 }
                           /\ YieldEvery \in Nat \ { 0 }
                           /\ MaxFaults \in Nat

VARIABLES
  cur,         \* WorkerSessionRunner.sessionId, or None
  tail,        \* the session whose execute() is runPromise, or None
  ses,         \* the state of each session
  said,        \* history: OUTPUT lines posted, per session
  lost,        \* history: sessions that died, or whose events died, with
               \* their worker
  faults       \* bound: faults so far

workerVars == << cur, tail, ses, said, lost, faults >>

Phase == { "none", "queued", "begin", "rejected", "ticked", "run", "resumed",
           "yield", "parked", "input", "ended" }

Runnable  == { "begin", "rejected", "ticked", "run", "resumed" }
Executing == { "ticked", "run", "resumed", "yield", "parked", "input" }

\* The state of a session: its phase, the session it is queued behind, the
\* AbortSignal (aborted with the debugger and the pending INPUT), the steps
\* counted, and the DebuggerSession's pauseRequested, mode and breakpoints.
SessionState == [ pc : Phase, after : Session \cup { None }, abort : BOOLEAN,
                  steps : Nat, pauseReq : BOOLEAN, mode : StepMode,
                  bps : SUBSET Lines ]

Fresh == [ pc |-> "none", after |-> None, abort |-> FALSE, steps |-> 0,
           pauseReq |-> FALSE, mode |-> "continue", bps |-> {} ]

\* A session that is over holds nothing: its host, debugger and signal are
\* garbage.
Over == [ Fresh EXCEPT !.pc = "ended" ]

WorkerTypeOK ==
  /\ cur \in Session \cup { None }
  /\ tail \in Session \cup { None }
  /\ ses \in [ Session -> SessionState ]
  /\ said \in [ Session -> Nat ]
  /\ lost \subseteq Session
  /\ faults \in 0 .. MaxFaults

WorkerInit ==
  /\ cur = None
  /\ tail = None
  /\ ses = [ s \in Session |-> Fresh ]
  /\ said = [ s \in Session |-> 0 ]
  /\ lost = {}
  /\ faults = 0

\* The microtask queue is empty.
Quiet == \A s \in Session : ses[s].pc \notin Runnable

-----------------------------------------------------------------------------
(* WorkerSessionRunner: the commands *)

\* Mutant: stop aborts the signal and forgets who waits.
AbortedAsleep(st) == [ st EXCEPT !.abort = TRUE, !.pauseReq = FALSE ]

\* debugger.cancel, host.cancelInput and abort.abort: a session blocked in
\* the debugger or in INPUT is woken to fail.
Aborted(st) ==
  [ st EXCEPT !.abort = TRUE,
              !.pauseReq = FALSE,
              !.pc = IF @ \in { "parked", "input" } THEN "run" ELSE @ ]

AbortCurrent(sessions) ==
  IF cur = None THEN sessions
  ELSE [ sessions EXCEPT ![cur] = Aborted(@) ]

\* run, up to its first await: behind a live run it stops that run and waits
\* for its promise.
HandleRun(c) ==
  /\ c.type = "run"
  /\ LET sessions == IF tail = None THEN ses ELSE AbortCurrent(ses) IN
     ses' = [ sessions EXCEPT
                ![c.sid] = [ Fresh EXCEPT
                    !.pc = IF tail = None THEN "begin" ELSE "queued",
                    !.after = tail,
                    !.mode = c.mode,
                    !.bps = c.bps ] ]

\* stop: ignored while another session is current.
HandleStop(c) ==
  /\ c.type = "stop"
  /\ ses' = IF cur = c.sid THEN AbortCurrent(ses) ELSE ses

\* The other commands reach the current session only.
HandlePause(c) ==
  /\ c.type = "pause"
  /\ ses' = IF cur = c.sid /\ ~ses[cur].abort
            THEN [ ses EXCEPT ![cur].pauseReq = TRUE ] ELSE ses

\* continue and the steps set the mode and release the gate, if any.
HandleResume(c) ==
  /\ c.type = "resume"
  /\ ses' = IF cur = c.sid /\ ~ses[cur].abort
            THEN [ ses EXCEPT ![cur].mode = c.mode,
                              ![cur].pauseReq = FALSE,
                              ![cur].pc = IF @ = "parked" THEN "resumed"
                                          ELSE @ ]
            ELSE ses

HandleInput(c) ==
  /\ c.type = "input"
  /\ ses' = IF cur = c.sid
            THEN [ ses EXCEPT ![cur].pc = IF @ = "input" THEN "run" ELSE @ ]
            ELSE ses

HandleBreakpoints(c) ==
  /\ c.type = "setBreakpoints"
  /\ ses' = IF cur = c.sid
            THEN [ ses EXCEPT ![cur].bps = c.bps ] ELSE ses

HandleWorkerCommand ==
  /\ Quiet
  /\ toWorker # << >>
  /\ LET c == Head(toWorker) IN
       \/ HandleRun(c)
       \/ HandleStop(c)
       \/ HandlePause(c)
       \/ HandleResume(c)
       \/ HandleInput(c)
       \/ HandleBreakpoints(c)
  /\ toWorker' = Tail(toWorker)
  /\ UNCHANGED << fromWorker, cur, tail, said, lost, faults >>

-----------------------------------------------------------------------------
(* WorkerSessionRunner.execute *)

\* Events carry the session that posts them, and only the current one posts.
Say(s, events) ==
  fromWorker' = fromWorker \o (IF cur = s THEN events ELSE << >>)

\* Mutant: a run that awaits the promise of this one is not woken.
LeaveForgetsWaiters(s) ==
  /\ ses' = [ ses EXCEPT ![s] = Over ]
  /\ cur' = IF cur = s THEN None ELSE cur
  /\ tail' = IF tail = s THEN None ELSE tail

\* The finally blocks of execute and of the run() around it clear what still
\* belongs to this session, and the runs that awaited its promise go on, all
\* of them.
Leave(s) ==
  /\ ses' = [ t \in Session |->
                IF t = s THEN Over
                ELSE IF ses[t].pc = "queued" /\ ses[t].after = s
                     THEN [ ses[t] EXCEPT !.pc = "begin", !.after = None ]
                     ELSE ses[t] ]
  /\ cur' = IF cur = s THEN None ELSE cur
  /\ tail' = IF tail = s THEN None ELSE tail

End(s, events) == Say(s, events) /\ Leave(s)

\* DebuggerSession.shouldPause.  Where a step over or out lands depends on
\* the call depth, which this module leaves open.
ShouldPause(st, stop) ==
  \/ st.pauseReq
  \/ \E line \in Lines : line \in st.bps /\ stop
  \/ st.mode = "stepInto"
  \/ st.mode \in { "stepOver", "stepOut" } /\ stop

\* park: the gate is up, and a pause request or a step is used up by it.
Parked(st) == [ st EXCEPT !.pc = "parked", !.pauseReq = FALSE,
                          !.mode = "continue" ]

\* Mutant: runs woken by one promise start in any order.
MayBeginAnyhow(s) == s \in Session

\* Runs woken by one promise start in the order they were queued, each of them
\* before anything those runs await.
MayBegin(s) == \A t \in Session : ses[t].pc = "begin" => s <= t

\* The start of execute, up to its first await: the program is parsed and
\* checked, and its first statement ticks, with the debugger hook.
Begin(s) ==
  /\ ses[s].pc = "begin"
  /\ MayBegin(s)
  /\ cur' = s
  /\ tail' = s
  /\ LET st == [ ses[s] EXCEPT !.steps = 1 ] IN
     \/ /\ ses' = [ ses EXCEPT ![s].pc = "rejected" ]
        /\ UNCHANGED fromWorker
     \/ \E stop \in BOOLEAN :
          IF ShouldPause(st, stop)
          THEN /\ ses' = [ ses EXCEPT ![s] = Parked(st) ]
               /\ fromWorker' = Append(fromWorker, PausedEvt(s, 1))
          ELSE /\ ses' = [ ses EXCEPT ![s] = [ st EXCEPT !.pc = "ticked" ] ]
               /\ UNCHANGED fromWorker
  /\ UNCHANGED << toWorker, said, lost, faults >>

NoneBegins == \A t \in Session : ses[t].pc # "begin"

\* The body of one statement, after the events `before'.  What the program
\* does is not known: it may print, ask for INPUT, fail, finish or go on.
Body(s, st, before) ==
  \/ /\ Say(s, before)
     /\ ses' = [ ses EXCEPT ![s] = [ st EXCEPT !.pc = "run" ] ]
     /\ UNCHANGED << cur, tail, said >>
  \/ /\ Say(s, Append(before, Evt("output", s)))
     /\ said' = IF cur = s THEN [ said EXCEPT ![s] = @ + 1 ] ELSE said
     /\ ses' = [ ses EXCEPT ![s] = [ st EXCEPT !.pc = "run" ] ]
     /\ UNCHANGED << cur, tail >>
  \/ /\ Say(s, Append(before, Evt("inputRequest", s)))
     /\ ses' = [ ses EXCEPT ![s] = [ st EXCEPT !.pc = "input" ] ]
     /\ UNCHANGED << cur, tail, said >>
  \/ /\ \E outcome \in { "completed", "runtimeError" } :
          End(s, Append(before, Evt(outcome, s)))
     /\ UNCHANGED said

\* maybeYieldEventLoop, then the body.  The tick that ends a REPEAT is not
\* followed by a yield: the condition is looked at first.
YieldOrBody(s, st, before) ==
  \/ /\ st.steps % YieldEvery = 0
     /\ Say(s, before)
     /\ ses' = [ ses EXCEPT ![s] = [ st EXCEPT !.pc = "yield" ] ]
     /\ UNCHANGED << cur, tail, said >>
  \/ Body(s, st, before)

Park(s, st) ==
  /\ Say(s, << PausedEvt(s, st.steps) >>)
  /\ ses' = [ ses EXCEPT ![s] = Parked(st) ]
  /\ UNCHANGED << cur, tail, said >>

\* Mutant: tick does not look at the signal.
TickIgnoresAbort(s) ==
  /\ ses[s].pc = "run"
  /\ NoneBegins
  /\ LET st == [ ses[s] EXCEPT !.steps = @ + 1 ] IN
     IF st.steps > MaxSteps
     THEN End(s, << Evt("runtimeError", s) >>) /\ UNCHANGED said
     ELSE \E stop \in BOOLEAN :
            IF cur = s /\ ShouldPause(st, stop) THEN Park(s, st)
            ELSE YieldOrBody(s, st, << >>)
  /\ UNCHANGED << toWorker, lost, faults >>

\* The next statement of session s: tick, with the debugger hook, and what
\* follows it up to the next point where the session waits.  A session that
\* is no longer current is not stopped by its debugger.
Tick(s) ==
  /\ ses[s].pc = "run"
  /\ NoneBegins
  /\ LET st == [ ses[s] EXCEPT !.steps = @ + 1 ] IN
     IF ses[s].abort
     THEN End(s, << Evt("cancelled", s) >>) /\ UNCHANGED said
     ELSE IF st.steps > MaxSteps
     THEN End(s, << Evt("runtimeError", s) >>) /\ UNCHANGED said
     ELSE \E stop \in BOOLEAN :
            IF cur = s /\ ShouldPause(st, stop) THEN Park(s, st)
            ELSE YieldOrBody(s, st, << >>)
  /\ UNCHANGED << toWorker, lost, faults >>

\* A program that never ticks: the checker refused it, the parser did (an
\* error that is reported as one of the run), or it has no statement.
EndUnrun(s) ==
  /\ ses[s].pc = "rejected"
  /\ NoneBegins
  /\ \E outcome \in { "semanticError", "runtimeError", "completed" } :
       End(s, << Evt(outcome, s) >>)
  /\ UNCHANGED << toWorker, said, lost, faults >>

\* The first statement goes on from its tick.
FirstStatement(s) ==
  /\ ses[s].pc = "ticked"
  /\ NoneBegins
  /\ YieldOrBody(s, ses[s], << >>)
  /\ UNCHANGED << toWorker, lost, faults >>

\* The statement at which the gate was up goes on.
ResumeFromGate(s) ==
  /\ ses[s].pc = "resumed"
  /\ NoneBegins
  /\ YieldOrBody(s, ses[s], << Evt("resumed", s) >>)
  /\ UNCHANGED << toWorker, lost, faults >>

\* The timer of maybeYieldEventLoop fires.
TimerFires(s) ==
  /\ Quiet
  /\ ses[s].pc = "yield"
  /\ IF ses[s].abort
     THEN End(s, << Evt("cancelled", s) >>) /\ UNCHANGED said
     ELSE Body(s, ses[s], << >>)
  /\ UNCHANGED << toWorker, lost, faults >>

SessionStep(s) ==
  \/ Begin(s) \/ EndUnrun(s) \/ FirstStatement(s)
  \/ Tick(s) \/ ResumeFromGate(s) \/ TimerFires(s)

-----------------------------------------------------------------------------
(* Faults of the worker *)

Fault == faults < MaxFaults /\ faults' = faults + 1

\* An uncaught error in the worker script raises an error event on the port.
Crash ==
  /\ Fault
  /\ fromWorker' = Append(fromWorker, Evt("workerError", None))
  /\ UNCHANGED << toWorker, cur, tail, ses, said, lost >>

\* execute itself throws: run() rejects, and the catch of handleWorkerCommand
\* reports the session, current or not.
RunRejects(s) ==
  /\ Fault
  /\ ses[s].pc = "run"
  /\ NoneBegins
  /\ fromWorker' = Append(fromWorker, Evt("workerError", s))
  /\ Leave(s)
  /\ UNCHANGED << toWorker, said, lost >>

\* The worker is terminated: whatever it was running is gone.
Terminated ==
  /\ cur' = None
  /\ tail' = None
  /\ lost' = lost \cup { s \in Session :
                           \/ ses[s].pc \notin { "none", "ended" }
                           \/ \E i \in DOMAIN fromWorker : fromWorker[i].sid = s }
  /\ ses' = [ s \in Session |-> IF ses[s].pc = "none" THEN Fresh ELSE Over ]
  /\ UNCHANGED said
=============================================================================
