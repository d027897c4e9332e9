--------------------------- MODULE DebugStepping ---------------------------
(***************************************************************************)
(* Stepping through a program: the interpreter's call stack                *)
(* (interpreter/src/frame.ts and the routine calls of interpreter.ts), the *)
(* DebuggerSession that mirrors it through the frame hooks and decides at  *)
(* every statement whether to park, and the commands that release it.      *)
(*                                                                         *)
(* Which statements a program has is left open: at each point it may go on *)
(* to its next statement on any line, call a routine, leave one, or fail.  *)
(***************************************************************************)
EXTENDS Naturals, Sequences, SequencesExt, FiniteSetsExt

CONSTANTS
  Lines,      \* the lines of the program
  MaxDepth,   \* Interpreter.maxCallDepth
  MaxCalls    \* bound: routine calls in a behaviour

ASSUME SteppingAssumption == MaxDepth \in Nat \ { 0 } /\ MaxCalls \in Nat

VARIABLES
  stack,      \* CallStack.frames, bottom first
  nextId,     \* CallStack.nextId
  phase,      \* what the interpreter is doing, see Phase
  line,       \* the line of the statement it is about to run
  aborted,    \* signal.aborted
  mirror,     \* DebuggerSession.frameStack
  mode, pauseDepth, pauseReq, cancelled,  \* the session's fields
  pausedDepth,                            \* pausedLocation.depth, 0 if null
  bps,        \* the enabled lines of the session's BreakpointStore
  asked       \* history: the step last asked for, and the depth it was at

stackVars   == << stack, nextId >>
sessionVars == << mirror, mode, pauseDepth, pauseReq, cancelled, pausedDepth >>
vars == << stackVars, phase, line, aborted, sessionVars, bps, asked >>

\* "tick": before a statement; "parked": at the gate of the debugger; "yield":
\* past the gate, waiting for the timer of maybeYieldEventLoop; "exec": in the
\* body of a statement or between two; "unwind": an error is passing up
\* through the calls.
Phase    == { "tick", "parked", "yield", "exec", "unwind", "done" }

\* Commands reach the worker while the interpreter awaits.
Awaiting == { "parked", "yield" }
StepMode == { "continue", "stepInto", "stepOver", "stepOut" }
Frame    == [ id : Nat, kind : { "global", "procedure", "function" } ]

TypeOK ==
  /\ stack \in Seq(Frame)
  /\ nextId \in 1 .. MaxCalls + 2
  /\ phase \in Phase
  /\ line \in Lines
  /\ aborted \in BOOLEAN
  /\ mirror \in Seq(Frame)
  /\ mode \in StepMode
  /\ pauseDepth \in 1 .. MaxDepth
  /\ pauseReq \in BOOLEAN
  /\ cancelled \in BOOLEAN
  /\ pausedDepth \in 0 .. MaxDepth
  /\ bps \subseteq Lines
  /\ asked \in [ mode : StepMode, depth : 1 .. MaxDepth ]

GlobalFrame == [ id |-> 1, kind |-> "global" ]

\* runProgram pushes the global frame; setInitialMode may ask for a first stop.
Init ==
  /\ stack = << GlobalFrame >>
  /\ mirror = << GlobalFrame >>
  /\ nextId = 2
  /\ phase = "tick"
  /\ line \in Lines
  /\ aborted = FALSE
  /\ mode \in { "continue", "stepInto" }
  /\ pauseDepth = 1
  /\ pauseReq = FALSE
  /\ cancelled = FALSE
  /\ pausedDepth = 0
  /\ bps \in SUBSET Lines
  /\ asked = [ mode |-> mode, depth |-> 1 ]

-----------------------------------------------------------------------------
(* CallStack and the frame hooks *)

Depth == Len(stack)
\* Mutant: pop has no floor.
PopAll(s) == IF s = << >> THEN s ELSE Front(s)

\* pop never takes the global frame.
Pop(s) == IF Len(s) <= 1 THEN s ELSE Front(s)

\* onExitFrame: the mirror drops the topmost frame of that id, wherever it is.
Without(frame, s) ==
  LET at == { i \in 1 .. Len(s) : s[i].id = frame.id } IN
  IF at = {} THEN s ELSE RemoveAt(s, Max(at))

Push(kind) ==
  LET frame == [ id |-> nextId, kind |-> kind ] IN
  /\ stack' = Append(stack, frame)
  /\ mirror' = Append(mirror, frame)
  /\ nextId' = nextId + 1

\* R_STACK_OVERFLOW is raised before the frame exists.
Enter(kind) ==
  IF Depth >= MaxDepth
  THEN phase' = "unwind" /\ UNCHANGED << stackVars, mirror >>
  ELSE Push(kind) /\ UNCHANGED phase

-----------------------------------------------------------------------------
(* Interpreter.tick, DebuggerSession.shouldPause and park *)

\* Mutant: a step over counts the callee in.
StepOverCallee ==
  \/ pauseReq
  \/ line \in bps
  \/ mode = "stepInto"
  \/ mode = "stepOver" /\ Depth <= pauseDepth + 1
  \/ mode = "stepOut" /\ Depth < pauseDepth

\* Mutant: only the mode and the breakpoints count.
PauseUnheard ==
  \/ line \in bps
  \/ mode = "stepInto"
  \/ mode = "stepOver" /\ Depth <= pauseDepth
  \/ mode = "stepOut" /\ Depth < pauseDepth

shouldPause ==
  \/ pauseReq
  \/ line \in bps
  \/ mode = "stepInto"
  \/ mode = "stepOver" /\ Depth <= pauseDepth
  \/ mode = "stepOut" /\ Depth < pauseDepth

park ==
  /\ phase' = "parked"
  /\ pausedDepth' = Depth
  /\ pauseReq' = FALSE
  /\ mode' = "continue"
  /\ asked' = [ mode |-> "continue", depth |-> Depth ]

\* The statement goes on, perhaps through a yield (every so many steps).
goOn == phase' \in { "yield", "exec" }

tick ==
  /\ phase = "tick"
  /\ \/ aborted /\ phase' = "unwind"
     \/ ~aborted /\ (cancelled \/ ~shouldPause) /\ goOn
  /\ UNCHANGED << stackVars, line, aborted, sessionVars, bps, asked >>

tickParks ==
  /\ phase = "tick"
  /\ ~aborted /\ ~cancelled /\ shouldPause
  /\ park
  /\ UNCHANGED << stackVars, line, aborted, mirror, pauseDepth, cancelled, bps >>

\* The timer of maybeYieldEventLoop fires.
yieldEnds ==
  /\ phase = "yield"
  /\ phase' = IF aborted THEN "unwind" ELSE "exec"
  /\ UNCHANGED << stackVars, line, aborted, sessionVars, bps, asked >>

-----------------------------------------------------------------------------
(* Interpreter: what a statement does to the stack *)

sessionButMirror == << mode, pauseDepth, pauseReq, cancelled, pausedDepth >>

NextStatement ==
  /\ phase = "exec"
  /\ phase' = "tick"
  /\ line' \in Lines
  /\ UNCHANGED << stackVars, aborted, sessionVars, bps, asked >>

\* callRoutine and invokeMethod, up to the body.
Call(kind) ==
  /\ phase = "exec"
  /\ nextId <= MaxCalls + 1
  /\ Enter(kind)
  /\ UNCHANGED << line, aborted, sessionButMirror, bps, asked >>

Leave(pops) ==
  LET frame == stack[Depth] IN
  /\ mirror' = Without(frame, mirror)
  /\ stack' = IF pops = 2 THEN Pop(Pop(stack)) ELSE Pop(stack)

\* A PROCEDURE reaches its end, or a FUNCTION its RETURN.
Return ==
  /\ phase = "exec"
  /\ Depth > 1
  /\ Leave(1)
  /\ UNCHANGED << nextId, phase, line, aborted, sessionButMirror, bps, asked >>

\* A FUNCTION ends without RETURN: the error is raised after the frame is
\* left and caught by the handler that leaves it again.
EndWithoutReturn ==
  /\ phase = "exec"
  /\ Depth > 1
  /\ stack[Depth].kind = "function"
  /\ Leave(2)
  /\ phase' = "unwind"
  /\ UNCHANGED << nextId, line, aborted, sessionButMirror, bps, asked >>

Fail ==
  /\ phase = "exec"
  /\ phase' = "unwind"
  /\ UNCHANGED << stackVars, line, aborted, sessionVars, bps, asked >>

\* The catch block of one routine call; the calls in progress are those the
\* mirror still holds.
Unwind ==
  /\ phase = "unwind"
  /\ IF Len(mirror) > 1
     THEN /\ mirror' = Without(mirror[Len(mirror)], mirror)
          /\ stack' = Pop(stack)
          /\ UNCHANGED phase
     ELSE phase' = "done" /\ UNCHANGED << mirror, stack >>
  /\ UNCHANGED << nextId, line, aborted, sessionButMirror, bps, asked >>

Finish ==
  /\ phase = "exec"
  /\ Depth = 1
  /\ phase' = "done"
  /\ UNCHANGED << stackVars, line, aborted, sessionVars, bps, asked >>

Interpreter ==
  \/ tick \/ tickParks \/ yieldEnds
  \/ NextStatement
  \/ \E kind \in { "procedure", "function" } : Call(kind)
  \/ Return \/ EndWithoutReturn \/ Fail \/ Unwind \/ Finish

-----------------------------------------------------------------------------
(* The commands of the worker *)

\* releaseGate: park's finally block forgets the location.
ReleaseGate ==
  \/ phase = "parked" /\ goOn /\ pausedDepth' = 0
  \/ phase # "parked" /\ UNCHANGED << phase, pausedDepth >>

\* Mutant: a step trusts that there is a location.
ResumeAtNoLocation(m) ==
  /\ phase \in Awaiting
  /\ ~cancelled
  /\ mode' = m
  /\ pauseReq' = FALSE
  /\ pauseDepth' = IF m \in { "stepOver", "stepOut" } THEN pausedDepth ELSE pauseDepth
  /\ asked' = [ mode |-> m, depth |-> Depth ]
  /\ ReleaseGate
  /\ UNCHANGED << stackVars, line, aborted, mirror, cancelled, bps >>

\* continue, stepInto, stepOver, stepOut.  A step that finds no gate
\* counts from the frames entered so far.
Resume(m) ==
  /\ phase \in Awaiting
  /\ ~cancelled
  /\ mode' = m
  /\ pauseReq' = FALSE
  /\ pauseDepth' = IF m \in { "stepOver", "stepOut" }
                   THEN IF pausedDepth # 0 THEN pausedDepth
                        ELSE IF mirror # << >> THEN Len(mirror) ELSE 1
                   ELSE pauseDepth
  /\ asked' = [ mode |-> m, depth |-> Depth ]
  /\ ReleaseGate
  /\ UNCHANGED << stackVars, line, aborted, mirror, cancelled, bps >>

RequestPause ==
  /\ phase \in Awaiting
  /\ ~cancelled
  /\ ~pauseReq
  /\ pauseReq' = TRUE
  /\ UNCHANGED << stackVars, phase, line, aborted, mirror, mode, pauseDepth,
                  cancelled, pausedDepth, bps, asked >>

SetBreakpoints ==
  /\ phase \in Awaiting
  /\ bps' \in SUBSET Lines
  /\ UNCHANGED << stackVars, phase, line, aborted, sessionVars, asked >>

\* Mutant: cancel leaves the gate up.
CancelLeavesGate ==
  /\ phase \in Awaiting
  /\ ~cancelled
  /\ cancelled' = TRUE
  /\ aborted' = TRUE
  /\ pauseReq' = FALSE
  /\ pausedDepth' = 0
  /\ UNCHANGED << stackVars, phase, line, mirror, mode, pauseDepth, bps, asked >>

\* WorkerSessionRunner.stop: cancel rejects the gate, abort sets the signal.
Cancel ==
  /\ phase \in Awaiting
  /\ ~cancelled
  /\ cancelled' = TRUE
  /\ aborted' = TRUE
  /\ pauseReq' = FALSE
  /\ pausedDepth' = 0
  /\ phase' = IF phase = "parked" THEN "unwind" ELSE phase
  /\ UNCHANGED << stackVars, line, mirror, mode, pauseDepth, bps, asked >>

Commands ==
  \/ \E m \in StepMode : Resume(m)
  \/ RequestPause
  \/ SetBreakpoints
  \/ Cancel

Next == Interpreter \/ Commands

\* The interpreter runs; nobody has to press a button.
Spec == Init /\ [][Next]_vars /\ WF_vars(Interpreter)

-----------------------------------------------------------------------------
(* Properties *)

\* The stack the debugger shows is the interpreter's stack whenever a
\* statement is about to run, runs or is shown (onEnterFrame, onExitFrame,
\* snapshotCallStack), whatever calls, RETURNs and limits came before.
MirrorIsStack == phase \notin { "unwind", "done" } => mirror = stack

\* The global frame is never popped, and no more than maxCallDepth frames are
\* ever on the stack, even though a FUNCTION that ends without RETURN is
\* left twice (callRoutine).
StackBounded == Depth \in 1 .. MaxDepth /\ stack[1] = GlobalFrame

\* Where a step may stop, in terms of what the student asked for and where.
Asked ==
  \/ asked.mode = "stepInto"
  \/ asked.mode = "stepOver" /\ Depth <= asked.depth
  \/ asked.mode = "stepOut" /\ Depth < asked.depth

\* A statement is stopped at exactly when it has a breakpoint, a pause was
\* requested, or it is where the last step was to stop: no step runs away,
\* none stops inside a call it was to step over, and none outlives the stop
\* it led to (shouldPause, park, the step commands).
StopsExactlyWhenAsked ==
  [][ (phase = "tick" /\ phase' # "unwind" /\ phase' # phase) =>
        (phase' = "parked" <=> (pauseReq \/ line \in bps \/ Asked)) ]_vars

\* The session knows where it is: there is a location exactly while the
\* program is parked, and it is the depth of that statement; a step in progress
\* measures from the depth it was asked at; a session that was cancelled runs
\* under an aborted signal.  StopsExactlyWhenAsked rests on it.
StepInv ==
  /\ MirrorIsStack /\ StackBounded
  /\ pausedDepth = IF phase = "parked" THEN Depth ELSE 0
  /\ mode = asked.mode
  /\ mode \in { "stepOver", "stepOut" } => pauseDepth = asked.depth
  /\ cancelled => aborted

\* Pause stops the program at its next statement if it has one, and a student
\* who asked for it is not left with a request that never takes effect.
PauseStops == pauseReq ~> (phase \in { "parked", "done" } \/ ~pauseReq)

\* Stop ends the program, one that is parked at the gate too (cancel).
CancelEnds == cancelled ~> phase = "done"

-----------------------------------------------------------------------------
(* The safety part of CancelEnds and PauseStops: how far the program is    *)
(* from the end, or from the stop, and that it only gets nearer            *)

\* A session that was cancelled runs under an aborted signal, and the other way
\* round; the next thing its program does is to fail.  The session's frames are
\* never fewer than the global one.
HaltInv ==
  /\ aborted <=> cancelled
  /\ cancelled => phase \in { "yield", "unwind", "done" }
  /\ pauseReq => ~cancelled
  /\ mirror # << >>

\* The steps to the end of a program that fails now: one for each call.
UnwindWork == IF phase = "done" THEN 0 ELSE Len(mirror) + 1
CancelWork == UnwindWork + (IF phase = "yield" THEN 1 ELSE 0)

\* Once Stop was handled no statement begins, no routine is entered, no gate
\* goes up again, and each step of the interpreter leaves one thing less to
\* unwind, even if the pane is parked or in the middle of a step (cancel,
\* maybeYieldEventLoop, the catch blocks of callRoutine).
CancelIsFinal ==
  [][ cancelled =>
        /\ cancelled'
        /\ phase' \in { "yield", "unwind", "done" }
        /\ Len(stack') <= Len(stack) /\ nextId' = nextId
        /\ Interpreter => CancelWork' < CancelWork ]_vars

\* The steps a program has before its next tick, while the bound on calls
\* lasts: it may enter and leave routines within one expression.
BodyWork == 2 * (MaxCalls + 2 - nextId) + Depth
PauseWork ==
  CASE phase = "done"   -> 0
    [] phase = "unwind" -> Len(mirror) + 1
    [] phase = "tick"   -> MaxDepth + 2
    [] phase = "exec"   -> MaxDepth + 3 + BodyWork
    [] OTHER            -> MaxDepth + 4 + BodyWork

\* A pause request is kept until it is obeyed: only the gate going up, another
\* command of the student or the end of the program takes it away, and until
\* then each step of the interpreter brings one of those nearer (requestPause,
\* shouldPause, park).
PauseIsHeard ==
  [][ pauseReq =>
        \/ phase = "tick" /\ phase' = "parked" /\ ~pauseReq'
        \/ \E m \in StepMode : Resume(m)
        \/ Cancel
        \/ /\ pauseReq'
           /\ phase # "tick"
           /\ Interpreter => PauseWork' < PauseWork ]_vars
=============================================================================
