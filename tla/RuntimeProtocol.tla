-------------------------- MODULE RuntimeProtocol --------------------------
(***************************************************************************)
(* The vocabulary shared by the main thread and the execution worker of    *)
(* the IDE: the run states the UI shows (lib/runtime/types.ts) and the     *)
(* commands and events that cross the worker boundary                      *)
(* (lib/worker/protocol.ts).  A session id is a value of the controller's  *)
(* generation counter, so ids only grow; 0 stands for "no session".        *)
(***************************************************************************)
EXTENDS Naturals, Sequences

CONSTANTS
  MaxGeneration,  \* bound: the largest value the generation counter takes
  Lines           \* the source lines a breakpoint may be set on

ASSUME GenerationAssumption == MaxGeneration \in Nat

(***************************************************************************)
(* The worker port: two FIFO queues, each filled by one thread and emptied *)
(* by the other.                                                           *)
(***************************************************************************)
VARIABLES
  toWorker,   \* commands posted to the worker and not yet handled
  fromWorker  \* events posted by the worker and not yet delivered

Session == 1 .. MaxGeneration
None    == 0

ExecutionState == { "idle", "running", "paused", "waitingForInput",
                    "completed", "runtimeError", "semanticError", "cancelled" }

Terminal == { "completed", "runtimeError", "semanticError", "cancelled" }

\* RuntimeController.isBusy
Busy == { "running", "waitingForInput", "paused" }

\* The table of types.ts.  setState consults it, then stores the new state
\* whatever the answer: that every step obeys it is a theorem of the design.
canTransition(from, to) ==
  \/ from = to
  \/ from = "idle" /\ to \in { "running", "semanticError" }
  \/ from = "running" /\ to \in Terminal \cup Busy
  \/ /\ from \in { "paused", "waitingForInput" }
     /\ to \in Busy \cup (Terminal \ { "semanticError" })
  \/ from \in Terminal /\ to \in { "idle", "running", "semanticError" }

StepMode == { "continue", "stepInto", "stepOver", "stepOut" }

(***************************************************************************)
(* Commands.  `bps' is the enabled breakpoints carried by run and          *)
(* setBreakpoints; `mode' the step mode carried by run (initialStepMode)   *)
(* and by the step commands.  The text of INPUT lines and the source are   *)
(* not part of the model: no property tells two of them apart.             *)
(***************************************************************************)
CommandType == { "run", "stop", "pause", "resume", "input", "setBreakpoints" }

Command == [ type : CommandType, sid : Session,
             bps : SUBSET Lines, mode : StepMode ]

Cmd(t, s) == [ type |-> t, sid |-> s, bps |-> {}, mode |-> "continue" ]

RunCmd(s, b, m)       == [ Cmd("run", s) EXCEPT !.bps = b, !.mode = m ]
ResumeCmd(s, m)       == [ Cmd("resume", s) EXCEPT !.mode = m ]
BreakpointsCmd(s, b)  == [ Cmd("setBreakpoints", s) EXCEPT !.bps = b ]

(***************************************************************************)
(* Events.  `step' is location.step of a paused event.  A transport crash  *)
(* is a workerError whose sessionId is null, hence session None.  progress *)
(* (a step count the UI does not even redraw for) and ping/pong are left   *)
(* out.                                                                    *)
(***************************************************************************)
EventType == { "ready", "output", "inputRequest", "paused", "resumed",
               "completed", "semanticError", "runtimeError", "cancelled",
               "workerError" }

Event == [ type : EventType, sid : Session \cup { None }, step : Nat ]

Evt(t, s) == [ type |-> t, sid |-> s, step |-> 0 ]

PausedEvt(s, n) == [ Evt("paused", s) EXCEPT !.step = n ]
=============================================================================
