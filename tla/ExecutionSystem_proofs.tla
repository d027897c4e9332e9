----------------------- MODULE ExecutionSystem_proofs -----------------------
(***************************************************************************)
(* Proofs about ExecutionSystem, for every bound, every set of lines and   *)
(* every number of sessions.                                               *)
(***************************************************************************)
EXTENDS ExecutionSystem, SequenceTheorems, TLAPS

-----------------------------------------------------------------------------
(* Typing *)

\* The commands the controller builds are commands of the protocol.
LEMMA CommandsTyped ==
  ASSUME NEW s \in Session, NEW b \in SUBSET Lines, NEW m \in StepMode
  PROVE  /\ \A t \in CommandType : Cmd(t, s) \in Command
         /\ RunCmd(s, b, m) \in Command
         /\ ResumeCmd(s, m) \in Command
         /\ BreakpointsCmd(s, b) \in Command
BY DEF Cmd, RunCmd, ResumeCmd, BreakpointsCmd, Command, CommandType, StepMode

\* The events the worker posts are events of the protocol.
LEMMA EventsTyped ==
  ASSUME NEW s \in Session \cup { None }, NEW n \in Nat
  PROVE  /\ \A t \in EventType : Evt(t, s) \in Event
         /\ PausedEvt(s, n) \in Event
BY DEF Evt, PausedEvt, Event, EventType

\* post keeps the queues typed.
LEMMA PostTyped ==
  ASSUME MainTypeOK, NEW cmds \in Seq(Command), Post(cmds)
  PROVE  /\ port' \in { "live", "gone" }
         /\ ready' \in BOOLEAN
         /\ pending' \in Seq(Command)
         /\ toWorker' \in Seq(Command)
<1>1. toWorker \o cmds \in Seq(Command) /\ pending \o cmds \in Seq(Command)
  BY ConcatProperties DEF MainTypeOK
<1> QED
  BY <1>1 DEF MainTypeOK, Post

\* settleRun resolves one promise at most.
LEMMA SettledTyped ==
  ASSUME MainTypeOK
  PROVE  Settled \in [ Session -> { "none", "pending", "settled" } ]
BY DEF MainTypeOK, Settled

\* What the worker writes into a session's state keeps it a session state.
LEMMA StatesTyped ==
  /\ Fresh \in SessionState /\ Over \in SessionState
  /\ \A st \in SessionState : Aborted(st) \in SessionState
  /\ \A st \in SessionState, p \in Phase :
       /\ [ st EXCEPT !.pc = p ] \in SessionState
       /\ [ st EXCEPT !.pc = p, !.after = None ] \in SessionState
       /\ [ st EXCEPT !.pc = p, !.pauseReq = FALSE, !.mode = "continue" ]
            \in SessionState
  /\ \A st \in SessionState : [ st EXCEPT !.pauseReq = TRUE ] \in SessionState
  /\ \A st \in SessionState : [ st EXCEPT !.steps = @ + 1 ] \in SessionState
  /\ \A st \in SessionState : [ st EXCEPT !.steps = 1 ] \in SessionState
  /\ \A st \in SessionState : Parked(st) \in SessionState
  /\ \A st \in SessionState, b \in SUBSET Lines :
       [ st EXCEPT !.bps = b ] \in SessionState
<1>1. Fresh \in SessionState
  BY DEF Fresh, SessionState, Phase, StepMode, None
<1>2. \A st \in SessionState, p \in Phase :
        /\ [ st EXCEPT !.pc = p ] \in SessionState
        /\ [ st EXCEPT !.pc = p, !.after = None ] \in SessionState
        /\ [ st EXCEPT !.pc = p, !.pauseReq = FALSE, !.mode = "continue" ]
             \in SessionState
  BY DEF SessionState, StepMode, None
<1>3. Over \in SessionState
  BY <1>1, <1>2 DEF Over, Phase
<1>9. \A st \in SessionState : [ st EXCEPT !.steps = 1 ] \in SessionState
  BY DEF SessionState
<1>10. \A st \in SessionState : Parked(st) \in SessionState
  BY <1>2 DEF Parked, Phase
<1>4. \A st \in SessionState : Aborted(st) \in SessionState
  BY DEF Aborted, SessionState, Phase
<1>5. \A st \in SessionState : [ st EXCEPT !.pauseReq = TRUE ] \in SessionState
  BY DEF SessionState
<1>7. \A st \in SessionState : [ st EXCEPT !.steps = @ + 1 ] \in SessionState
  <2> TAKE st \in SessionState
  <2>1. st.steps + 1 \in Nat
    BY DEF SessionState
  <2> QED
    BY <2>1 DEF SessionState
<1>6. \A st \in SessionState, b \in SUBSET Lines :
        [ st EXCEPT !.bps = b ] \in SessionState
  BY DEF SessionState
<1> QED
  BY <1>1, <1>2, <1>3, <1>4, <1>5, <1>6, <1>7, <1>9, <1>10

BusyHasSid == ui \in Busy => sid # 0

TypeInv == TypeOK /\ SidKnown /\ BusyHasSid

\* The IDE starts well typed.
LEMMA InitTyped == Init => TypeInv
<1> SUFFICES ASSUME Init PROVE TypeInv
  OBVIOUS
<1>1. MainTypeOK
  <2>1. Evt("ready", None) \in Event
    BY EventsTyped DEF EventType
  <2>2. fromWorker \in Seq(Event) /\ toWorker \in Seq(Command) /\ pending \in Seq(Command)
    BY <2>1 DEF Init, MainInit
  <2>3. /\ gen \in 0 .. MaxGeneration /\ sid \in 0 .. MaxGeneration
        /\ clicks \in 0 .. MaxClicks /\ loc \in Nat /\ crashes \in Nat
    BY GenerationAssumption, ClicksAssumption DEF Init, MainInit
  <2> QED
    BY <2>2, <2>3 DEF Init, MainInit, MainTypeOK, ExecutionState, None
<1>2. WorkerTypeOK
  <2>1. ses \in [ Session -> SessionState ] /\ said \in [ Session -> Nat ]
    BY StatesTyped DEF Init, WorkerInit
  <2>2. faults \in 0 .. MaxFaults
    BY WorkerAssumption DEF Init, WorkerInit
  <2> QED
    BY <2>1, <2>2 DEF Init, WorkerInit, WorkerTypeOK, None
<1> QED
  BY <1>1, <1>2 DEF Init, MainInit, TypeInv, TypeOK, SidKnown, BusyHasSid, Busy

\* The student's clicks keep the main thread typed.
LEMMA StudentTyped ==
  ASSUME TypeInv, Student
  PROVE  TypeInv'
<1> USE GenerationAssumption DEF TypeInv, TypeOK
<1>1. WorkerTypeOK'
  BY DEF Student, workerVars, WorkerTypeOK
<1>2. bps \in SUBSET Lines
  BY DEF MainTypeOK
<1>3. ASSUME ui \in Busy
      PROVE  /\ sid \in Session
             /\ \A t \in CommandType : Cmd(t, sid) \in Command
             /\ \A m \in StepMode : ResumeCmd(sid, m) \in Command
             /\ \A b \in SUBSET Lines : BreakpointsCmd(sid, b) \in Command
  <2>1. sid \in Session
    BY <1>3 DEF MainTypeOK, BusyHasSid, Session
  <2> QED
    BY <2>1, CommandsTyped DEF StepMode
<1>4. ASSUME NEW g, NEW p \in [ Session -> { "none", "pending", "settled" } ],
             NEW before \in Seq(Command), NEW mode \in StepMode,
             ExecuteRun(g, p, before, mode)
      PROVE  MainTypeOK' /\ SidKnown' /\ BusyHasSid'
  <2>1. g \in Session
    BY <1>4 DEF ExecuteRun
  <2>2. Append(before, RunCmd(g, bps, mode)) \in Seq(Command)
    <3>1. RunCmd(g, bps, mode) \in Command
      BY <2>1, <1>2, CommandsTyped
    <3> QED
      BY <3>1
  <2>3. /\ port' \in { "live", "gone" } /\ ready' \in BOOLEAN
        /\ pending' \in Seq(Command) /\ toWorker' \in Seq(Command)
    BY <2>2, <1>4, PostTyped DEF ExecuteRun
  <2> QED
    BY <2>1, <2>3, <1>4
    DEF ExecuteRun, MainTypeOK, ExecutionState, SidKnown, BusyHasSid, Session
<1>5. ASSUME NEW mode \in StepMode, Run(mode)
      PROVE  MainTypeOK' /\ SidKnown' /\ BusyHasSid'
  <2>1. promise \in [ Session -> { "none", "pending", "settled" } ]
    BY DEF MainTypeOK
  <2>2. << >> \in Seq(Command)
    OBVIOUS
  <2>3. ExecuteRun(gen + 1, promise, << >>, mode)
    BY <1>5 DEF Run
  <2> QED
    BY <2>1, <2>2, <2>3, <1>4
<1>6. ASSUME Stop
      PROVE  MainTypeOK' /\ SidKnown' /\ BusyHasSid'
  <2>1. << Cmd("stop", sid) >> \in Seq(Command)
    BY <1>3, <1>6 DEF Stop, CommandType
  <2>2. /\ port' \in { "live", "gone" } /\ ready' \in BOOLEAN
        /\ pending' \in Seq(Command) /\ toWorker' \in Seq(Command)
    BY <2>1, <1>6, PostTyped DEF Stop
  <2>3. promise' \in [ Session -> { "none", "pending", "settled" } ]
    BY <1>6, SettledTyped DEF Stop
  <2> QED
    BY <2>2, <2>3, <1>3, <1>6
    DEF Stop, MainTypeOK, ExecutionState, SidKnown, BusyHasSid, Busy, Session, None
<1>7. ASSUME Restart
      PROVE  MainTypeOK' /\ SidKnown' /\ BusyHasSid'
  <2>1. CASE ui \in Busy
    <3>1. << Cmd("stop", sid) >> \in Seq(Command)
      BY <1>3, <2>1 DEF CommandType
    <3> QED
      BY <3>1, <2>1, <1>4, <1>7, SettledTyped DEF Restart, StepMode
  <2>2. CASE ui \notin Busy
    <3>1. promise \in [ Session -> { "none", "pending", "settled" } ]
      BY DEF MainTypeOK
    <3>2. << >> \in Seq(Command) /\ "continue" \in StepMode
      BY DEF StepMode
    <3>3. ExecuteRun(gen + 1, promise, << >>, "continue")
      BY <2>2, <1>7 DEF Restart
    <3> QED
      BY <3>1, <3>2, <3>3, <1>4
  <2> QED
    BY <2>1, <2>2
<1>8. ASSUME NEW cmds \in Seq(Command), Post(cmds),
             UNCHANGED << runVars, loc, bps, delivered, crashes, fromWorker >>,
             ui \in Busy, ui' \in Busy, clicks' \in 0 .. MaxClicks
      PROVE  MainTypeOK' /\ SidKnown' /\ BusyHasSid'
  <2>1. /\ port' \in { "live", "gone" } /\ ready' \in BOOLEAN
        /\ pending' \in Seq(Command) /\ toWorker' \in Seq(Command)
    BY <1>8, PostTyped
  <2> QED
    BY <2>1, <1>8
    DEF MainTypeOK, ExecutionState, SidKnown, BusyHasSid, Busy, runVars
<1>9. ASSUME Click PROVE clicks' \in 0 .. MaxClicks
  BY <1>9, ClicksAssumption DEF Click, MainTypeOK
<1>10. ASSUME Pause
       PROVE  MainTypeOK' /\ SidKnown' /\ BusyHasSid'
  <2>1. << Cmd("pause", sid) >> \in Seq(Command)
    BY <1>3, <1>10 DEF Pause, CommandType, Busy
  <2> QED
    BY <2>1, <1>8, <1>9, <1>10 DEF Pause, Busy
<1>11. ASSUME NEW mode \in StepMode, Resume(mode)
       PROVE  MainTypeOK' /\ SidKnown' /\ BusyHasSid'
  <2>1. << ResumeCmd(sid, mode) >> \in Seq(Command)
    BY <1>3, <1>11 DEF Resume, Busy
  <2> QED
    BY <2>1, <1>8, <1>11 DEF Resume, Busy, MainTypeOK
<1>12. ASSUME SubmitInput
       PROVE  MainTypeOK' /\ SidKnown' /\ BusyHasSid'
  <2>1. << Cmd("input", sid) >> \in Seq(Command)
    BY <1>3, <1>12 DEF SubmitInput, CommandType, Busy
  <2> QED
    BY <2>1, <1>8, <1>12 DEF SubmitInput, Busy, MainTypeOK
<1>13. ASSUME NEW line \in Lines, EditBreakpoint(line)
       PROVE  MainTypeOK' /\ SidKnown' /\ BusyHasSid'
  <2>1. bps' \in SUBSET Lines
    BY <1>2, <1>13 DEF EditBreakpoint
  <2>2. /\ port' \in { "live", "gone" } /\ ready' \in BOOLEAN
        /\ pending' \in Seq(Command) /\ toWorker' \in Seq(Command)
    <3>1. CASE ui \in Busy /\ sid # 0
      <4>1. << BreakpointsCmd(sid, bps') >> \in Seq(Command)
        BY <3>1, <2>1, <1>3
      <4> QED
        BY <4>1, <3>1, <1>13, PostTyped DEF EditBreakpoint
    <3>2. CASE ~(ui \in Busy /\ sid # 0)
      BY <3>2, <1>13 DEF EditBreakpoint, portVars, MainTypeOK
    <3> QED
      BY <3>1, <3>2
  <2> QED
    BY <2>1, <2>2, <1>9, <1>13
    DEF EditBreakpoint, MainTypeOK, SidKnown, BusyHasSid, runVars
<1> QED
  BY <1>1, <1>5, <1>6, <1>7, <1>10, <1>11, <1>12, <1>13 DEF Student, StepMode

\* An event that crosses the port keeps the main thread typed.
LEMMA DeliverTyped ==
  ASSUME TypeInv, DeliverEvent
  PROVE  MainTypeOK' /\ SidKnown' /\ BusyHasSid'
<1> USE GenerationAssumption DEF TypeInv, TypeOK
<1> DEFINE e == Head(fromWorker)
<1>1. e \in Event /\ Tail(fromWorker) \in Seq(Event)
  BY HeadTailProperties DEF DeliverEvent, MainTypeOK
<1>2. /\ ready' \in BOOLEAN /\ port' \in { "live", "gone" }
      /\ pending' \in Seq(Command) /\ toWorker' \in Seq(Command)
  <2>1. CASE e.type = "ready"
    <3>1. toWorker \o pending \in Seq(Command) /\ << >> \in Seq(Command)
      BY ConcatProperties DEF MainTypeOK
    <3> QED
      BY <3>1, <2>1 DEF DeliverEvent, FlushPending, MainTypeOK
  <2>2. CASE e.type # "ready"
    BY <2>2 DEF DeliverEvent, portVars, MainTypeOK
  <2> QED
    BY <2>1, <2>2
<1>3. /\ ui' \in ExecutionState /\ gen' = gen /\ sid' = sid
      /\ settle' \in Session \cup { None }
      /\ promise' \in [ Session -> { "none", "pending", "settled" } ]
      /\ loc' \in Nat /\ delivered' \in [ Session -> Nat ]
      /\ ui' \in Busy => (ui \in Busy \/ gen # 0)
  <2>0. OnWorkerEvent(e)
    BY DEF DeliverEvent
  <2>1. CASE IsCurrent(e) /\ OnSuspend(e)
    BY <2>1, <1>1 DEF IsCurrent, OnSuspend, runVars, MainTypeOK, Event, ExecutionState, None
  <2>2. CASE IsCurrent(e) /\ OnOutput(e)
    <3>1. delivered' \in [ Session -> Nat ]
      <4>1. sid \in Session
        BY <2>2 DEF IsCurrent, SidKnown, MainTypeOK, Session, None
      <4>2. delivered \in [ Session -> Nat ] /\ delivered[sid] + 1 \in Nat
        BY <4>1 DEF MainTypeOK
      <4> QED
        BY <4>1, <4>2, <2>2 DEF OnOutput
    <3> QED
      BY <3>1, <2>2 DEF OnOutput, runVars, MainTypeOK
  <2>3. CASE IsCurrent(e) /\ OnResumed(e)
    BY <2>3 DEF OnResumed, runVars, MainTypeOK, ExecutionState, Busy
  <2>4. CASE IsCurrent(e) /\ OnTerminal(e)
    BY <2>4, SettledTyped
    DEF OnTerminal, Finish, MainTypeOK, ExecutionState, Terminal, Busy
  <2>5. CASE IsCurrent(e) /\ OnRunRejected(e)
    BY <2>5, SettledTyped DEF OnRunRejected, Finish, MainTypeOK, ExecutionState, Busy
  <2>6. CASE ~IsCurrent(e)
    BY <2>0, <2>6 DEF OnWorkerEvent, runVars, MainTypeOK
  <2> QED
    BY <2>0, <2>1, <2>2, <2>3, <2>4, <2>5, <2>6 DEF OnWorkerEvent
<1> QED
  BY <1>1, <1>2, <1>3 DEF DeliverEvent, MainTypeOK, SidKnown, BusyHasSid

\* A worker that is terminated, and perhaps made anew, leaves all typed.
LEMMA RespawnTyped ==
  ASSUME TypeInv, Respawn \/ Dispose, Terminated,
         crashes' \in Nat, faults' \in 0 .. MaxFaults,
         Respawn => UNCHANGED << ui, runVars, loc, bps, delivered, clicks >>
  PROVE  TypeInv'
<1> USE GenerationAssumption DEF TypeInv, TypeOK
<1>1. WorkerTypeOK'
  <2>1. ses' \in [ Session -> SessionState ]
    BY StatesTyped DEF Terminated
  <2>2. lost' \in SUBSET Session
    BY DEF Terminated, WorkerTypeOK
  <2> QED
    BY <2>1, <2>2 DEF Terminated, WorkerTypeOK
<1>2. ASSUME Respawn PROVE MainTypeOK' /\ SidKnown' /\ BusyHasSid'
  <2>1. << Evt("ready", None) >> \in Seq(Event)
    BY EventsTyped DEF EventType
  <2>2. << >> \in Seq(Command)
    OBVIOUS
  <2> QED
    BY <1>2, <2>1, <2>2 DEF Respawn, MainTypeOK, SidKnown, BusyHasSid, runVars
<1>3. ASSUME Dispose PROVE MainTypeOK' /\ SidKnown' /\ BusyHasSid'
  <2>1. /\ fromWorker' \in Seq(Event)
        /\ pending' \in Seq(Command) /\ toWorker' \in Seq(Command)
    BY <1>3 DEF Dispose
  <2>2. CASE ui \in Busy
    <3>1. promise' \in [ Session -> { "none", "pending", "settled" } ]
      BY <1>3, <2>2, SettledTyped DEF Dispose, Finish
    <3>2. gen' \in 0 .. MaxGeneration
      BY <1>3, <2>2 DEF Dispose, MainTypeOK
    <3>3. ui' = "cancelled" /\ sid # 0
      BY <1>3, <2>2 DEF Dispose, Finish, BusyHasSid
    <3>4. SidKnown' /\ BusyHasSid'
      <4>1. gen' = gen + 1 /\ sid' = sid
        BY <1>3, <2>2 DEF Dispose
      <4> QED
        BY <3>3, <4>1 DEF SidKnown, BusyHasSid, Busy, MainTypeOK
    <3>5. MainTypeOK'
      <4>1. loc' = 0 /\ settle' = None /\ port' = "gone" /\ ready' = FALSE
        BY <1>3, <2>2 DEF Dispose, Finish
      <4>2. UNCHANGED << sid, bps, delivered, clicks, crashes >>
        BY <1>3 DEF Dispose
      <4> QED
        BY <2>1, <3>1, <3>2, <3>3, <4>1, <4>2 DEF MainTypeOK, ExecutionState
    <3> QED
      BY <3>4, <3>5
  <2>3. CASE ui \notin Busy
    BY <1>3, <2>1, <2>3 DEF Dispose, MainTypeOK, SidKnown, BusyHasSid
  <2> QED
    BY <2>2, <2>3
<1> QED
  BY <1>1, <1>2, <1>3

\* Every step of the worker leaves it typed, and the port as well.
LEMMA WorkerTyped ==
  ASSUME TypeInv, Worker
  PROVE  TypeInv'
<1> USE DEF TypeInv, TypeOK
<1>1. SUFFICES WorkerTypeOK' /\ toWorker' \in Seq(Command) /\ fromWorker' \in Seq(Event)
  BY DEF Worker, mainOnly, runVars, MainTypeOK, SidKnown, BusyHasSid
<1>2. /\ toWorker \in Seq(Command) /\ fromWorker \in Seq(Event)
      /\ ses \in [ Session -> SessionState ]
  BY DEF MainTypeOK, WorkerTypeOK
<1>3. ASSUME HandleWorkerCommand
      PROVE  WorkerTypeOK' /\ toWorker' \in Seq(Command) /\ fromWorker' \in Seq(Event)
  <2> DEFINE c == Head(toWorker)
  <2>1. c \in Command /\ Tail(toWorker) \in Seq(Command)
    BY <1>2, <1>3, HeadTailProperties DEF HandleWorkerCommand
  <2>2. c.sid \in Session /\ c.mode \in StepMode /\ c.bps \in SUBSET Lines
    BY <2>1 DEF Command
  <2>3. AbortCurrent(ses) \in [ Session -> SessionState ]
    BY <1>2, StatesTyped DEF AbortCurrent, WorkerTypeOK
  <2>4. CASE HandleRun(c)
    <3> DEFINE st == [ Fresh EXCEPT !.pc = IF tail = None THEN "begin" ELSE "queued",
                                    !.after = tail, !.mode = c.mode, !.bps = c.bps ]
    <3>1. st \in SessionState
      <4>1. tail \in Session \cup { None }
        BY DEF WorkerTypeOK
      <4> QED
        BY <4>1, <2>2 DEF Fresh, SessionState, Phase
    <3>2. ses' \in [ Session -> SessionState ]
      BY <3>1, <2>2, <2>3, <2>4, <1>2 DEF HandleRun
    <3> QED
      BY <3>2, <2>1, <1>3 DEF HandleWorkerCommand, WorkerTypeOK, MainTypeOK
  <2>5. CASE HandleStop(c)
    <3>1. ses' \in [ Session -> SessionState ]
      BY <2>3, <2>5, <1>2 DEF HandleStop
    <3> QED
      BY <3>1, <2>1, <1>3 DEF HandleWorkerCommand, WorkerTypeOK, MainTypeOK
  <2>6. CASE HandlePause(c) \/ HandleResume(c) \/ HandleInput(c) \/ HandleBreakpoints(c)
    <3>1. ses' \in [ Session -> SessionState ]
      <4>1. CASE cur # c.sid
        BY <4>1, <2>6, <1>2 DEF HandlePause, HandleResume, HandleInput, HandleBreakpoints
      <4>2. CASE cur = c.sid
        <5>1. cur \in Session /\ ses[cur] \in SessionState
          BY <4>2, <2>2, <1>2
        <5>2. CASE HandlePause(c)
          <6>1. [ ses[cur] EXCEPT !.pauseReq = TRUE ] \in SessionState
            BY <5>1, StatesTyped
          <6> QED
            BY <6>1, <5>1, <5>2, <1>2 DEF HandlePause
        <5>3. CASE HandleResume(c)
          <6>1. [ ses[cur] EXCEPT !.mode = c.mode, !.pauseReq = FALSE,
                                  !.pc = IF @ = "parked" THEN "resumed" ELSE @ ] \in SessionState
            BY <5>1, <2>2 DEF SessionState, Phase
          <6> QED
            BY <6>1, <5>1, <5>3, <1>2 DEF HandleResume
        <5>4. CASE HandleInput(c)
          <6>1. [ ses[cur] EXCEPT !.pc = IF @ = "input" THEN "run" ELSE @ ] \in SessionState
            BY <5>1 DEF SessionState, Phase
          <6> QED
            BY <6>1, <5>1, <5>4, <1>2 DEF HandleInput
        <5>5. CASE HandleBreakpoints(c)
          <6>1. [ ses[cur] EXCEPT !.bps = c.bps ] \in SessionState
            BY <5>1, <2>2, StatesTyped
          <6> QED
            BY <6>1, <5>1, <5>5, <1>2 DEF HandleBreakpoints
        <5> QED
          BY <2>6, <5>2, <5>3, <5>4, <5>5
      <4> QED
        BY <4>1, <4>2
    <3> QED
      BY <3>1, <2>1, <1>3 DEF HandleWorkerCommand, WorkerTypeOK, MainTypeOK
  <2> QED
    BY <2>4, <2>5, <2>6, <1>3 DEF HandleWorkerCommand
<1>4. ASSUME NEW s \in Session, NEW events \in Seq(Event), Say(s, events)
      PROVE  fromWorker' \in Seq(Event)
  <2>1. fromWorker \o events \in Seq(Event) /\ fromWorker \o << >> \in Seq(Event)
    BY <1>2, ConcatProperties
  <2> QED
    BY <2>1, <1>4 DEF Say
<1>5. ASSUME NEW s \in Session, Leave(s)
      PROVE  /\ ses' \in [ Session -> SessionState ]
             /\ cur' \in Session \cup { None } /\ tail' \in Session \cup { None }
  <2>1. \A t \in Session : [ ses[t] EXCEPT !.pc = "begin", !.after = None ] \in SessionState
    BY <1>2, StatesTyped DEF Phase
  <2> QED
    BY <2>1, <1>2, <1>5, StatesTyped DEF Leave, WorkerTypeOK
<1>6. ASSUME NEW s \in Session, NEW st \in SessionState, NEW before \in Seq(Event),
             YieldOrBody(s, st, before) \/ Body(s, st, before)
      PROVE  /\ fromWorker' \in Seq(Event) /\ said' \in [ Session -> Nat ]
             /\ ses' \in [ Session -> SessionState ]
             /\ cur' \in Session \cup { None } /\ tail' \in Session \cup { None }
  <2>1. \A t \in EventType : Append(before, Evt(t, s)) \in Seq(Event)
    BY EventsTyped
  <2>2. \A p \in Phase : [ ses EXCEPT ![s] = [ st EXCEPT !.pc = p ] ]
                           \in [ Session -> SessionState ]
    BY <1>2, StatesTyped
  <2>3. /\ cur \in Session \cup { None } /\ tail \in Session \cup { None }
        /\ said \in [ Session -> Nat ]
        /\ [ said EXCEPT ![s] = @ + 1 ] \in [ Session -> Nat ]
    BY DEF WorkerTypeOK
  <2>4. ASSUME NEW events \in Seq(Event), NEW p \in Phase, Say(s, events),
               ses' = [ ses EXCEPT ![s] = [ st EXCEPT !.pc = p ] ],
               UNCHANGED << cur, tail >>,
               said' \in { said, [ said EXCEPT ![s] = @ + 1 ] }
        PROVE  /\ fromWorker' \in Seq(Event) /\ said' \in [ Session -> Nat ]
               /\ ses' \in [ Session -> SessionState ]
               /\ cur' \in Session \cup { None } /\ tail' \in Session \cup { None }
    BY <1>4, <2>2, <2>3, <2>4
  <2>5. CASE Body(s, st, before)
    <3>1. CASE \E outcome \in { "completed", "runtimeError" } :
                 End(s, Append(before, Evt(outcome, s))) /\ UNCHANGED said
      BY <3>1, <2>1, <2>3, <1>4, <1>5 DEF End, EventType
    <3>2. CASE /\ Say(s, before)
               /\ ses' = [ ses EXCEPT ![s] = [ st EXCEPT !.pc = "run" ] ]
               /\ UNCHANGED << cur, tail, said >>
      BY <3>2, <2>4 DEF Phase
    <3>3. CASE /\ Say(s, Append(before, Evt("output", s)))
               /\ said' = IF cur = s THEN [ said EXCEPT ![s] = @ + 1 ] ELSE said
               /\ ses' = [ ses EXCEPT ![s] = [ st EXCEPT !.pc = "run" ] ]
               /\ UNCHANGED << cur, tail >>
      BY <3>3, <2>1, <2>4 DEF Phase, EventType
    <3>4. CASE /\ Say(s, Append(before, Evt("inputRequest", s)))
               /\ ses' = [ ses EXCEPT ![s] = [ st EXCEPT !.pc = "input" ] ]
               /\ UNCHANGED << cur, tail, said >>
      BY <3>4, <2>1, <2>4 DEF Phase, EventType
    <3> QED
      BY <2>5, <3>1, <3>2, <3>3, <3>4 DEF Body
  <2>6. CASE /\ Say(s, before)
             /\ ses' = [ ses EXCEPT ![s] = [ st EXCEPT !.pc = "yield" ] ]
             /\ UNCHANGED << cur, tail, said >>
    BY <2>4, <2>6 DEF Phase
  <2> QED
    BY <1>6, <2>5, <2>6 DEF YieldOrBody
<1>7. ASSUME NEW s \in Session, SessionStep(s)
      PROVE  WorkerTypeOK' /\ toWorker' \in Seq(Command) /\ fromWorker' \in Seq(Event)
  <2> DEFINE st == [ ses[s] EXCEPT !.steps = @ + 1 ]
  <2>1. ses[s] \in SessionState /\ st \in SessionState
    BY <1>2, StatesTyped
  <2>2. ASSUME NEW t \in EventType, End(s, << Evt(t, s) >>)
        PROVE  /\ ses' \in [ Session -> SessionState ] /\ fromWorker' \in Seq(Event)
               /\ cur' \in Session \cup { None } /\ tail' \in Session \cup { None }
    <3>1. << Evt(t, s) >> \in Seq(Event)
      BY EventsTyped
    <3> QED
      BY <3>1, <1>4, <1>5, <2>2 DEF End
  <2>3. CASE Begin(s)
    <3> DEFINE first == [ ses[s] EXCEPT !.steps = 1 ]
    <3>1. /\ [ ses[s] EXCEPT !.pc = "rejected" ] \in SessionState
          /\ [ first EXCEPT !.pc = "ticked" ] \in SessionState
          /\ Parked(first) \in SessionState
      <4>1. first \in SessionState
        BY <2>1, StatesTyped
      <4> QED
        BY <2>1, <4>1, StatesTyped DEF Phase
    <3>2. PausedEvt(s, 1) \in Event
      BY EventsTyped
    <3>3. ses' \in [ Session -> SessionState ] /\ fromWorker' \in Seq(Event)
      <4>1. \/ /\ ses' = [ ses EXCEPT ![s] = [ ses[s] EXCEPT !.pc = "rejected" ] ]
               /\ UNCHANGED fromWorker
            \/ /\ ses' = [ ses EXCEPT ![s] = Parked(first) ]
               /\ fromWorker' = Append(fromWorker, PausedEvt(s, 1))
            \/ /\ ses' = [ ses EXCEPT ![s] = [ first EXCEPT !.pc = "ticked" ] ]
               /\ UNCHANGED fromWorker
        BY <2>3 DEF Begin
      <4>2. Append(fromWorker, PausedEvt(s, 1)) \in Seq(Event)
        BY <3>2, <1>2
      <4>3. \A new \in SessionState :
              [ ses EXCEPT ![s] = new ] \in [ Session -> SessionState ]
        BY <1>2
      <4> HIDE DEF first
      <4> QED
        BY <4>1, <4>2, <4>3, <3>1, <1>2
    <3> QED
      BY <3>3, <2>3, <1>2 DEF Begin, WorkerTypeOK
  <2>4. CASE EndUnrun(s)
    BY <2>2, <2>4, <1>2 DEF EndUnrun, EventType, WorkerTypeOK
  <2>8. CASE FirstStatement(s)
    <3>1. << >> \in Seq(Event)
      OBVIOUS
    <3> QED
      BY <3>1, <2>1, <2>8, <1>2, <1>6 DEF FirstStatement, WorkerTypeOK
  <2>5. CASE ResumeFromGate(s)
    <3>1. << Evt("resumed", s) >> \in Seq(Event)
      BY EventsTyped DEF EventType
    <3> QED
      BY <3>1, <2>1, <2>5, <1>2, <1>6 DEF ResumeFromGate, WorkerTypeOK
  <2>6. CASE TimerFires(s)
    <3>1. << >> \in Seq(Event)
      OBVIOUS
    <3> QED
      BY <3>1, <2>1, <2>2, <2>6, <1>2, <1>6 DEF TimerFires, WorkerTypeOK, EventType
  <2>7. CASE Tick(s)
    <3>1. << >> \in Seq(Event)
      OBVIOUS
    <3>2. ASSUME Park(s, st)
          PROVE  /\ ses' \in [ Session -> SessionState ] /\ fromWorker' \in Seq(Event)
                 /\ UNCHANGED << cur, tail, said >>
      <4>1. << PausedEvt(s, st.steps) >> \in Seq(Event)
        BY <2>1, EventsTyped DEF SessionState
      <4>2. Parked(st) \in SessionState
        BY <2>1, StatesTyped
      <4> QED
        BY <4>1, <4>2, <3>2, <1>2, <1>4 DEF Park
    <3>3. \/ \E t \in EventType : End(s, << Evt(t, s) >>) /\ UNCHANGED said
          \/ Park(s, st)
          \/ YieldOrBody(s, st, << >>)
      BY <2>7 DEF Tick, EventType
    <3> QED
      BY <3>1, <3>2, <3>3, <2>1, <2>2, <2>7, <1>2, <1>6 DEF Tick, WorkerTypeOK
  <2> QED
    BY <1>7, <2>3, <2>4, <2>5, <2>6, <2>7, <2>8 DEF SessionStep
<1>8. ASSUME Fault PROVE faults' \in 0 .. MaxFaults
  BY <1>8, WorkerAssumption DEF Fault, WorkerTypeOK
<1>9. ASSUME Crash
      PROVE  WorkerTypeOK' /\ toWorker' \in Seq(Command) /\ fromWorker' \in Seq(Event)
  <2>1. Evt("workerError", None) \in Event
    BY EventsTyped DEF EventType
  <2>2. fromWorker' \in Seq(Event)
    BY <2>1, <1>2, <1>9 DEF Crash
  <2> QED
    BY <2>2, <1>2, <1>8, <1>9 DEF Crash, WorkerTypeOK
<1>10. ASSUME NEW s \in Session, RunRejects(s)
       PROVE  WorkerTypeOK' /\ toWorker' \in Seq(Command) /\ fromWorker' \in Seq(Event)
  <2>1. Evt("workerError", s) \in Event
    BY EventsTyped DEF EventType
  <2>2. fromWorker' \in Seq(Event)
    BY <2>1, <1>2, <1>10 DEF RunRejects
  <2> QED
    BY <2>2, <1>2, <1>5, <1>8, <1>10 DEF RunRejects, WorkerTypeOK
<1> QED
  BY <1>3, <1>7, <1>9, <1>10 DEF Worker

\* Every step leaves it well typed: one case per actor.
LEMMA NextTyped == TypeInv /\ [Next]_vars => TypeInv'
<1> SUFFICES ASSUME TypeInv, [Next]_vars PROVE TypeInv'
  OBVIOUS
<1>1. ASSUME Fault PROVE faults' \in 0 .. MaxFaults
  BY <1>1, WorkerAssumption DEF Fault, TypeInv, TypeOK, WorkerTypeOK
<1>2. crashes \in Nat /\ crashes + 1 \in Nat /\ faults \in 0 .. MaxFaults
  BY DEF TypeInv, TypeOK, MainTypeOK, WorkerTypeOK
<1>3. CASE Student
  BY <1>3, StudentTyped
<1>4. CASE Deliver
  <2>1. CASE DeliverEvent /\ UNCHANGED workerVars
    BY <2>1, DeliverTyped DEF TypeInv, TypeOK, workerVars, WorkerTypeOK
  <2>2. CASE DeliverCrash /\ Terminated /\ UNCHANGED faults
    BY <2>2, <1>2, RespawnTyped DEF DeliverCrash
  <2> QED
    BY <1>4, <2>1, <2>2 DEF Deliver
<1>5. CASE Host
  <2>1. CASE RecreateWorker /\ Terminated /\ Fault
    BY <2>1, <1>1, <1>2, RespawnTyped DEF RecreateWorker
  <2>2. CASE Dispose /\ Terminated /\ Fault
    BY <2>2, <1>1, <1>2, RespawnTyped DEF Dispose, Respawn
  <2> QED
    BY <1>5, <2>1, <2>2 DEF Host
<1>6. CASE Worker
  BY <1>6, WorkerTyped
<1>7. CASE UNCHANGED vars
  BY <1>7 DEF vars, mainVars, workerVars, runVars, portVars, TypeInv, TypeOK,
              MainTypeOK, WorkerTypeOK, SidKnown, BusyHasSid
<1> QED
  BY <1>3, <1>4, <1>5, <1>6, <1>7 DEF Next

\* Every state the IDE can reach is well typed: the queues carry protocol
\* messages only, a command always carries a session id that was given out,
\* and no counter leaves its range.
THEOREM Typing == Spec => []TypeOK
<1>1. Init => TypeInv
  BY InitTyped
<1>2. TypeInv /\ [Next]_vars => TypeInv'
  BY NextTyped
<1>3. TypeInv => TypeOK
  BY DEF TypeInv
<1> QED
  BY <1>1, <1>2, <1>3, PTL DEF Spec

-----------------------------------------------------------------------------
(* What a step of the worker does to RunInv *)

\* Commands other than run leave the begun and the ended sessions what they
\* were; run begins its own session.
LEMMA CommandEffect ==
  ASSUME TypeInv, HandleWorkerCommand
  PROVE  LET c == Head(toWorker) IN
         /\ c \in Command
         /\ toWorker' = Tail(toWorker)
         /\ toWorker # << >>
         /\ UNCHANGED fromWorker
         /\ \A t \in Session : ~(IsRun(c) /\ c.sid = t) =>
              /\ ses'[t].pc = "none" <=> ses[t].pc = "none"
              /\ ses'[t].pc = "ended" <=> ses[t].pc = "ended"
         /\ IsRun(c) => ses'[c.sid].pc \notin { "none", "ended" }
<1> DEFINE c == Head(toWorker)
<1> DEFINE Keeps(f, g, t) == /\ g[t].pc = "none" <=> f[t].pc = "none"
                             /\ g[t].pc = "ended" <=> f[t].pc = "ended"
<1>1. /\ toWorker \in Seq(Command) /\ ses \in [ Session -> SessionState ]
      /\ toWorker # << >> /\ toWorker' = Tail(toWorker) /\ UNCHANGED fromWorker
  BY DEF TypeInv, TypeOK, MainTypeOK, WorkerTypeOK, HandleWorkerCommand
<1>2. c \in Command /\ c.sid \in Session
  <2>1. c \in Command
    BY <1>1, HeadTailProperties
  <2> QED
    BY <2>1 DEF Command
<1>3. \A t \in Session : Keeps(ses, AbortCurrent(ses), t)
  <2>1. \A st \in SessionState : /\ Aborted(st).pc = "none" <=> st.pc = "none"
                                 /\ Aborted(st).pc = "ended" <=> st.pc = "ended"
    BY DEF Aborted, SessionState
  <2> QED
    BY <1>1, <2>1 DEF AbortCurrent
<1>4. AbortCurrent(ses) \in [ Session -> SessionState ]
  BY <1>1, StatesTyped DEF AbortCurrent
<1>5. CASE HandleRun(c)
  <2>1. c.type = "run"
    BY <1>5 DEF HandleRun
  <2>2. \A t \in Session : t # c.sid => Keeps(ses, ses', t)
    BY <1>1, <1>2, <1>3, <1>4, <1>5 DEF HandleRun
  <2>3. ses'[c.sid].pc \in { "begin", "queued" }
    BY <1>1, <1>2, <1>4, <1>5 DEF HandleRun, Fresh
  <2> QED
    BY <1>1, <1>2, <2>1, <2>2, <2>3 DEF IsRun
<1>6. CASE ~HandleRun(c)
  <2>1. \A t \in Session : Keeps(ses, ses', t)
    <3>1. CASE HandleStop(c)
      BY <3>1, <1>1, <1>3 DEF HandleStop
    <3>2. CASE HandlePause(c)
      BY <3>2, <1>1, <1>2 DEF HandlePause, SessionState
    <3>3. CASE HandleResume(c)
      BY <3>3, <1>1, <1>2 DEF HandleResume, SessionState
    <3>4. CASE HandleInput(c)
      BY <3>4, <1>1, <1>2 DEF HandleInput, SessionState
    <3>5. CASE HandleBreakpoints(c)
      BY <3>5, <1>1, <1>2 DEF HandleBreakpoints, SessionState
    <3> QED
      BY <3>1, <3>2, <3>3, <3>4, <3>5, <1>6 DEF HandleWorkerCommand
  <2>2. c.type # "run"
    BY <1>6 DEF HandleWorkerCommand, HandleRun, HandleStop, HandlePause,
                HandleResume, HandleInput, HandleBreakpoints
  <2> QED
    BY <1>1, <1>2, <2>1, <2>2 DEF IsRun
<1> QED
  BY <1>5, <1>6

\* A session that has begun and not ended posts some events, the last of which
\* may be its last word: then, and only then, it has ended.
Posts(s, events) ==
  /\ events \in Seq(Event)
  /\ fromWorker' = fromWorker \o events
  /\ UNCHANGED toWorker
  /\ ses[s].pc \notin { "none", "ended" }
  /\ ses'[s].pc # "none"
  /\ \A t \in Session \ { s } :
       /\ ses'[t].pc = "none" <=> ses[t].pc = "none"
       /\ ses'[t].pc = "ended" <=> ses[t].pc = "ended"
  /\ \A i \in 1 .. Len(events) :
       /\ events[i].sid = s
       /\ IsFinal(events[i]) => i = Len(events) /\ ses'[s].pc = "ended"

\* What a session's step posts.
LEMMA SessionEffect ==
  ASSUME TypeInv, NEW s \in Session, SessionStep(s) \/ RunRejects(s)
  PROVE  \E events : Posts(s, events)
<1> DEFINE Others == \A t \in Session \ { s } :
                       /\ ses'[t].pc = "none" <=> ses[t].pc = "none"
                       /\ ses'[t].pc = "ended" <=> ses[t].pc = "ended"
<1> DEFINE Soft(before) == /\ before \in Seq(Event)
                           /\ \A i \in 1 .. Len(before) :
                                before[i].sid = s /\ ~IsFinal(before[i])
<1>1. ses \in [ Session -> SessionState ] /\ fromWorker \in Seq(Event)
  BY DEF TypeInv, TypeOK, MainTypeOK, WorkerTypeOK
<1>2. ses[s].pc \notin { "none", "ended" } /\ UNCHANGED toWorker
  BY DEF SessionStep, Begin, EndUnrun, FirstStatement, Tick, ResumeFromGate,
         TimerFires, RunRejects
<1>3. ASSUME Leave(s) PROVE Others /\ ses'[s].pc = "ended"
  <2>1. ses'[s].pc = "ended"
    BY <1>3 DEF Leave, Over, Fresh
  <2>2. ASSUME NEW t \in Session \ { s }
        PROVE  /\ ses'[t].pc = "none" <=> ses[t].pc = "none"
               /\ ses'[t].pc = "ended" <=> ses[t].pc = "ended"
    BY <1>1, <1>3 DEF Leave, SessionState
  <2> QED
    BY <2>1, <2>2
<1>4. ASSUME NEW st \in SessionState, NEW p, p \in Phase \ { "none" },
             ses' = [ ses EXCEPT ![s] = [ st EXCEPT !.pc = p ] ]
      PROVE  Others /\ ses'[s].pc # "none"
  BY <1>1, <1>4 DEF SessionState
<1>5. ASSUME NEW before, Soft(before), Say(s, before), Others, ses'[s].pc # "none"
      PROVE  \E events : Posts(s, events)
  <2>1. Posts(s, IF cur = s THEN before ELSE << >>)
    BY <1>2, <1>5 DEF Say, Posts
  <2> QED
    BY <2>1
<1>6. ASSUME NEW before, Soft(before), NEW t \in EventType,
             Say(s, Append(before, Evt(t, s))), Others, ses'[s].pc # "none",
             t \in Terminal \cup { "workerError" } => ses'[s].pc = "ended"
      PROVE  \E events : Posts(s, events)
  <2> DEFINE all == Append(before, Evt(t, s))
  <2>1. Evt(t, s) \in Event /\ Evt(t, s).sid = s /\ Evt(t, s).type = t
    BY EventsTyped DEF Evt
  <2>2. /\ all \in Seq(Event) /\ Len(all) = Len(before) + 1
        /\ \A i \in 1 .. Len(before) : all[i] = before[i]
        /\ all[Len(all)] = Evt(t, s)
    BY <1>6, <2>1
  <2>3. \A i \in 1 .. Len(all) :
          /\ all[i].sid = s
          /\ IsFinal(all[i]) => i = Len(all) /\ ses'[s].pc = "ended"
    <3> TAKE i \in 1 .. Len(all)
    <3>1. CASE i = Len(all)
      BY <3>1, <2>1, <2>2, <1>6 DEF IsFinal
    <3>2. CASE i # Len(all)
      <4>1. i \in 1 .. Len(before)
        BY <3>2, <2>2, <1>6, LenProperties
      <4> QED
        BY <4>1, <2>2, <1>6
    <3> QED
      BY <3>1, <3>2
  <2>4. Posts(s, IF cur = s THEN all ELSE << >>)
    BY <1>2, <1>6, <2>2, <2>3 DEF Say, Posts
  <2> QED
    BY <2>4
<1>7. ASSUME NEW before, Soft(before), NEW t \in EventType,
             End(s, Append(before, Evt(t, s)))
      PROVE  \E events : Posts(s, events)
  BY <1>3, <1>6, <1>7 DEF End
<1>8. Soft(<< >>) /\ \A e : << e >> = Append(<< >>, e)
  OBVIOUS
<1>9. ASSUME NEW st \in SessionState, NEW before, Soft(before),
             YieldOrBody(s, st, before) \/ Body(s, st, before)
      PROVE  \E events : Posts(s, events)
  <2>1. CASE Body(s, st, before)
    <3>1. CASE \E outcome \in { "completed", "runtimeError" } :
                 End(s, Append(before, Evt(outcome, s)))
      BY <3>1, <1>7, <1>9 DEF EventType
    <3>2. CASE /\ Say(s, before)
               /\ ses' = [ ses EXCEPT ![s] = [ st EXCEPT !.pc = "run" ] ]
      BY <3>2, <1>4, <1>5, <1>9 DEF Phase
    <3>3. CASE /\ Say(s, Append(before, Evt("output", s)))
               /\ ses' = [ ses EXCEPT ![s] = [ st EXCEPT !.pc = "run" ] ]
      BY <3>3, <1>4, <1>6, <1>9 DEF Phase, EventType, Terminal
    <3>4. CASE /\ Say(s, Append(before, Evt("inputRequest", s)))
               /\ ses' = [ ses EXCEPT ![s] = [ st EXCEPT !.pc = "input" ] ]
      BY <3>4, <1>4, <1>6, <1>9 DEF Phase, EventType, Terminal
    <3> QED
      BY <2>1, <3>1, <3>2, <3>3, <3>4 DEF Body
  <2>2. CASE /\ Say(s, before)
             /\ ses' = [ ses EXCEPT ![s] = [ st EXCEPT !.pc = "yield" ] ]
    BY <2>2, <1>4, <1>5, <1>9 DEF Phase
  <2> QED
    BY <1>9, <2>1, <2>2 DEF YieldOrBody
<1>16. ASSUME NEW n \in Nat PROVE Soft(<< PausedEvt(s, n) >>)
  <2>1. /\ PausedEvt(s, n) \in Event /\ PausedEvt(s, n).sid = s
        /\ PausedEvt(s, n).type = "paused"
    BY EventsTyped DEF PausedEvt, Evt
  <2> QED
    BY <2>1 DEF IsFinal, Terminal
<1>17. ASSUME NEW st \in SessionState, ses' = [ ses EXCEPT ![s] = Parked(st) ]
       PROVE  Others /\ ses'[s].pc # "none"
  <2>1. Parked(st).pc = "parked"
    BY DEF Parked, SessionState
  <2> QED
    BY <1>1, <1>17, <2>1, <1>2
<1>10. CASE Begin(s)
  <2> DEFINE first == [ ses[s] EXCEPT !.steps = 1 ]
  <2>1. first \in SessionState
    BY <1>1, StatesTyped
  <2>2. CASE /\ Others /\ ses'[s].pc # "none"
             /\ UNCHANGED fromWorker
    <3>1. fromWorker \o << >> = fromWorker /\ << >> \in Seq(Event) /\ Len(<< >>) = 0
      BY <1>1, ConcatEmptySeq
    <3>2. Posts(s, << >>)
      BY <1>2, <2>2, <3>1 DEF Posts
    <3> QED
      BY <3>2
  <2>3. CASE /\ Others /\ ses'[s].pc # "none"
             /\ fromWorker' = Append(fromWorker, PausedEvt(s, 1))
    <3>1. fromWorker' = fromWorker \o << PausedEvt(s, 1) >>
      BY <1>1, <1>16, <2>3
    <3>2. Posts(s, << PausedEvt(s, 1) >>)
      BY <1>2, <1>16, <2>3, <3>1 DEF Posts
    <3> QED
      BY <3>2
  <2>4. \/ /\ ses' = [ ses EXCEPT ![s] = [ ses[s] EXCEPT !.pc = "rejected" ] ]
           /\ UNCHANGED fromWorker
        \/ /\ ses' = [ ses EXCEPT ![s] = Parked(first) ]
           /\ fromWorker' = Append(fromWorker, PausedEvt(s, 1))
        \/ /\ ses' = [ ses EXCEPT ![s] = [ first EXCEPT !.pc = "ticked" ] ]
           /\ UNCHANGED fromWorker
    BY <1>10 DEF Begin
  <2> HIDE DEF first, Others
  <2> QED
    BY <1>1, <1>4, <1>17, <2>1, <2>2, <2>3, <2>4 DEF Phase
<1>11. CASE EndUnrun(s)
  BY <1>7, <1>8, <1>11 DEF EndUnrun, EventType
<1>18. CASE FirstStatement(s)
  BY <1>1, <1>8, <1>9, <1>18 DEF FirstStatement
<1>12. CASE ResumeFromGate(s)
  <2>1. Soft(<< Evt("resumed", s) >>)
    <3>1. Evt("resumed", s) \in Event /\ Evt("resumed", s).sid = s
      BY EventsTyped DEF EventType, Evt
    <3>2. ~IsFinal(Evt("resumed", s))
      BY DEF IsFinal, Evt, Terminal
    <3> QED
      BY <3>1, <3>2
  <2> QED
    BY <2>1, <1>1, <1>9, <1>12 DEF ResumeFromGate
<1>13. CASE TimerFires(s)
  BY <1>1, <1>7, <1>8, <1>9, <1>13 DEF TimerFires, EventType
<1>14. CASE Tick(s)
  <2> DEFINE st == [ ses[s] EXCEPT !.steps = @ + 1 ]
  <2>1. st \in SessionState /\ st.steps \in Nat
    <3>1. st \in SessionState
      BY <1>1, StatesTyped
    <3> QED
      BY <3>1 DEF SessionState
  <2>2. CASE Park(s, st)
    <3>1. Soft(<< PausedEvt(s, st.steps) >>)
      BY <2>1, <1>16
    <3>2. Others /\ ses'[s].pc # "none"
      BY <2>1, <2>2, <1>17 DEF Park
    <3> QED
      BY <3>1, <3>2, <2>2, <1>5 DEF Park
  <2>3. \/ \E t \in EventType : End(s, << Evt(t, s) >>)
        \/ Park(s, st)
        \/ YieldOrBody(s, st, << >>)
    BY <1>14 DEF Tick, EventType
  <2> QED
    BY <2>1, <2>2, <2>3, <1>7, <1>8, <1>9
<1>15. CASE RunRejects(s)
  <2>1. Evt("workerError", s) \in Event /\ Evt("workerError", s).sid = s
    BY EventsTyped DEF EventType, Evt
  <2>2. fromWorker' = fromWorker \o << Evt("workerError", s) >>
    BY <1>1, <1>15, <2>1 DEF RunRejects
  <2>3. Posts(s, << Evt("workerError", s) >>)
    BY <1>2, <1>3, <1>15, <2>1, <2>2 DEF Posts, RunRejects
  <2> QED
    BY <2>3
<1> QED
  BY <1>10, <1>11, <1>12, <1>13, <1>14, <1>15, <1>18 DEF SessionStep

-----------------------------------------------------------------------------
(* RunInv is inductive *)

\* The IDE starts with no session and nothing in flight.
LEMMA InitRunInv == Init => RunInv
<1> SUFFICES ASSUME Init PROVE RunInv
  OBVIOUS
<1>1. /\ ui = "idle" /\ gen = 0 /\ sid = 0 /\ settle = 0 /\ ready = FALSE
      /\ promise = [ s \in Session |-> "none" ]
      /\ Len(toWorker) = 0 /\ Len(pending) = 0 /\ toWorker = << >>
      /\ Len(fromWorker) = 1 /\ fromWorker[1].sid = 0
      /\ \A s \in Session : ses[s].pc = "none"
  BY DEF Init, MainInit, WorkerInit, Evt, Fresh, None
<1> QED
  BY <1>1 DEF RunInv, SidKnown, RunTracked, Busy, None, Issued, OneQueue, RunsOnce,
              LastWords, IsFinal, Quiesced, Session

\* What the worker does on its own.
LEMMA WorkerKeepsRunInv ==
  ASSUME TypeInv, RunInv, Worker
  PROVE  RunInv'
<1>1. /\ fromWorker \in Seq(Event) /\ toWorker \in Seq(Command) /\ pending \in Seq(Command)
      /\ gen \in Nat /\ sid \in Nat
      /\ \A s \in Session : s \in Nat \ { 0 }
      /\ \A c \in Command : c.sid \in Session
      /\ \A e \in Event : e.sid \in Session \cup { None }
  BY DEF TypeInv, TypeOK, MainTypeOK, Session, Command, Event
<1>2. /\ UNCHANGED << ui, gen, sid, settle, promise, ready, pending >>
      /\ SidKnown' /\ RunTracked'
  BY DEF Worker, mainOnly, runVars, RunInv, SidKnown, RunTracked
<1>3. CASE HandleWorkerCommand
  <2> DEFINE c == Head(toWorker)
  <2>1. /\ c \in Command /\ c.sid \in Session /\ UNCHANGED fromWorker
        /\ 1 \in 1 .. Len(toWorker) /\ c = toWorker[1]
        /\ Len(toWorker') = Len(toWorker) - 1
        /\ \A i \in 1 .. Len(toWorker') :
             toWorker'[i] = toWorker[i + 1] /\ i + 1 \in 1 .. Len(toWorker)
    <3>1. /\ c \in Command /\ toWorker' = Tail(toWorker) /\ toWorker # << >>
          /\ UNCHANGED fromWorker
      BY <1>3, CommandEffect
    <3>2. /\ Len(toWorker) \in Nat \ { 0 } /\ c = toWorker[1]
          /\ Len(toWorker') = Len(toWorker) - 1
          /\ \A i \in 1 .. Len(toWorker') : toWorker'[i] = toWorker[i + 1]
      BY <3>1, <1>1, HeadTailProperties, EmptySeq
    <3> QED
      BY <3>1, <3>2, <1>1
  <2>2. /\ \A t \in Session : ~(IsRun(c) /\ c.sid = t) =>
              /\ ses'[t].pc = "none" <=> ses[t].pc = "none"
              /\ ses'[t].pc = "ended" <=> ses[t].pc = "ended"
        /\ IsRun(c) => ses[c.sid].pc = "none" /\ ses'[c.sid].pc \notin { "none", "ended" }
    BY <1>3, <2>1, CommandEffect DEF RunInv, RunsOnce
  <2>3. Issued'
    <3>1. c.sid <= gen
      BY <2>1 DEF RunInv, Issued
    <3>2. \A t \in Session : ses'[t].pc # "none" => t <= gen
      BY <3>1, <2>2 DEF RunInv, Issued
    <3>3. \A i \in 1 .. Len(toWorker') : toWorker'[i].sid <= gen
      BY <2>1 DEF RunInv, Issued
    <3> QED
      BY <3>2, <3>3, <1>2, <2>1 DEF RunInv, Issued
  <2>4. OneQueue'
    BY <1>2, <2>1 DEF RunInv, OneQueue
  <2>5. RunsOnce(toWorker)'
    <3> SUFFICES ASSUME NEW i \in 1 .. Len(toWorker'), IsRun(toWorker'[i])
                 PROVE  /\ ses'[toWorker'[i].sid].pc = "none"
                        /\ \A j \in 1 .. Len(toWorker') :
                             IsRun(toWorker'[j]) /\ toWorker'[j].sid = toWorker'[i].sid => j = i
      BY DEF RunsOnce, IsRun
    <3>1. /\ i + 1 \in 1 .. Len(toWorker) /\ toWorker'[i] = toWorker[i + 1] /\ i + 1 # 1
      BY <2>1
    <3>2. /\ ses[toWorker[i + 1].sid].pc = "none" /\ toWorker[i + 1].sid \in Session
          /\ \A j \in 1 .. Len(toWorker) :
               IsRun(toWorker[j]) /\ toWorker[j].sid = toWorker[i + 1].sid => j = i + 1
      BY <3>1, <1>1 DEF RunInv, RunsOnce
    <3>3. ~(IsRun(c) /\ c.sid = toWorker[i + 1].sid)
      BY <3>1, <3>2, <2>1
    <3>4. ses'[toWorker'[i].sid].pc = "none"
      BY <3>1, <3>2, <3>3, <2>2
    <3>5. ASSUME NEW j \in 1 .. Len(toWorker'), IsRun(toWorker'[j]),
                 toWorker'[j].sid = toWorker'[i].sid
          PROVE  j = i
      <4>1. j + 1 = i + 1
        BY <3>1, <3>2, <3>5, <2>1
      <4> QED
        BY <4>1
    <3> QED
      BY <3>4, <3>5
  <2>6. RunsOnce(pending)'
    BY <1>1, <1>2, <2>1, <2>2 DEF RunInv, RunsOnce, OneQueue
  <2>7. LastWords'
    BY <1>1, <2>1, <2>2 DEF RunInv, LastWords, IsFinal
  <2>8. Quiesced'
    <3> SUFFICES ASSUME ui \notin Busy PROVE Quiesced'
      BY <1>2 DEF Quiesced
    <3>1. ~(IsRun(c) /\ c.sid = gen)
      BY <2>1 DEF RunInv, Quiesced
    <3>2. gen # 0 => gen \in Session /\ ses'[gen].pc \in { "none", "ended" }
      BY <3>1, <2>2 DEF RunInv, Quiesced, TypeInv, TypeOK, MainTypeOK, Session
    <3>3. \A i \in 1 .. Len(toWorker') : IsRun(toWorker'[i]) => toWorker'[i].sid # gen
      BY <2>1 DEF RunInv, Quiesced
    <3> QED
      BY <3>2, <3>3, <1>2, <2>1 DEF RunInv, Quiesced
  <2> QED
    BY <1>2, <2>3, <2>4, <2>5, <2>6, <2>7, <2>8 DEF RunInv
<1>4. CASE \E s \in Session : SessionStep(s) \/ RunRejects(s)
  <2>1. PICK s \in Session : SessionStep(s) \/ RunRejects(s)
    BY <1>4
  <2>2. PICK events : Posts(s, events)
    BY <2>1, SessionEffect
  <2>3. /\ events \in Seq(Event) /\ Len(events) \in Nat /\ UNCHANGED toWorker
        /\ Len(fromWorker') = Len(fromWorker) + Len(events)
        /\ \A i \in 1 .. Len(fromWorker') :
              IF i <= Len(fromWorker) THEN fromWorker'[i] = fromWorker[i]
              ELSE fromWorker'[i] = events[i - Len(fromWorker)]
    BY <1>1, <2>2, ConcatProperties DEF Posts
  <2>4. /\ ses[s].pc \notin { "none", "ended" } /\ ses'[s].pc # "none"
        /\ \A t \in Session \ { s } :
             /\ ses'[t].pc = "none" <=> ses[t].pc = "none"
             /\ ses'[t].pc = "ended" <=> ses[t].pc = "ended"
    BY <2>2 DEF Posts
  <2>5. \A i \in 1 .. Len(events) :
          /\ events[i].sid = s
          /\ IsFinal(events[i]) => i = Len(events) /\ ses'[s].pc = "ended"
    BY <2>2 DEF Posts
  <2>6. s <= gen
    BY <2>4 DEF RunInv, Issued
  <2>7. \A i \in 1 .. Len(fromWorker') :
          \/ i \in 1 .. Len(fromWorker) /\ fromWorker'[i] = fromWorker[i]
          \/ /\ i > Len(fromWorker) /\ fromWorker'[i].sid = s
             /\ IsFinal(fromWorker'[i]) => i = Len(fromWorker') /\ ses'[s].pc = "ended"
    <3> TAKE i \in 1 .. Len(fromWorker')
    <3>1. CASE i <= Len(fromWorker)
      BY <3>1, <2>3
    <3>2. CASE ~(i <= Len(fromWorker))
      <4>1. i - Len(fromWorker) \in 1 .. Len(events)
        BY <3>2, <2>3, <1>1, LenProperties
      <4>2. /\ fromWorker'[i] = events[i - Len(fromWorker)]
            /\ i > Len(fromWorker) /\ i = Len(fromWorker') <=> i - Len(fromWorker) = Len(events)
        BY <3>2, <2>3, <1>1, LenProperties
      <4> QED
        BY <4>1, <4>2, <2>5
    <3> QED
      BY <3>1, <3>2
  <2>8. Issued'
    BY <1>2, <2>3, <2>4, <2>6, <2>7 DEF RunInv, Issued
  <2>9. OneQueue'
    BY <1>2, <2>3 DEF RunInv, OneQueue
  <2>10. RunsOnce(toWorker)' /\ RunsOnce(pending)'
    <3>1. \A t \in Session : ses[t].pc = "none" => ses'[t].pc = "none"
      BY <2>4
    <3>2. /\ \A i \in 1 .. Len(toWorker) : toWorker[i].sid \in Session
          /\ \A i \in 1 .. Len(pending) : pending[i].sid \in Session
      BY <1>1
    <3>3. RunsOnce(toWorker)'
      BY <3>1, <3>2, <2>3 DEF RunInv, RunsOnce
    <3>4. RunsOnce(pending)'
      BY <3>1, <3>2, <1>2 DEF RunInv, RunsOnce
    <3> QED
      BY <3>3, <3>4
  <2>11. LastWords'
    <3> SUFFICES ASSUME NEW i \in 1 .. Len(fromWorker'), IsFinal(fromWorker'[i])
                 PROVE  /\ ses'[fromWorker'[i].sid].pc = "ended"
                        /\ \A j \in 1 .. Len(fromWorker') :
                             fromWorker'[j].sid = fromWorker'[i].sid => j <= i
      BY DEF LastWords, IsFinal
    <3>1. CASE i \in 1 .. Len(fromWorker) /\ fromWorker'[i] = fromWorker[i]
      <4>1. /\ fromWorker[i].sid \in Session /\ ses[fromWorker[i].sid].pc = "ended"
            /\ \A j \in 1 .. Len(fromWorker) : fromWorker[j].sid = fromWorker[i].sid => j <= i
        BY <3>1, <1>1 DEF RunInv, LastWords, IsFinal
      <4>2. fromWorker[i].sid # s
        BY <4>1, <2>4
      <4> QED
        BY <4>1, <4>2, <3>1, <2>4, <2>7
    <3>2. CASE ~(i \in 1 .. Len(fromWorker) /\ fromWorker'[i] = fromWorker[i])
      BY <3>2, <2>3, <2>7, <1>1, LenProperties
    <3> QED
      BY <3>1, <3>2
  <2>12. Quiesced'
    <3> SUFFICES ASSUME ui \notin Busy PROVE Quiesced'
      BY <1>2 DEF Quiesced
    <3>1. s # gen
      BY <2>4, <1>1 DEF RunInv, Quiesced
    <3>2. gen # 0 => gen \in Session
      BY DEF TypeInv, TypeOK, MainTypeOK, Session
    <3> QED
      BY <3>1, <3>2, <1>2, <2>3, <2>4, <2>7 DEF RunInv, Quiesced
  <2> QED
    BY <1>2, <2>8, <2>9, <2>10, <2>11, <2>12 DEF RunInv
<1>5. CASE Crash
  <2> DEFINE e == Evt("workerError", None)
  <2>1. /\ e.sid = None /\ None <= gen /\ ~IsFinal(e) /\ UNCHANGED << ses, toWorker >>
        /\ Len(fromWorker') = Len(fromWorker) + 1
        /\ \A i \in 1 .. Len(fromWorker) : fromWorker'[i] = fromWorker[i]
        /\ fromWorker'[Len(fromWorker) + 1] = e
    <3>1. e \in Event
      BY EventsTyped DEF EventType
    <3> QED
      BY <3>1, <1>1, <1>5 DEF Crash, Evt, IsFinal, None
  <2>2. \A i \in 1 .. Len(fromWorker') :
          \/ i \in 1 .. Len(fromWorker) /\ fromWorker'[i] = fromWorker[i]
          \/ i = Len(fromWorker) + 1 /\ fromWorker'[i] = e
    BY <2>1, <1>1, LenProperties
  <2>3. Issued'
    BY <1>2, <2>1, <2>2 DEF RunInv, Issued
  <2>4. OneQueue' /\ RunsOnce(toWorker)' /\ RunsOnce(pending)'
    BY <1>2, <2>1 DEF RunInv, OneQueue, RunsOnce
  <2>5. LastWords'
    BY <2>1, <2>2 DEF RunInv, LastWords, IsFinal
  <2>6. Quiesced'
    BY <1>2, <2>1, <2>2 DEF RunInv, Quiesced
  <2> QED
    BY <1>2, <2>3, <2>4, <2>5, <2>6 DEF RunInv
<1> QED
  BY <1>3, <1>4, <1>5 DEF Worker

\* post keeps every command in line: what is posted is appended to one of the
\* two queues, the other is empty or untouched.
LEMMA PostEffect ==
  ASSUME MainTypeOK, NEW cmds \in Seq(Command), Post(cmds)
  PROVE  /\ UNCHANGED ready
         /\ \/ ready /\ toWorker' = toWorker \o cmds /\ UNCHANGED pending
            \/ ~ready /\ pending' = pending \o cmds /\ UNCHANGED toWorker
            \/ UNCHANGED << toWorker, pending >>
BY DEF Post, MainTypeOK

\* Appending commands of which at most the last is a run, and that of a new
\* session, keeps a queue free of doubled runs.
LEMMA AppendRunsOnce ==
  ASSUME NEW q \in Seq(Command), NEW cmds \in Seq(Command), NEW top \in Nat,
         RunsOnce(q), UNCHANGED ses,
         \A i \in 1 .. Len(q) : q[i].sid < top,
         \A i \in 1 .. Len(cmds) : IsRun(cmds[i]) =>
           i = Len(cmds) /\ cmds[i].sid = top /\ ses[top].pc = "none"
  PROVE  LET n == q \o cmds IN
         \A i \in 1 .. Len(n) : IsRun(n[i]) =>
           /\ ses[n[i].sid].pc = "none"
           /\ \A j \in 1 .. Len(n) : IsRun(n[j]) /\ n[j].sid = n[i].sid => j = i
<1> DEFINE n == q \o cmds
<1>1. /\ Len(q) \in Nat /\ Len(cmds) \in Nat /\ Len(n) = Len(q) + Len(cmds)
      /\ \A i \in 1 .. Len(n) : n[i] = IF i <= Len(q) THEN q[i] ELSE cmds[i - Len(q)]
      /\ \A c \in Command : c.sid \in Nat
  BY ConcatProperties, LenProperties DEF Command, Session
<1>2. \A i \in 1 .. Len(n) :
        \/ i \in 1 .. Len(q) /\ n[i] = q[i] /\ n[i].sid < top
        \/ i \notin 1 .. Len(q) /\ (IsRun(n[i]) =>
             i = Len(n) /\ n[i].sid = top /\ ses[top].pc = "none")
  <2> TAKE i \in 1 .. Len(n)
  <2>1. CASE i <= Len(q)
    BY <2>1, <1>1
  <2>2. CASE ~(i <= Len(q))
    <3>1. i - Len(q) \in 1 .. Len(cmds) /\ n[i] = cmds[i - Len(q)]
      BY <2>2, <1>1
    <3> QED
      BY <3>1, <2>2, <1>1
  <2> QED
    BY <2>1, <2>2
<1>3. \A i \in 1 .. Len(q) : IsRun(q[i]) =>
        /\ ses[q[i].sid].pc = "none"
        /\ \A j \in 1 .. Len(q) : IsRun(q[j]) /\ q[j].sid = q[i].sid => j = i
  BY DEF RunsOnce
<1> SUFFICES ASSUME NEW i \in 1 .. Len(n), IsRun(n[i])
             PROVE  /\ ses[n[i].sid].pc = "none"
                    /\ \A j \in 1 .. Len(n) : IsRun(n[j]) /\ n[j].sid = n[i].sid => j = i
  OBVIOUS
<1>4. CASE i \in 1 .. Len(q) /\ n[i] = q[i] /\ n[i].sid < top
  BY <1>2, <1>3, <1>4
<1>5. CASE i = Len(n) /\ n[i].sid = top /\ ses[top].pc = "none"
  BY <1>2, <1>5
<1> QED
  BY <1>2, <1>4, <1>5

\* A click that posts commands.
LEMMA PostKeepsRunInv ==
  ASSUME TypeInv, RunInv, NEW cmds \in Seq(Command), Post(cmds), NEW top \in Nat,
         UNCHANGED << ses, fromWorker >>,
         gen' \in 0 .. MaxGeneration, gen <= gen', gen < top,
         \A i \in 1 .. Len(cmds) :
           /\ cmds[i].sid <= gen'
           /\ IsRun(cmds[i]) =>
                i = Len(cmds) /\ cmds[i].sid = top /\ ses[top].pc = "none",
         SidKnown', RunTracked',
         ui' \notin Busy => gen < gen' /\ \A i \in 1 .. Len(cmds) : ~IsRun(cmds[i])
  PROVE  RunInv'
<1>1. /\ fromWorker \in Seq(Event) /\ toWorker \in Seq(Command) /\ pending \in Seq(Command)
      /\ gen \in Nat /\ Len(cmds) \in Nat /\ MainTypeOK
      /\ \A s \in Session : s \in Nat \ { 0 }
      /\ \A c \in Command : c.sid \in Session
      /\ \A e \in Event : e.sid \in Nat
      /\ \A i \in 1 .. Len(toWorker) : toWorker[i].sid \in Nat /\ toWorker[i].sid <= gen
      /\ \A i \in 1 .. Len(pending) : pending[i].sid \in Nat /\ pending[i].sid <= gen
      /\ \A i \in 1 .. Len(fromWorker) : fromWorker[i].sid \in Nat /\ fromWorker[i].sid <= gen
  <2>1. /\ fromWorker \in Seq(Event) /\ toWorker \in Seq(Command) /\ pending \in Seq(Command)
        /\ gen \in Nat /\ Len(cmds) \in Nat /\ MainTypeOK
    BY LenProperties DEF TypeInv, TypeOK, MainTypeOK
  <2>2. /\ \A s \in Session : s \in Nat \ { 0 }
        /\ \A c \in Command : c.sid \in Session
        /\ \A e \in Event : e.sid \in Nat
    BY DEF Session, Command, Event, None
  <2>3. /\ \A i \in 1 .. Len(toWorker) : toWorker[i].sid \in Nat /\ toWorker[i].sid <= gen
        /\ \A i \in 1 .. Len(pending) : pending[i].sid \in Nat /\ pending[i].sid <= gen
        /\ \A i \in 1 .. Len(fromWorker) : fromWorker[i].sid \in Nat /\ fromWorker[i].sid <= gen
    BY <2>1, <2>2, ElementOfSeq DEF RunInv, Issued
  <2> QED
    BY <2>1, <2>2, <2>3
<1>2. ASSUME NEW q \in Seq(Command), RunsOnce(q),
             \A i \in 1 .. Len(q) : q[i].sid \in Nat /\ q[i].sid <= gen
      PROVE  LET n == q \o cmds IN
             /\ \A i \in 1 .. Len(n) : n[i].sid <= gen'
             /\ \A i \in 1 .. Len(n) : IsRun(n[i]) =>
                  /\ ses[n[i].sid].pc = "none"
                  /\ \A j \in 1 .. Len(n) : IsRun(n[j]) /\ n[j].sid = n[i].sid => j = i
             /\ ui' \notin Busy => \A i \in 1 .. Len(n) : IsRun(n[i]) => n[i].sid # gen'
  <2> DEFINE n == q \o cmds
  <2>1. \A i \in 1 .. Len(q) : q[i].sid < top
    BY <1>1, <1>2
  <2>2. \A i \in 1 .. Len(n) : IsRun(n[i]) =>
          /\ ses[n[i].sid].pc = "none"
          /\ \A j \in 1 .. Len(n) : IsRun(n[j]) /\ n[j].sid = n[i].sid => j = i
    BY <1>2, <2>1, AppendRunsOnce
  <2>3. /\ Len(q) \in Nat /\ Len(n) = Len(q) + Len(cmds)
        /\ \A i \in 1 .. Len(n) : n[i] = IF i <= Len(q) THEN q[i] ELSE cmds[i - Len(q)]
    BY <1>2, ConcatProperties, LenProperties
  <2>4. \A i \in 1 .. Len(n) :
          \/ i \in 1 .. Len(q) /\ n[i] = q[i]
          \/ i - Len(q) \in 1 .. Len(cmds) /\ n[i] = cmds[i - Len(q)]
    BY <2>3, <1>1
  <2>5. \A i \in 1 .. Len(n) : n[i].sid <= gen'
    BY <2>4, <1>1, <1>2
  <2>6. ui' \notin Busy => \A i \in 1 .. Len(n) : IsRun(n[i]) => n[i].sid # gen'
    BY <2>4, <1>1, <1>2
  <2> QED
    BY <2>2, <2>5, <2>6
<1>3. /\ \A i \in 1 .. Len(toWorker') : toWorker'[i].sid <= gen'
      /\ \A i \in 1 .. Len(pending') : pending'[i].sid <= gen'
      /\ RunsOnce(toWorker)' /\ RunsOnce(pending)'
      /\ ui' \notin Busy =>
           /\ \A i \in 1 .. Len(toWorker') : IsRun(toWorker'[i]) => toWorker'[i].sid # gen'
           /\ \A i \in 1 .. Len(pending') : IsRun(pending'[i]) => pending'[i].sid # gen'
  <2>1. RunsOnce(toWorker) /\ RunsOnce(pending)
    BY DEF RunInv
  <2>3. ASSUME UNCHANGED toWorker
        PROVE  /\ \A i \in 1 .. Len(toWorker') : toWorker'[i].sid <= gen'
               /\ RunsOnce(toWorker)'
               /\ ui' \notin Busy => \A i \in 1 .. Len(toWorker') :
                    IsRun(toWorker'[i]) => toWorker'[i].sid # gen'
    BY <2>1, <2>3, <1>1 DEF RunsOnce
  <2>4. ASSUME UNCHANGED pending
        PROVE  /\ \A i \in 1 .. Len(pending') : pending'[i].sid <= gen'
               /\ RunsOnce(pending)'
               /\ ui' \notin Busy => \A i \in 1 .. Len(pending') :
                    IsRun(pending'[i]) => pending'[i].sid # gen'
    BY <2>1, <2>4, <1>1 DEF RunsOnce
  <2>5. CASE ready /\ toWorker' = toWorker \o cmds /\ UNCHANGED pending
    <3>1. /\ \A i \in 1 .. Len(toWorker') : toWorker'[i].sid <= gen'
          /\ RunsOnce(toWorker)'
          /\ ui' \notin Busy => \A i \in 1 .. Len(toWorker') :
               IsRun(toWorker'[i]) => toWorker'[i].sid # gen'
      BY <2>1, <2>5, <1>1, <1>2 DEF RunsOnce
    <3> QED
      BY <3>1, <2>4, <2>5
  <2>6. CASE ~ready /\ pending' = pending \o cmds /\ UNCHANGED toWorker
    <3>1. /\ \A i \in 1 .. Len(pending') : pending'[i].sid <= gen'
          /\ RunsOnce(pending)'
          /\ ui' \notin Busy => \A i \in 1 .. Len(pending') :
               IsRun(pending'[i]) => pending'[i].sid # gen'
      BY <2>1, <2>6, <1>1, <1>2 DEF RunsOnce
    <3> QED
      BY <3>1, <2>3, <2>6
  <2>7. CASE UNCHANGED << toWorker, pending >>
    BY <2>3, <2>4, <2>7
  <2> QED
    BY <2>5, <2>6, <2>7, <1>1, PostEffect
<1>4. OneQueue'
  BY <1>1, PostEffect DEF RunInv, OneQueue
<1>5. Issued'
  <2>1. \A s \in Session : ses'[s].pc # "none" => s <= gen'
    BY <1>1 DEF RunInv, Issued
  <2> QED
    BY <1>1, <1>3, <2>1 DEF Issued
<1>6. LastWords'
  BY DEF RunInv, LastWords
<1>7. Quiesced'
  <2> SUFFICES ASSUME ui' \notin Busy PROVE Quiesced'
    BY DEF Quiesced
  <2>1. gen < gen'
    OBVIOUS
  <2>2. \A i \in 1 .. Len(fromWorker) : fromWorker[i].sid # gen'
    BY <1>1, <2>1
  <2>3. gen' # 0 => ses[gen'].pc \in { "none", "ended" }
    <3>1. gen' \in Session /\ ~(gen' <= gen)
      BY <2>1, <1>1 DEF Session
    <3> QED
      BY <3>1 DEF RunInv, Issued
  <2> QED
    BY <1>3, <2>2, <2>3 DEF Quiesced
<1> QED
  BY <1>3, <1>4, <1>5, <1>6, <1>7 DEF RunInv

\* settleRun leaves no promise pending.
LEMMA SettledNonePending ==
  ASSUME TypeInv, RunInv
  PROVE  /\ \A s \in Session : Settled[s] # "pending"
         /\ ui \in Busy => Settled = [ promise EXCEPT ![sid] = "settled" ]
         /\ ui \notin Busy => Settled = promise
<1>1. promise \in [ Session -> { "none", "pending", "settled" } ]
  BY DEF TypeInv, TypeOK, MainTypeOK
<1>2. \A s \in Session : promise[s] = "pending" <=> s = settle
  BY DEF RunInv, RunTracked
<1>3. /\ ui \in Busy => settle = sid /\ settle # None
      /\ ui \notin Busy => settle = None
  BY DEF RunInv, RunTracked, None
<1>4. CASE ui \in Busy
  <2>1. Settled = [ promise EXCEPT ![sid] = "settled" ]
    BY <1>3, <1>4 DEF Settled
  <2> QED
    BY <2>1, <1>1, <1>2, <1>3, <1>4
<1>5. CASE ui \notin Busy
  <2>1. Settled = promise /\ \A s \in Session : s # settle
    BY <1>3, <1>5 DEF Settled, None, Session
  <2> QED
    BY <2>1, <1>2, <1>5
<1> QED
  BY <1>4, <1>5

\* Each click on its own: the generation it takes is the one it posts.
LEMMA StudentKeepsRunInv ==
  ASSUME TypeInv, RunInv, Student
  PROVE  RunInv'
<1>1. /\ gen \in 0 .. MaxGeneration /\ sid \in 0 .. MaxGeneration /\ MaxGeneration \in Nat
      /\ sid <= gen /\ promise \in [ Session -> { "none", "pending", "settled" } ]
      /\ TypeInv' /\ UNCHANGED workerVars /\ bps \in SUBSET Lines
  BY GenerationAssumption, StudentTyped
  DEF TypeInv, TypeOK, MainTypeOK, SidKnown, Student
<1>2. UNCHANGED ses
  BY <1>1 DEF workerVars
<1>3. /\ ui \in Busy => gen = sid /\ sid # 0 /\ settle = sid
      /\ ui \notin Busy => settle = None
      /\ \A s \in Session : promise[s] = "pending" <=> s = settle
  BY DEF RunInv, RunTracked
<1>4. ASSUME NEW g, NEW p \in [ Session -> { "none", "pending", "settled" } ],
             NEW before \in Seq(Command), NEW mode \in StepMode,
             ExecuteRun(g, p, before, mode), gen < g,
             \A s \in Session : p[s] # "pending",
             \A i \in 1 .. Len(before) : ~IsRun(before[i]) /\ before[i].sid <= g
      PROVE  RunInv'
  <2> DEFINE c == RunCmd(g, bps, mode)
  <2> DEFINE cmds == Append(before, c)
  <2>1. g \in Session /\ g \in Nat /\ g # 0
    BY <1>4 DEF ExecuteRun, Session
  <2>2. c \in Command /\ c.sid = g
    BY <2>1, <1>1, CommandsTyped DEF RunCmd, Cmd
  <2>3. /\ cmds \in Seq(Command) /\ Len(cmds) = Len(before) + 1 /\ Len(before) \in Nat
        /\ cmds[Len(cmds)] = c
        /\ \A i \in 1 .. Len(before) : cmds[i] = before[i]
    BY <2>2, <1>4
  <2>4. /\ gen' = g /\ sid' = g /\ ui' = "running" /\ settle' = g
        /\ promise' = [ p EXCEPT ![g] = "pending" ] /\ Post(cmds) /\ UNCHANGED fromWorker
    BY <1>4 DEF ExecuteRun
  <2>5. ses[g].pc = "none"
    BY <2>1, <1>1, <1>4 DEF RunInv, Issued
  <2>6. SidKnown'
    BY <2>1, <2>4 DEF SidKnown
  <2>7. RunTracked'
    BY <2>1, <2>4, <1>4 DEF RunTracked, Busy
  <2>8. \A i \in 1 .. Len(cmds) :
          /\ cmds[i].sid <= g
          /\ IsRun(cmds[i]) => i = Len(cmds) /\ cmds[i].sid = g /\ ses[g].pc = "none"
    <3> TAKE i \in 1 .. Len(cmds)
    <3>1. CASE i = Len(cmds)
      BY <3>1, <2>1, <2>2, <2>3, <2>5
    <3>2. CASE i # Len(cmds)
      <4>1. i \in 1 .. Len(before)
        BY <3>2, <2>3
      <4> QED
        BY <4>1, <2>3, <1>4
    <3> QED
      BY <3>1, <3>2
  <2>9. /\ ui' \in Busy /\ gen' \in 0 .. MaxGeneration /\ gen <= gen'
        /\ UNCHANGED << ses, fromWorker >>
    BY <2>1, <2>4, <1>1, <1>2, <1>4 DEF Busy, Session
  <2>10. \A i \in 1 .. Len(cmds) :
           /\ cmds[i].sid <= gen'
           /\ IsRun(cmds[i]) => i = Len(cmds) /\ cmds[i].sid = g /\ ses[g].pc = "none"
    BY <2>4, <2>8
  <2> HIDE DEF cmds
  <2> QED
    BY <2>1, <2>3, <2>4, <2>6, <2>7, <2>9, <2>10, <1>4, PostKeepsRunInv
<1>5. ASSUME NEW cmds \in Seq(Command), Post(cmds), UNCHANGED << fromWorker, sid >>,
             \A i \in 1 .. Len(cmds) : ~IsRun(cmds[i]) /\ cmds[i].sid = sid,
             gen' \in 0 .. MaxGeneration, gen <= gen',
             SidKnown', RunTracked', ui' \notin Busy => gen < gen'
      PROVE  RunInv'
  <2>1. gen + 1 \in Nat /\ gen < gen + 1 /\ sid <= gen'
    BY <1>1, <1>5
  <2> QED
    BY <2>1, <1>2, <1>5, PostKeepsRunInv
<1>6. ASSUME ui \in Busy
      PROVE  /\ sid \in Session
             /\ \A t \in CommandType \ { "run" } :
                  /\ << Cmd(t, sid) >> \in Seq(Command)
                  /\ \A i \in 1 .. Len(<< Cmd(t, sid) >>) :
                       ~IsRun(<< Cmd(t, sid) >>[i]) /\ << Cmd(t, sid) >>[i].sid = sid
  <2>1. sid \in Session
    BY <1>1, <1>3, <1>6 DEF Session
  <2>2. \A t \in CommandType \ { "run" } :
          /\ Cmd(t, sid) \in Command /\ Cmd(t, sid).sid = sid /\ Cmd(t, sid).type # "run"
    BY <2>1, CommandsTyped DEF StepMode, Cmd
  <2> QED
    BY <2>1, <2>2 DEF IsRun
<1>7. ASSUME NEW mode \in { "continue", "stepInto" }, Run(mode) PROVE RunInv'
  <2>1. ExecuteRun(gen + 1, promise, << >>, mode) /\ ui \notin Busy
    BY <1>7 DEF Run
  <2>2. \A s \in Session : promise[s] # "pending"
    BY <2>1, <1>3 DEF None, Session
  <2>3. /\ << >> \in Seq(Command) /\ mode \in StepMode /\ gen < gen + 1
        /\ \A i \in 1 .. Len(<< >>) : ~IsRun(<< >>[i]) /\ << >>[i].sid <= gen + 1
    BY <1>1 DEF StepMode
  <2> QED
    BY <2>1, <2>2, <2>3, <1>1, <1>4
<1>8. ASSUME Stop PROVE RunInv'
  <2>1. /\ ui \in Busy /\ ui' = "cancelled" /\ gen' = gen + 1 /\ gen < MaxGeneration
        /\ settle' = None /\ promise' = Settled /\ UNCHANGED << sid, fromWorker >>
        /\ Post(<< Cmd("stop", sid) >>)
    BY <1>8 DEF Stop
  <2>2. SidKnown'
    BY <2>1, <1>1, <1>3 DEF SidKnown
  <2>3. RunTracked'
    BY <2>1, SettledNonePending DEF RunTracked, Busy, None, Session
  <2>4. gen' \in 0 .. MaxGeneration /\ gen <= gen' /\ gen < gen'
    BY <2>1, <1>1
  <2> QED
    BY <2>1, <2>2, <2>3, <2>4, <1>5, <1>6 DEF CommandType
<1>9. ASSUME Restart PROVE RunInv'
  <2>1. CASE ui \in Busy
    <3>1. ExecuteRun(gen + 2, Settled, << Cmd("stop", sid) >>, "continue")
      BY <1>9, <2>1 DEF Restart
    <3>2. Settled \in [ Session -> { "none", "pending", "settled" } ]
      BY SettledTyped DEF TypeInv, TypeOK
    <3>3. /\ "continue" \in StepMode /\ gen < gen + 2 /\ sid <= gen + 2
      BY <1>1 DEF StepMode
    <3>4. /\ << Cmd("stop", sid) >> \in Seq(Command)
          /\ \A i \in 1 .. Len(<< Cmd("stop", sid) >>) :
               ~IsRun(<< Cmd("stop", sid) >>[i]) /\ << Cmd("stop", sid) >>[i].sid <= gen + 2
      BY <3>3, <2>1, <1>6 DEF CommandType
    <3>5. \A s \in Session : Settled[s] # "pending"
      BY SettledNonePending
    <3> QED
      BY <3>1, <3>2, <3>3, <3>4, <3>5, <1>4
  <2>2. CASE ui \notin Busy
    <3>1. ExecuteRun(gen + 1, promise, << >>, "continue")
      BY <1>9, <2>2 DEF Restart
    <3>2. \A s \in Session : promise[s] # "pending"
      BY <2>2, <1>3 DEF None, Session
    <3>3. /\ << >> \in Seq(Command) /\ "continue" \in StepMode /\ gen < gen + 1
          /\ \A i \in 1 .. Len(<< >>) : ~IsRun(<< >>[i]) /\ << >>[i].sid <= gen + 1
      BY <1>1 DEF StepMode
    <3> QED
      BY <3>1, <3>2, <3>3, <1>1, <1>4
  <2> QED
    BY <2>1, <2>2
<1>10. ASSUME UNCHANGED << gen, sid, settle, promise >>, ui \in Busy, ui' \in Busy
       PROVE  /\ SidKnown' /\ RunTracked' /\ gen' \in 0 .. MaxGeneration /\ gen <= gen'
              /\ (ui' \notin Busy => gen < gen')
  BY <1>1, <1>3, <1>10 DEF SidKnown, RunTracked
<1>11. ASSUME Pause PROVE RunInv'
  <2>1. /\ ui \in Busy /\ ui' \in Busy /\ UNCHANGED << gen, sid, settle, promise, fromWorker >>
        /\ Post(<< Cmd("pause", sid) >>)
    BY <1>11 DEF Pause, Busy, runVars
  <2> QED
    BY <2>1, <1>5, <1>6, <1>10 DEF CommandType
<1>12. ASSUME SubmitInput PROVE RunInv'
  <2>1. /\ ui \in Busy /\ ui' \in Busy /\ UNCHANGED << gen, sid, settle, promise, fromWorker >>
        /\ Post(<< Cmd("input", sid) >>)
    BY <1>12 DEF SubmitInput, Busy, runVars
  <2> QED
    BY <2>1, <1>5, <1>6, <1>10 DEF CommandType
<1>13. ASSUME NEW mode \in StepMode, Resume(mode) PROVE RunInv'
  <2> DEFINE c == ResumeCmd(sid, mode)
  <2>1. /\ ui \in Busy /\ ui' \in Busy /\ UNCHANGED << gen, sid, settle, promise, fromWorker >>
        /\ Post(<< c >>)
    BY <1>13 DEF Resume, Busy, runVars
  <2>2. c \in Command /\ c.sid = sid /\ c.type # "run"
    <3>1. sid \in Session
      BY <2>1, <1>6
    <3> QED
      BY <3>1, CommandsTyped DEF ResumeCmd, Cmd
  <2>3. << c >> \in Seq(Command) /\ \A i \in 1 .. Len(<< c >>) : << c >>[i] = c
    BY <2>2
  <2> QED
    BY <2>1, <2>2, <2>3, <1>5, <1>10 DEF IsRun
<1>14. ASSUME NEW line \in Lines, EditBreakpoint(line) PROVE RunInv'
  <2>1. /\ UNCHANGED << ui, gen, sid, settle, promise, fromWorker >> /\ bps' \in SUBSET Lines
    BY <1>1, <1>14 DEF EditBreakpoint, runVars
  <2>2. CASE ui \in Busy /\ sid # 0
    <3> DEFINE c == BreakpointsCmd(sid, bps')
    <3>1. Post(<< c >>)
      BY <1>14, <2>2 DEF EditBreakpoint
    <3>2. c \in Command /\ c.sid = sid /\ c.type # "run"
      <4>1. sid \in Session
        BY <2>2, <1>6
      <4> QED
        BY <4>1, <2>1, CommandsTyped DEF BreakpointsCmd, Cmd, StepMode
    <3>3. << c >> \in Seq(Command) /\ \A i \in 1 .. Len(<< c >>) : << c >>[i] = c
      BY <3>2
    <3> QED
      BY <3>1, <3>2, <3>3, <2>1, <2>2, <1>5, <1>10 DEF IsRun
  <2>3. CASE ~(ui \in Busy /\ sid # 0)
    <3>1. UNCHANGED << port, ready, pending, toWorker >>
      BY <1>14, <2>3 DEF EditBreakpoint, portVars
    <3> QED
      BY <3>1, <2>1, <1>2
      DEF RunInv, SidKnown, RunTracked, Issued, OneQueue, RunsOnce, LastWords, Quiesced
  <2> QED
    BY <2>2, <2>3
<1> QED
  BY <1>7, <1>8, <1>9, <1>11, <1>12, <1>13, <1>14 DEF Student

\* Only the run the UI is busy with is heard.
LEMMA CurrentIsBusy ==
  ASSUME TypeInv, RunInv, fromWorker # << >>, IsCurrent(Head(fromWorker))
  PROVE  ui \in Busy /\ gen = sid /\ sid \in Session /\ settle = sid
<1>1. /\ Len(fromWorker) \in Nat \ { 0 } /\ Head(fromWorker) = fromWorker[1]
  BY EmptySeq, HeadTailProperties DEF TypeInv, TypeOK, MainTypeOK
<1>2. ui \in Busy
  BY <1>1 DEF IsCurrent, RunInv, Quiesced
<1> QED
  BY <1>2 DEF RunInv, RunTracked, TypeInv, TypeOK, MainTypeOK, Session

\* How the delivery of an event moves the run: a word of the current run keeps
\* it going, its last word ends it and settles its promise.
LEMMA DeliveryEffect ==
  ASSUME TypeInv, RunInv, DeliverEvent
  PROVE  /\ UNCHANGED << gen, sid >>
         /\ \/ UNCHANGED << ui, settle, promise >>
            \/ /\ ui \in Busy /\ ui' \in Busy /\ UNCHANGED << settle, promise >>
            \/ /\ ui \in Busy /\ ui' \in Terminal /\ settle' = None
               /\ promise' = [ promise EXCEPT ![sid] = "settled" ]
               /\ IsFinal(Head(fromWorker)) /\ Head(fromWorker).sid = gen
<1> DEFINE e == Head(fromWorker)
<1>1. OnWorkerEvent(e) /\ fromWorker # << >>
  BY DEF DeliverEvent
<1>2. CASE ~IsCurrent(e)
  BY <1>1, <1>2 DEF OnWorkerEvent, runVars
<1>3. CASE IsCurrent(e)
  <2>1. ui \in Busy /\ e.sid # None /\ e.sid = gen
    BY <1>1, <1>3, CurrentIsBusy DEF IsCurrent
  <2>2. Settled = [ promise EXCEPT ![sid] = "settled" ]
    BY <2>1, SettledNonePending
  <2>3. CASE OnSuspend(e)
    BY <2>1, <2>3 DEF OnSuspend, runVars, Busy
  <2>4. CASE OnOutput(e)
    BY <2>4 DEF OnOutput, runVars
  <2>5. CASE OnResumed(e)
    BY <2>1, <2>5 DEF OnResumed, runVars, Busy
  <2>6. CASE OnTerminal(e)
    BY <2>1, <2>2, <2>6 DEF OnTerminal, Finish, IsFinal
  <2>7. CASE OnRunRejected(e)
    BY <2>1, <2>2, <2>7 DEF OnRunRejected, Finish, IsFinal, Terminal
  <2> QED
    BY <1>1, <1>3, <2>3, <2>4, <2>5, <2>6, <2>7 DEF OnWorkerEvent
<1> QED
  BY <1>2, <1>3

\* A delivered event moves the run it belongs to, or nothing.
LEMMA DeliverKeepsRunInv ==
  ASSUME TypeInv, RunInv, DeliverEvent, UNCHANGED ses
  PROVE  RunInv'
<1> DEFINE e == Head(fromWorker)
<1>1. /\ fromWorker \in Seq(Event) /\ toWorker \in Seq(Command) /\ pending \in Seq(Command)
      /\ gen \in 0 .. MaxGeneration /\ promise \in [ Session -> { "none", "pending", "settled" } ]
      /\ fromWorker # << >> /\ fromWorker' = Tail(fromWorker)
  BY DEF TypeInv, TypeOK, MainTypeOK, DeliverEvent
<1>2. /\ 1 \in 1 .. Len(fromWorker) /\ e = fromWorker[1]
      /\ Len(fromWorker') = Len(fromWorker) - 1 /\ Len(fromWorker) \in Nat
      /\ \A i \in 1 .. Len(fromWorker') :
           /\ fromWorker'[i] = fromWorker[i + 1]
           /\ i + 1 \in 1 .. Len(fromWorker) /\ i + 1 # 1
  <2>1. /\ Len(fromWorker) \in Nat \ { 0 } /\ e = fromWorker[1]
        /\ Len(fromWorker') = Len(fromWorker) - 1
        /\ \A i \in 1 .. Len(fromWorker') : fromWorker'[i] = fromWorker[i + 1]
    BY <1>1, HeadTailProperties, EmptySeq
  <2> QED
    BY <2>1
<1>3. \/ UNCHANGED << ready, pending, toWorker >>
      \/ ready' = TRUE /\ toWorker' = toWorker /\ pending' = << >>
      \/ ready' = TRUE /\ toWorker' = pending /\ pending' = << >>
  <2>1. CASE e.type = "ready"
    <3>1. ready' = TRUE /\ toWorker' = toWorker \o pending /\ pending' = << >>
      BY <2>1 DEF DeliverEvent, FlushPending
    <3>2. toWorker = << >> \/ pending = << >>
      BY DEF RunInv, OneQueue
    <3> QED
      BY <3>1, <3>2, <1>1, ConcatEmptySeq
  <2>2. CASE e.type # "ready"
    BY <2>2 DEF DeliverEvent, portVars
  <2> QED
    BY <2>1, <2>2
<1>4. Len(<< >>) = 0
  OBVIOUS
<1>5. SidKnown' /\ RunTracked'
  <2>1. /\ ui \in Busy => gen = sid /\ sid # 0 /\ settle = sid
        /\ ui \notin Busy => settle = None
        /\ \A s \in Session : promise[s] = "pending" <=> s = settle
    BY DEF RunInv, RunTracked
  <2>2. CASE ui' \in Terminal /\ ui \in Busy /\ settle' = None
             /\ promise' = [ promise EXCEPT ![sid] = "settled" ]
    BY <1>1, <2>1, <2>2, DeliveryEffect
    DEF RunInv, SidKnown, RunTracked, Busy, Terminal, None, Session
  <2>3. CASE UNCHANGED << ui, settle, promise >>
             \/ (ui \in Busy /\ ui' \in Busy /\ UNCHANGED << settle, promise >>)
    BY <2>1, <2>3, DeliveryEffect DEF RunInv, SidKnown, RunTracked
  <2> QED
    BY <2>2, <2>3, DeliveryEffect
<1>6. /\ UNCHANGED << gen, ses >>
      /\ RunsOnce(toWorker) /\ RunsOnce(pending) /\ OneQueue /\ Issued
  BY DeliveryEffect DEF RunInv
<1>7. Issued'
  <2>1. \A i \in 1 .. Len(fromWorker') : fromWorker'[i].sid <= gen
    BY <1>2, <1>6 DEF Issued
  <2> QED
    BY <2>1, <1>3, <1>4, <1>6 DEF Issued
<1>8. OneQueue' /\ RunsOnce(toWorker)' /\ RunsOnce(pending)'
  BY <1>3, <1>4, <1>6 DEF OneQueue, RunsOnce
<1>9. LastWords'
  <2> SUFFICES ASSUME NEW i \in 1 .. Len(fromWorker'), IsFinal(fromWorker'[i])
               PROVE  /\ ses'[fromWorker'[i].sid].pc = "ended"
                      /\ \A j \in 1 .. Len(fromWorker') :
                           fromWorker'[j].sid = fromWorker'[i].sid => j <= i
    BY DEF LastWords, IsFinal
  <2>1. /\ ses[fromWorker[i + 1].sid].pc = "ended"
        /\ \A j \in 1 .. Len(fromWorker) :
             fromWorker[j].sid = fromWorker[i + 1].sid => j <= i + 1
    BY <1>2 DEF RunInv, LastWords
  <2>2. ses'[fromWorker'[i].sid].pc = "ended"
    BY <2>1, <1>2, <1>6
  <2>3. ASSUME NEW j \in 1 .. Len(fromWorker'), fromWorker'[j].sid = fromWorker'[i].sid
        PROVE  j <= i
    <3>1. j + 1 <= i + 1
      BY <2>1, <2>3, <1>2
    <3> QED
      BY <3>1
  <2> QED
    BY <2>2, <2>3
<1>10. Quiesced'
  <2> SUFFICES ASSUME ui' \notin Busy PROVE Quiesced'
    BY DEF Quiesced
  <2>1. CASE ui \notin Busy
    <3>1. /\ gen # 0 => ses[gen].pc \in { "none", "ended" }
          /\ \A i \in 1 .. Len(fromWorker) :
               fromWorker[i].sid # None => fromWorker[i].sid # gen
          /\ \A i \in 1 .. Len(toWorker) : IsRun(toWorker[i]) => toWorker[i].sid # gen
          /\ \A i \in 1 .. Len(pending) : IsRun(pending[i]) => pending[i].sid # gen
      BY <2>1 DEF RunInv, Quiesced
    <3>2. \A i \in 1 .. Len(fromWorker') :
            fromWorker'[i].sid # None => fromWorker'[i].sid # gen
      BY <3>1, <1>2
    <3> QED
      BY <3>1, <3>2, <1>3, <1>4, <1>6 DEF Quiesced
  <2>2. CASE ui \in Busy
    <3>1. IsFinal(e) /\ e.sid = gen
      BY <2>2, DeliveryEffect DEF Terminal, Busy
    <3>2. /\ ses[gen].pc = "ended"
          /\ \A j \in 1 .. Len(fromWorker) : fromWorker[j].sid = gen => j <= 1
      BY <3>1, <1>2 DEF RunInv, LastWords
    <3>3. /\ \A i \in 1 .. Len(toWorker) : IsRun(toWorker[i]) => toWorker[i].sid # gen
          /\ \A i \in 1 .. Len(pending) : IsRun(pending[i]) => pending[i].sid # gen
      BY <3>2, <1>6 DEF RunsOnce
    <3>4. \A i \in 1 .. Len(fromWorker') : fromWorker'[i].sid # gen
      BY <3>2, <1>2
    <3> QED
      BY <3>2, <3>3, <3>4, <1>3, <1>4, <1>6 DEF Quiesced
  <2> QED
    BY <2>1, <2>2
<1> QED
  BY <1>5, <1>7, <1>8, <1>9, <1>10 DEF RunInv

\* Terminating the worker silences every session, with or without a new one.
LEMMA TerminatedKeepsRunInv ==
  ASSUME TypeInv, RunInv, Respawn \/ Dispose, Terminated,
         Respawn => UNCHANGED << ui, runVars >>
  PROVE  RunInv'
<1>1. /\ ses \in [ Session -> SessionState ] /\ MaxGeneration \in Nat
      /\ gen \in 0 .. MaxGeneration /\ sid \in 0 .. MaxGeneration
      /\ promise \in [ Session -> { "none", "pending", "settled" } ]
  BY GenerationAssumption DEF TypeInv, TypeOK, MainTypeOK, WorkerTypeOK
<1>2. \A s \in Session : /\ ses'[s].pc \in { "none", "ended" }
                         /\ ses'[s].pc = "none" <=> ses[s].pc = "none"
  BY DEF Terminated, Over, Fresh
<1>3. /\ ready' = FALSE /\ toWorker' = << >>
      /\ Len(toWorker') = 0 /\ Len(pending') = 0
      /\ \A i \in 1 .. Len(fromWorker') : fromWorker'[i].sid = None
  BY DEF Respawn, Dispose, Evt
<1>4. /\ gen' \in 0 .. MaxGeneration /\ gen <= gen' /\ SidKnown' /\ RunTracked'
  <2>1. /\ ui \in Busy => gen = sid /\ sid # 0 /\ settle = sid
        /\ ui \notin Busy => settle = None
        /\ \A s \in Session : promise[s] = "pending" <=> s = settle
        /\ sid <= gen /\ (gen # 0 => sid # 0)
    BY DEF RunInv, RunTracked, SidKnown
  <2>2. CASE UNCHANGED << ui, gen, sid, settle, promise >>
    BY <1>1, <2>1, <2>2 DEF SidKnown, RunTracked
  <2>3. CASE Dispose /\ ui \in Busy
    <3>1. /\ gen' = gen + 1 /\ gen < MaxGeneration /\ sid' = sid
          /\ ui' = "cancelled" /\ settle' = None /\ promise' = Settled
      BY <2>3 DEF Dispose, Finish
    <3>2. RunTracked'
      BY <3>1, SettledNonePending DEF RunTracked, Busy, None, Session
    <3>3. SidKnown'
      BY <3>1, <1>1, <2>1, <2>3 DEF SidKnown
    <3> QED
      BY <3>1, <3>2, <3>3, <1>1
  <2> QED
    BY <2>2, <2>3 DEF Dispose, runVars
<1>5. Issued'
  <2>1. \A s \in Session : ses'[s].pc # "none" => s <= gen
    BY <1>2 DEF RunInv, Issued
  <2>2. \A s \in Session : s \in Nat
    BY DEF Session
  <2> QED
    BY <2>1, <2>2, <1>1, <1>3, <1>4 DEF Issued, None
<1>6. OneQueue' /\ RunsOnce(toWorker)' /\ RunsOnce(pending)'
  BY <1>3 DEF OneQueue, RunsOnce
<1>7. LastWords'
  BY <1>3 DEF LastWords, IsFinal
<1>8. Quiesced'
  <2>1. gen' # 0 => gen' \in Session
    BY <1>1, <1>4 DEF Session
  <2> QED
    BY <2>1, <1>2, <1>3 DEF Quiesced
<1> QED
  BY <1>4, <1>5, <1>6, <1>7, <1>8 DEF RunInv

\* RunInv is inductive, relative to the types.
LEMMA NextKeepsRunInv == TypeInv /\ RunInv /\ [Next]_vars => RunInv'
<1> SUFFICES ASSUME TypeInv, RunInv, [Next]_vars PROVE RunInv'
  OBVIOUS
<1>1. CASE Student
  BY <1>1, StudentKeepsRunInv
<1>2. CASE DeliverEvent /\ UNCHANGED workerVars
  BY <1>2, DeliverKeepsRunInv DEF workerVars
<1>3. CASE DeliverCrash /\ Terminated
  BY <1>3, TerminatedKeepsRunInv DEF DeliverCrash
<1>4. CASE RecreateWorker /\ Terminated
  BY <1>4, TerminatedKeepsRunInv DEF RecreateWorker
<1>5. CASE Dispose /\ Terminated
  <2>1. ~Respawn
    BY <1>5 DEF Dispose, Respawn
  <2> QED
    BY <1>5, <2>1, TerminatedKeepsRunInv
<1>6. CASE Worker
  BY <1>6, WorkerKeepsRunInv
<1>7. CASE UNCHANGED vars
  BY <1>7 DEF vars, mainVars, workerVars, runVars, portVars, RunInv, SidKnown, RunTracked,
              Issued, OneQueue, RunsOnce, LastWords, Quiesced
<1> QED
  BY <1>1, <1>2, <1>3, <1>4, <1>5, <1>6, <1>7 DEF Next, Deliver, Host

-----------------------------------------------------------------------------
(* What follows from RunInv *)

\* The types and RunInv hold together in every reachable state.
LEMMA Inductive == Spec => [](TypeInv /\ RunInv)
<1>1. Init => TypeInv /\ RunInv
  BY InitTyped, InitRunInv
<1>2. (TypeInv /\ RunInv) /\ [Next]_vars => (TypeInv /\ RunInv)'
  BY NextTyped, NextKeepsRunInv
<1> QED
  BY <1>1, <1>2, PTL DEF Spec

\* The invariant the next theorems rest on holds in every reachable state
\* (RuntimeController's generation check over the worker's event order).
THEOREM RunInvariant == Spec => []RunInv
BY Inductive, PTL

\* However Run, Stop, Restart, worker events and worker deaths interleave, a
\* promise returned by run() is pending exactly while the UI is busy with its
\* run: no caller waits for a run that nobody can stop any more.
THEOREM PromiseSafety == Spec => []PromiseTracksState
<1>1. TypeInv /\ RunInv => PromiseTracksState
  BY DEF RunInv, RunTracked, PromiseTracksState, None, Session
<1> QED
  BY <1>1, Inductive, PTL

\* How each kind of step moves what the student sees of a run.
LEMMA StepEffect ==
  ASSUME TypeInv, RunInv, [Next]_vars
  PROVE  \/ UNCHANGED << ui, sid, promise >>
         \/ /\ ui \in Busy /\ ui' \in Busy /\ UNCHANGED << sid, promise >>
         \/ /\ ui \in Busy /\ ui' \in Terminal /\ sid' = sid
            /\ promise' = [ promise EXCEPT ![sid] = "settled" ]
         \/ /\ ui' = "running" /\ sid' \in Session /\ sid < sid' /\ gen < gen'
            /\ ui \notin Busy => promise' = [ promise EXCEPT ![sid'] = "pending" ]
            /\ ui \in Busy =>
                 promise' = [ promise EXCEPT ![sid] = "settled", ![sid'] = "pending" ]
<1>1. /\ gen \in Nat /\ sid \in Nat /\ sid <= gen
      /\ ui \in Busy => Settled = [ promise EXCEPT ![sid] = "settled" ]
  BY SettledNonePending DEF TypeInv, TypeOK, MainTypeOK, RunInv, SidKnown
<1>2. ASSUME NEW g, NEW p, NEW before, NEW mode, ExecuteRun(g, p, before, mode), gen < g
      PROVE  /\ ui' = "running" /\ sid' = g /\ sid' \in Session /\ sid < sid' /\ gen < gen'
             /\ promise' = [ p EXCEPT ![g] = "pending" ]
  BY <1>1, <1>2 DEF ExecuteRun, Session
<1>3. ASSUME NEW mode, Run(mode)
      PROVE  /\ ui' = "running" /\ sid' \in Session /\ sid < sid' /\ gen < gen' /\ ui \notin Busy
             /\ promise' = [ promise EXCEPT ![sid'] = "pending" ]
  BY <1>1, <1>2, <1>3 DEF Run
<1>4. ASSUME Restart
      PROVE  /\ ui' = "running" /\ sid' \in Session /\ sid < sid' /\ gen < gen'
             /\ ui \notin Busy => promise' = [ promise EXCEPT ![sid'] = "pending" ]
             /\ ui \in Busy =>
                  promise' = [ promise EXCEPT ![sid] = "settled", ![sid'] = "pending" ]
  <2>1. CASE ui \in Busy
    <3>1. ExecuteRun(gen + 2, Settled, << Cmd("stop", sid) >>, "continue")
      BY <1>4, <2>1 DEF Restart
    <3>2. /\ ui' = "running" /\ sid' \in Session /\ sid < sid' /\ gen < gen'
          /\ promise' = [ Settled EXCEPT ![sid'] = "pending" ]
      BY <3>1, <1>1, <1>2
    <3> QED
      BY <3>2, <2>1, <1>1
  <2>2. CASE ui \notin Busy
    BY <1>1, <1>2, <1>4, <2>2 DEF Restart
  <2> QED
    BY <2>1, <2>2
<1>5. CASE Student
  <2>1. CASE Stop
    BY <2>1, <1>1 DEF Stop, Terminal
  <2>2. CASE Pause
    BY <2>2 DEF Pause, runVars
  <2>3. CASE \E mode \in StepMode : Resume(mode)
    BY <2>3 DEF Resume, runVars, Busy
  <2>4. CASE SubmitInput
    BY <2>4 DEF SubmitInput, runVars, Busy
  <2>5. CASE \E line \in Lines : EditBreakpoint(line)
    BY <2>5 DEF EditBreakpoint, runVars
  <2> QED
    BY <1>3, <1>4, <1>5, <2>1, <2>2, <2>3, <2>4, <2>5 DEF Student
<1>6. CASE DeliverEvent
  BY <1>6, DeliveryEffect
<1>7. CASE DeliverCrash \/ RecreateWorker
  BY <1>7 DEF DeliverCrash, RecreateWorker, runVars
<1>8. CASE Dispose
  <2>1. CASE ui \in Busy
    BY <1>1, <1>8, <2>1 DEF Dispose, Finish, Terminal
  <2>2. CASE ui \notin Busy
    BY <1>8, <2>2 DEF Dispose
  <2> QED
    BY <2>1, <2>2
<1>9. CASE Worker
  BY <1>9 DEF Worker, mainOnly, runVars
<1>10. CASE UNCHANGED vars
  BY <1>10 DEF vars, mainVars, runVars
<1> QED
  BY <1>5, <1>6, <1>7, <1>8, <1>9, <1>10 DEF Next, Deliver, Host

\* No late event of any session revives or relabels a run that has ended: the
\* outcome on the screen changes only because the student runs again.
THEOREM EndedForGood == Spec => EndedStaysEnded
<1>1. TypeInv /\ RunInv /\ [Next]_vars =>
        [ (ui \in Terminal /\ ui' # ui) => (gen' > gen /\ ui' = "running") ]_vars
  <2> SUFFICES ASSUME TypeInv, RunInv, [Next]_vars, ui \in Terminal, ui' # ui
               PROVE  gen' > gen /\ ui' = "running"
    OBVIOUS
  <2>1. ui \notin Busy /\ gen \in Nat /\ gen' \in Nat
    BY NextTyped DEF Terminal, Busy, TypeInv, TypeOK, MainTypeOK
  <2> QED
    BY <2>1, StepEffect
<1> QED
  BY <1>1, Inductive, PTL DEF Spec, EndedStaysEnded

\* The controller over its worker implements the lifecycle of a run: every
\* step is a step of RunLifecycle or leaves what the student sees of it alone.
THEOREM Refinement == Spec => ImplementsLifecycle
<1>1. Init => Lifecycle!Init
  BY DEF Init, MainInit, Lifecycle!Init
<1>2. TypeInv /\ RunInv /\ [Next]_vars => [ Lifecycle!Next ]_(Lifecycle!vars)
  <2> SUFFICES ASSUME TypeInv, RunInv, [Next]_vars
               PROVE  Lifecycle!Next \/ UNCHANGED Lifecycle!vars
    OBVIOUS
  <2>1. CASE UNCHANGED << ui, sid, promise >>
    BY <2>1 DEF Lifecycle!vars
  <2>2. CASE ui \in Busy /\ ui' \in Busy /\ UNCHANGED << sid, promise >>
    BY <2>2 DEF Lifecycle!Next, Lifecycle!SuspendOrResume, Lifecycle!Busy, Busy
  <2>3. CASE /\ ui \in Busy /\ ui' \in Terminal /\ sid' = sid
             /\ promise' = [ promise EXCEPT ![sid] = "settled" ]
    BY <2>3 DEF Lifecycle!Next, Lifecycle!End, Lifecycle!Busy, Busy, Lifecycle!Outcome, Terminal
  <2>4. CASE /\ ui' = "running" /\ sid' \in Session /\ sid < sid' /\ gen < gen'
             /\ ui \notin Busy => promise' = [ promise EXCEPT ![sid'] = "pending" ]
             /\ ui \in Busy =>
                  promise' = [ promise EXCEPT ![sid] = "settled", ![sid'] = "pending" ]
    <3>1. sid' > sid
      BY <2>4, NextTyped DEF TypeInv, TypeOK, MainTypeOK
    <3>2. Lifecycle!Start(sid') \/ Lifecycle!Replace(sid')
      BY <2>4, <3>1 DEF Lifecycle!Start, Lifecycle!Replace, Lifecycle!Busy, Busy
    <3> QED
      BY <2>4, <3>2 DEF Lifecycle!Next
  <2> QED
    BY <2>1, <2>2, <2>3, <2>4, StepEffect
<1> QED
  BY <1>1, <1>2, Inductive, PTL DEF Spec, ImplementsLifecycle, Lifecycle!Spec
=============================================================================
