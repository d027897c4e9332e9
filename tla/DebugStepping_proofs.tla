------------------------ MODULE DebugStepping_proofs ------------------------
(***************************************************************************)
(* Proofs about DebugStepping, for every program, call depth and set of    *)
(* lines.                                                                  *)
(***************************************************************************)
EXTENDS DebugStepping, SequenceTheorems, TLAPS

-----------------------------------------------------------------------------
(* The stack and its mirror *)

\* Leaving the topmost frame takes it, and it alone, off the mirror.
LEMMA WithoutTop ==
  ASSUME NEW s \in Seq(Frame), s # << >>
  PROVE  Without(s[Len(s)], s) = Front(s)
<1> DEFINE at == { i \in 1 .. Len(s) : s[i].id = s[Len(s)].id }
<1>1. Len(s) \in Nat \ { 0 }
  BY EmptySeq
<1>2. Len(s) \in at /\ \A i \in at : i \in Nat /\ Len(s) >= i
  BY <1>1
<1>3. Max(at) = Len(s)
  <2>1. \E m \in at : \A i \in at : m >= i
    BY <1>2
  <2>2. Max(at) \in at /\ \A i \in at : Max(at) >= i
    BY <2>1 DEF Max
  <2> QED
    BY <1>1, <1>2, <2>2
<1>4. RemoveAt(s, Len(s)) = Front(s)
  <2>1. SubSeq(s, Len(s) + 1, Len(s)) = << >>
    BY <1>1
  <2>2. Front(s) \in Seq(Frame)
    BY <1>1 DEF Front
  <2> QED
    BY <2>1, <2>2, <1>1 DEF RemoveAt, Front
<1> HIDE DEF at
<1>5. at # {}
  BY <1>2
<1> QED
  BY <1>3, <1>4, <1>5 DEF Without, at

\* A stack less its top.
LEMMA FrontOf ==
  ASSUME NEW s \in Seq(Frame), Len(s) > 0
  PROVE  /\ Front(s) \in Seq(Frame)
         /\ Len(Front(s)) = Len(s) - 1
         /\ \A i \in 1 .. Len(s) - 1 : Front(s)[i] = s[i]
<1>1. Front(s) = [ i \in 1 .. Len(s) - 1 |-> s[i] ]
  BY DEF Front
<1> QED
  BY <1>1

\* pop never takes the global frame, nor grows the stack.
LEMMA PopKeepsGlobal ==
  ASSUME NEW s \in Seq(Frame), Len(s) \in 1 .. MaxDepth, s[1] = GlobalFrame
  PROVE  /\ Pop(s) \in Seq(Frame)
         /\ Len(Pop(s)) \in 1 .. MaxDepth
         /\ Pop(s)[1] = GlobalFrame
         /\ Len(s) > 1 => Pop(s) = Front(s)
BY FrontOf, SteppingAssumption DEF Pop

-----------------------------------------------------------------------------
(* TypeOK and StepInv are inductive *)

Inv == TypeOK /\ StepInv

\* What a command does to the phase and to the location.
LEMMA ReleaseEffect ==
  ASSUME Inv, ReleaseGate, UNCHANGED stack
  PROVE  /\ phase' \in Phase
         /\ phase' \in { "unwind", "done" } => phase' = phase
         /\ pausedDepth' = 0
         /\ phase' # "parked"
BY DEF Inv, TypeOK, StepInv, ReleaseGate, goOn, Phase

\* The interpreter starts with the global frame on both stacks.
LEMMA InitInv == Init => Inv
<1> SUFFICES ASSUME Init PROVE Inv
  OBVIOUS
<1>1. << GlobalFrame >> \in Seq(Frame) /\ Len(<< GlobalFrame >>) = 1
  BY DEF Frame, GlobalFrame
<1>2. mode \in StepMode /\ 1 \in 1 .. MaxDepth /\ 0 \in 0 .. MaxDepth
  BY SteppingAssumption DEF Init, StepMode
<1>3. asked \in [ mode : StepMode, depth : 1 .. MaxDepth ]
  BY <1>2 DEF Init
<1>4. TypeOK
  <2>1. stack \in Seq(Frame) /\ mirror \in Seq(Frame) /\ bps \subseteq Lines
    BY <1>1 DEF Init
  <2>2. nextId \in 1 .. MaxCalls + 2 /\ phase \in Phase /\ line \in Lines
    BY SteppingAssumption DEF Init, Phase
  <2>3. pauseDepth \in 1 .. MaxDepth /\ pausedDepth \in 0 .. MaxDepth
    BY <1>2 DEF Init
  <2>4. aborted \in BOOLEAN /\ pauseReq \in BOOLEAN /\ cancelled \in BOOLEAN
    BY DEF Init
  <2> QED
    BY <1>2, <1>3, <2>1, <2>2, <2>3, <2>4 DEF TypeOK
<1>5. StepInv
  BY <1>1, <1>2 DEF Init, StepInv, MirrorIsStack, StackBounded, Depth
<1> QED
  BY <1>4, <1>5 DEF Inv

\* The steps of the interpreter that leave the stack alone.
LEMMA FlatStepKeepsInv ==
  ASSUME Inv, tick \/ tickParks \/ yieldEnds \/ NextStatement \/ Fail \/ Finish
  PROVE  Inv'
<1>1. CASE tickParks
  <2>1. Depth \in 1 .. MaxDepth /\ Depth \in 0 .. MaxDepth
    BY SteppingAssumption DEF Inv, StepInv, StackBounded
  <2>2. asked' \in [ mode : StepMode, depth : 1 .. MaxDepth ]
    BY <1>1, <2>1 DEF tickParks, park, StepMode
  <2>3. TypeOK'
    BY <1>1, <2>1, <2>2
       DEF tickParks, park, Inv, TypeOK, Phase, StepMode, stackVars
  <2>4. StepInv'
    BY <1>1 DEF tickParks, park, Inv, StepInv, MirrorIsStack, StackBounded,
         Depth, stackVars
  <2> QED
    BY <2>3, <2>4 DEF Inv
<1>2. CASE tick \/ yieldEnds \/ NextStatement \/ Fail \/ Finish
  BY <1>2 DEF tick, yieldEnds, NextStatement, Fail, Finish, goOn, Inv, TypeOK,
       StepInv, MirrorIsStack, StackBounded, Depth, Phase, stackVars, sessionVars
<1> QED
  BY <1>1, <1>2

\* A call pushes one frame on both stacks, or none on either.
LEMMA CallKeepsInv ==
  ASSUME Inv, NEW kind \in { "procedure", "function" }, Call(kind)
  PROVE  Inv'
<1> DEFINE frame == [ id |-> nextId, kind |-> kind ]
<1>1. frame \in Frame
  BY DEF Inv, TypeOK, Frame
<1>2. mirror = stack
  BY DEF Inv, StepInv, MirrorIsStack, Call
<1>3. UNCHANGED << line, aborted, mode, pauseDepth, pauseReq, cancelled,
                   pausedDepth, bps, asked >>
  BY DEF Call, sessionButMirror
<1>4. CASE Depth >= MaxDepth
  BY <1>3, <1>4
     DEF Call, Enter, Inv, TypeOK, StepInv, MirrorIsStack, StackBounded, Depth,
         Phase, stackVars
<1>5. CASE Depth < MaxDepth
  <2>1. /\ stack' = Append(stack, frame)
        /\ mirror' = stack'
        /\ nextId' = nextId + 1
        /\ phase' = phase /\ phase = "exec"
    BY <1>2, <1>5, SteppingAssumption
       DEF Call, Enter, Push, Depth, Inv, TypeOK
  <2>2. /\ stack' \in Seq(Frame)
        /\ Len(stack') = Len(stack) + 1
        /\ stack'[1] = GlobalFrame
    BY <1>1, <2>1 DEF Inv, TypeOK, StepInv, StackBounded, Depth
  <2>3. nextId' \in 1 .. MaxCalls + 2
    BY <2>1, SteppingAssumption DEF Call, Inv, TypeOK
  <2>4. TypeOK'
    BY <1>3, <2>1, <2>2, <2>3 DEF Inv, TypeOK
  <2>5. StepInv'
    BY <1>3, <1>5, <2>1, <2>2, SteppingAssumption
       DEF Inv, TypeOK, StepInv, MirrorIsStack, StackBounded, Depth
  <2> QED
    BY <2>4, <2>5 DEF Inv
<1> QED
  BY <1>4, <1>5, SteppingAssumption DEF Depth, Inv, TypeOK

\* Leaving a call takes one frame off both stacks; a FUNCTION that ends
\* without RETURN takes two off the interpreter's, but never the global one.
LEMMA LeaveKeepsInv ==
  ASSUME Inv, Return \/ EndWithoutReturn
  PROVE  Inv'
<1>1. /\ stack \in Seq(Frame)
      /\ Len(stack) \in 1 .. MaxDepth
      /\ Len(stack) > 1
      /\ stack[1] = GlobalFrame
      /\ mirror = stack
      /\ phase = "exec"
  BY DEF Inv, TypeOK, StepInv, StackBounded, MirrorIsStack, Depth, Return,
         EndWithoutReturn
<1>2. Without(stack[Depth], mirror) = Front(stack)
  BY <1>1, WithoutTop DEF Depth
<1>3. /\ Front(stack) \in Seq(Frame)
      /\ Pop(stack) = Front(stack)
      /\ Len(Pop(stack)) \in 1 .. MaxDepth /\ Pop(stack)[1] = GlobalFrame
  BY <1>1, FrontOf, PopKeepsGlobal
<1>4. /\ Pop(Pop(stack)) \in Seq(Frame)
      /\ Len(Pop(Pop(stack))) \in 1 .. MaxDepth
      /\ Pop(Pop(stack))[1] = GlobalFrame
  BY <1>3, PopKeepsGlobal
<1>5. UNCHANGED << nextId, line, aborted, mode, pauseDepth, pauseReq, cancelled,
                   pausedDepth, bps, asked >>
  BY DEF Return, EndWithoutReturn, sessionButMirror
<1>6. CASE Return
  BY <1>1, <1>2, <1>3, <1>5, <1>6
     DEF Return, Leave, Inv, TypeOK, StepInv, MirrorIsStack, StackBounded, Depth
<1>7. CASE EndWithoutReturn
  <2>1. /\ stack' = Pop(Pop(stack))
        /\ mirror' = Front(stack)
        /\ phase' = "unwind"
    BY <1>2, <1>7 DEF EndWithoutReturn, Leave
  <2> QED
    BY <1>1, <1>3, <1>4, <1>5, <2>1
       DEF Inv, TypeOK, StepInv, MirrorIsStack, StackBounded, Depth, Phase
<1> QED
  BY <1>6, <1>7

\* An error passing up takes frames off, and reaches the end.
LEMMA UnwindKeepsInv ==
  ASSUME Inv, Unwind
  PROVE  Inv'
<1>1. UNCHANGED << nextId, line, aborted, mode, pauseDepth, pauseReq, cancelled,
                   pausedDepth, bps, asked >>
  BY DEF Unwind, sessionButMirror
<1>2. CASE Len(mirror) > 1
  <2>1. mirror' = Front(mirror) /\ mirror' \in Seq(Frame)
    <3>1. mirror \in Seq(Frame) /\ mirror # << >>
      BY <1>2 DEF Inv, TypeOK
    <3> QED
      BY <1>2, <3>1, WithoutTop, FrontOf DEF Unwind
  <2>2. /\ stack' \in Seq(Frame)
        /\ Len(stack') \in 1 .. MaxDepth
        /\ stack'[1] = GlobalFrame
    BY <1>2, PopKeepsGlobal
       DEF Unwind, Inv, TypeOK, StepInv, StackBounded, Depth
  <2> QED
    BY <1>1, <1>2, <2>1, <2>2
       DEF Unwind, Inv, TypeOK, StepInv, MirrorIsStack, StackBounded, Depth
<1>3. CASE ~ (Len(mirror) > 1)
  BY <1>1, <1>3
     DEF Unwind, Inv, TypeOK, StepInv, MirrorIsStack, StackBounded, Depth, Phase
<1> QED
  BY <1>2, <1>3

\* A command sets the fields it names; a step measures from here.
LEMMA CommandKeepsInv ==
  ASSUME Inv, Commands
  PROVE  Inv'
<1>1. ASSUME NEW m \in StepMode, Resume(m) PROVE Inv'
  <2>1. UNCHANGED << stack, nextId, line, aborted, mirror, cancelled, bps >>
    BY <1>1 DEF Resume, stackVars
  <2>2. /\ phase' \in Phase \ { "parked", "unwind", "done" }
        /\ pausedDepth' = 0
    BY <1>1, <2>1, ReleaseEffect DEF Resume, Awaiting
  <2>3. Depth \in 1 .. MaxDepth
    BY DEF Inv, StepInv, StackBounded
  <2>4. pauseDepth' = IF m \in { "stepOver", "stepOut" } THEN Depth ELSE pauseDepth
    <3>1. phase = "parked" => pausedDepth = Depth
      BY DEF Inv, StepInv
    <3>2. phase = "yield" => pausedDepth = 0
      BY DEF Inv, StepInv
    <3>3. mirror = stack
      BY <1>1 DEF Inv, StepInv, MirrorIsStack, Resume, Awaiting
    <3>4. mirror # << >> /\ Len(mirror) = Depth
      BY <2>3, <3>3, SteppingAssumption DEF Depth
    <3> QED
      BY <1>1, <2>3, <3>1, <3>2, <3>4 DEF Resume, Awaiting
  <2>5. asked' = [ mode |-> m, depth |-> Depth ] /\ mode' = m /\ pauseReq' = FALSE
    BY <1>1 DEF Resume
  <2>6. TypeOK'
    <3>1. asked' \in [ mode : StepMode, depth : 1 .. MaxDepth ]
      BY <2>3, <2>5
    <3>2. pauseDepth' \in 1 .. MaxDepth
      BY <2>3, <2>4 DEF Inv, TypeOK
    <3>3. pausedDepth' \in 0 .. MaxDepth
      BY <2>2, SteppingAssumption
    <3> QED
      BY <2>1, <2>2, <2>5, <3>1, <3>2, <3>3 DEF Inv, TypeOK
  <2>7. StepInv'
    BY <1>1, <2>1, <2>2, <2>4, <2>5
       DEF Inv, StepInv, MirrorIsStack, StackBounded, Depth, Resume, Awaiting
  <2> QED
    BY <2>6, <2>7 DEF Inv
<1>2. CASE RequestPause
  BY <1>2 DEF RequestPause, Inv, TypeOK, StepInv, MirrorIsStack, StackBounded,
       Depth, stackVars
<1>3. CASE SetBreakpoints
  BY <1>3 DEF SetBreakpoints, Inv, TypeOK, StepInv, MirrorIsStack, StackBounded,
       Depth, stackVars, sessionVars
<1>4. CASE Cancel
  <2>1. phase' = (IF phase = "parked" THEN "unwind" ELSE phase) /\ pausedDepth' = 0
    BY <1>4 DEF Cancel
  <2>2. phase' \in Phase /\ phase' # "parked"
    BY <2>1 DEF Inv, TypeOK, Phase
  <2>3. TypeOK'
    <3>1. aborted' \in BOOLEAN /\ pauseReq' \in BOOLEAN /\ cancelled' \in BOOLEAN
      BY <1>4 DEF Cancel
    <3>2. pausedDepth' \in 0 .. MaxDepth
      BY <2>1, SteppingAssumption
    <3>3. UNCHANGED << stack, nextId, line, mirror, mode, pauseDepth, bps, asked >>
      BY <1>4 DEF Cancel, stackVars
    <3> QED
      BY <2>2, <3>1, <3>2, <3>3 DEF Inv, TypeOK
  <2>4. StepInv'
    BY <1>4, <2>1, <2>2
       DEF Cancel, Awaiting, Inv, StepInv, MirrorIsStack, StackBounded, Depth,
           stackVars
  <2> QED
    BY <2>3, <2>4 DEF Inv
<1> QED
  BY <1>1, <1>2, <1>3, <1>4 DEF Commands

\* Every step keeps the types and StepInv.
LEMMA NextKeepsInv == Inv /\ [Next]_vars => Inv'
<1> SUFFICES ASSUME Inv, [Next]_vars PROVE Inv'
  OBVIOUS
<1>1. CASE Interpreter
  BY <1>1, FlatStepKeepsInv, CallKeepsInv, LeaveKeepsInv, UnwindKeepsInv
     DEF Interpreter
<1>2. CASE Commands
  BY <1>2, CommandKeepsInv
<1>3. CASE UNCHANGED vars
  BY <1>3 DEF vars, stackVars, sessionVars, Inv, TypeOK, StepInv, MirrorIsStack,
       StackBounded, Depth
<1> QED
  BY <1>1, <1>2, <1>3 DEF Next

\* The types and StepInv hold together in every reachable state.
LEMMA Inductive == Spec => []Inv
BY InitInv, NextKeepsInv, PTL DEF Spec

-----------------------------------------------------------------------------
(* A program that is stopped, or asked to pause *)

HaltedInv == Inv /\ HaltInv

\* Every step keeps what a cancelled session and its frames rely on.
LEMMA HaltInductive == HaltedInv /\ [Next]_vars => HaltInv'
<1> SUFFICES ASSUME HaltedInv, [Next]_vars PROVE HaltInv'
  OBVIOUS
<1>1. HaltInv /\ stack \in Seq(Frame) /\ mirror \in Seq(Frame) /\ Inv
  BY DEF HaltedInv, Inv, TypeOK
<1>2. CASE UNCHANGED vars
  BY <1>1, <1>2 DEF vars, stackVars, sessionVars, HaltInv
<1>3. CASE tick \/ tickParks \/ yieldEnds \/ NextStatement \/ Fail \/ Finish
  BY <1>1, <1>3 DEF tick, tickParks, park, yieldEnds, NextStatement, Fail, Finish,
       goOn, HaltInv, sessionVars
<1>4. ASSUME NEW kind \in { "procedure", "function" }, Call(kind)
      PROVE  HaltInv'
  <2>1. mirror' # << >>
    <3>1. CASE mirror' = mirror
      BY <1>1, <3>1 DEF HaltInv
    <3>2. CASE mirror' = Append(mirror, [ id |-> nextId, kind |-> kind ])
      BY <1>1, <3>2
    <3> QED
      BY <1>4, <3>1, <3>2 DEF Call, Enter, Push
  <2> QED
    BY <1>1, <1>4, <2>1 DEF Call, sessionButMirror, HaltInv
<1>5. CASE Return \/ EndWithoutReturn
  <2>1. /\ mirror = stack /\ Len(stack) > 1 /\ phase = "exec"
        /\ UNCHANGED << aborted, cancelled, pauseReq >>
    BY <1>1, <1>5 DEF Return, EndWithoutReturn, Depth, Inv, StepInv, MirrorIsStack,
         sessionButMirror
  <2>2. mirror' = Front(stack)
    BY <1>1, <1>5, <2>1, WithoutTop DEF Return, EndWithoutReturn, Leave, Depth
  <2>3. mirror' # << >>
    BY <1>1, <2>1, <2>2, FrontOf
  <2> QED
    BY <1>1, <2>1, <2>3 DEF HaltInv
<1>6. CASE Unwind
  <2>1. UNCHANGED << aborted, cancelled, pauseReq >> /\ phase' \in { "unwind", "done" }
    BY <1>6 DEF Unwind, sessionButMirror
  <2>2. mirror' # << >>
    <3>1. CASE Len(mirror) > 1
      <4>1. mirror' = Front(mirror)
        BY <1>1, <1>6, <3>1, WithoutTop DEF Unwind
      <4> QED
        BY <1>1, <3>1, <4>1, FrontOf
    <3>2. CASE ~(Len(mirror) > 1)
      BY <1>1, <1>6, <3>2 DEF Unwind, HaltInv
    <3> QED
      BY <3>1, <3>2
  <2> QED
    BY <1>1, <2>1, <2>2 DEF HaltInv
<1>7. CASE Commands
  BY <1>1, <1>7 DEF Commands, Resume, ReleaseGate, goOn, RequestPause,
       SetBreakpoints, Cancel, Awaiting, HaltInv, sessionVars
<1> QED
  BY <1>2, <1>3, <1>4, <1>5, <1>6, <1>7 DEF Next, Interpreter

\* A program starts uncancelled, with its global frame.
LEMMA HaltInit == Init => HaltInv
BY DEF Init, HaltInv

\* The invariants hold together in every reachable state.
LEMMA HaltInvariance == Spec => []HaltedInv
<1>1. HaltedInv /\ [Next]_vars => HaltedInv'
  BY HaltInductive, NextKeepsInv DEF HaltedInv
<1>2. Init => HaltedInv
  BY HaltInit, InitInv DEF HaltedInv
<1> QED
  BY <1>1, <1>2, PTL DEF Spec

\* One catch block takes one frame off the mirror, and none on to the stack.
LEMMA UnwindStep ==
  ASSUME HaltedInv, Unwind
  PROVE  /\ phase = "unwind"
         /\ \/ phase' = "done"
            \/ phase' = "unwind" /\ Len(mirror') = Len(mirror) - 1
         /\ Len(mirror) \in Nat \ { 0 }
         /\ Len(stack') <= Len(stack) /\ nextId' = nextId
<1>1. /\ mirror \in Seq(Frame) /\ stack \in Seq(Frame) /\ mirror # << >>
      /\ Len(stack) \in 1 .. MaxDepth /\ stack[1] = GlobalFrame
  BY DEF HaltedInv, HaltInv, Inv, TypeOK, StepInv, StackBounded, Depth
<1>2. phase = "unwind" /\ nextId' = nextId
  BY DEF Unwind
<1>3. CASE Len(mirror) > 1
  <2>1. /\ mirror' = Without(mirror[Len(mirror)], mirror) /\ stack' = Pop(stack)
        /\ phase' = phase
    BY <1>3 DEF Unwind
  <2>2. Len(mirror') = Len(mirror) - 1
    BY <1>1, <1>3, <2>1, WithoutTop, FrontOf
  <2>3. Len(stack') <= Len(stack)
    BY <1>1, <2>1, FrontOf DEF Pop
  <2> QED
    BY <1>1, <1>2, <2>1, <2>2, <2>3
<1>4. CASE ~(Len(mirror) > 1)
  BY <1>1, <1>2, <1>4 DEF Unwind
<1> QED
  BY <1>3, <1>4

\* A cancelled session lets its program do nothing but fail.
LEMMA CancelledStep ==
  ASSUME HaltedInv, [Next]_vars, cancelled
  PROVE  /\ cancelled'
         /\ phase' \in { "yield", "unwind", "done" }
         /\ Len(stack') <= Len(stack) /\ nextId' = nextId
         /\ Interpreter => CancelWork' < CancelWork
<1>1. /\ phase \in { "yield", "unwind", "done" } /\ aborted
      /\ Len(stack) \in Nat /\ Len(mirror) \in Nat \ { 0 } /\ MaxDepth \in Nat
  BY SteppingAssumption DEF HaltedInv, HaltInv, Inv, TypeOK
<1>2. CASE yieldEnds
  BY <1>1, <1>2 DEF yieldEnds, stackVars, sessionVars, CancelWork, UnwindWork
<1>3. CASE Unwind
  <2>1. cancelled'
    BY <1>3 DEF Unwind, sessionButMirror
  <2>2. /\ phase = "unwind" /\ phase' \in { "unwind", "done" }
        /\ phase' = "unwind" => Len(mirror') = Len(mirror) - 1
        /\ Len(stack') <= Len(stack) /\ nextId' = nextId
    BY <1>3, UnwindStep
  <2>3. CancelWork' < CancelWork
    <3>1. CancelWork = Len(mirror) + 1 /\ Len(mirror) >= 1
      BY <1>1, <2>2 DEF CancelWork, UnwindWork
    <3>2. CancelWork' = 0 \/ CancelWork' = Len(mirror)
      <4>1. CASE phase' = "done"
        BY <4>1 DEF CancelWork, UnwindWork
      <4>2. CASE phase' = "unwind"
        <5>1. Len(mirror') + 1 = Len(mirror)
          BY <1>1, <2>2, <4>2
        <5>2. CancelWork' = Len(mirror') + 1
          <6>1. Len(mirror') \in Int
            BY <1>1, <2>2, <4>2
          <6> QED
            BY <4>2, <6>1 DEF CancelWork, UnwindWork
        <5> QED
          BY <5>1, <5>2
      <4> QED
        BY <2>2, <4>1, <4>2
    <3> HIDE DEF CancelWork
    <3> QED
      BY <1>1, <3>1, <3>2
  <2> QED
    BY <2>1, <2>2, <2>3
<1>4. CASE Interpreter
  BY <1>1, <1>2, <1>3, <1>4 DEF Interpreter, tick, tickParks, NextStatement, Call,
       Return, EndWithoutReturn, Fail, Finish
<1>5. CASE SetBreakpoints \/ UNCHANGED vars
  <2>1. UNCHANGED << stack, nextId, phase, cancelled, mirror >>
    BY <1>5 DEF SetBreakpoints, vars, stackVars, sessionVars
  <2>2. ~Interpreter \/ CancelWork' < CancelWork
    BY <1>4
  <2> QED
    BY <1>1, <2>1, <2>2
<1>6. CASE Commands
  BY <1>1, <1>5, <1>6 DEF Commands, Resume, RequestPause, Cancel
<1> QED
  BY <1>4, <1>5, <1>6 DEF Next

\* A statement that runs while a pause is wanted comes nearer to the next one.
LEMMA PausedStep ==
  ASSUME HaltedInv, Interpreter, pauseReq, phase # "tick"
  PROVE  pauseReq' /\ PauseWork' < PauseWork
<1>1. /\ ~cancelled /\ ~aborted /\ phase \in Phase
      /\ stack \in Seq(Frame) /\ mirror \in Seq(Frame) /\ nextId \in 1 .. MaxCalls + 2
      /\ MaxCalls \in Nat /\ MaxDepth \in Nat /\ Len(stack) \in 1 .. MaxDepth
      /\ stack[1] = GlobalFrame
  BY SteppingAssumption DEF HaltedInv, HaltInv, Inv, TypeOK, StepInv, StackBounded, Depth
<1>2. CASE yieldEnds
  BY <1>1, <1>2 DEF yieldEnds, stackVars, sessionVars, PauseWork, BodyWork, Depth
<1>3. CASE NextStatement
  BY <1>1, <1>3 DEF NextStatement, sessionVars, stackVars, PauseWork, BodyWork, Depth
<1>4. CASE Fail \/ Finish
  <2>1. mirror' = stack /\ phase = "exec" /\ phase' \in { "unwind", "done" }
    BY <1>4 DEF Fail, Finish, HaltedInv, Inv, StepInv, MirrorIsStack, sessionVars
  <2>2. PauseWork' < PauseWork
    BY <1>1, <2>1 DEF PauseWork, BodyWork, Depth
  <2>3. pauseReq'
    BY <1>4 DEF Fail, Finish, sessionVars
  <2> QED
    BY <2>2, <2>3
<1>5. ASSUME NEW kind \in { "procedure", "function" }, Call(kind)
      PROVE  pauseReq' /\ PauseWork' < PauseWork
  <2>1. mirror = stack /\ phase = "exec" /\ pauseReq' = pauseReq
    BY <1>5 DEF Call, HaltedInv, Inv, StepInv, MirrorIsStack, sessionButMirror
  <2>2. CASE Depth >= MaxDepth
    BY <1>1, <1>5, <2>1, <2>2 DEF Call, Enter, stackVars, PauseWork, BodyWork, Depth
  <2>3. CASE ~(Depth >= MaxDepth)
    <3>1. /\ stack' = Append(stack, [ id |-> nextId, kind |-> kind ])
          /\ nextId' = nextId + 1 /\ phase' = phase /\ nextId <= MaxCalls + 1
      BY <1>5, <2>3 DEF Call, Enter, Push
    <3>2. Len(stack') = Len(stack) + 1
      BY <1>1, <3>1
    <3> HIDE <3>1
    <3>3. BodyWork' = BodyWork - 1
      BY <1>1, <3>1, <3>2 DEF BodyWork, Depth
    <3>4. BodyWork \in Int
      BY <1>1 DEF BodyWork, Depth
    <3> QED
      BY <1>1, <2>1, <3>1, <3>3, <3>4 DEF PauseWork
  <2> QED
    BY <2>2, <2>3
<1>6. CASE Return \/ EndWithoutReturn
  <2>1. /\ mirror = stack /\ Len(stack) > 1 /\ phase = "exec"
        /\ UNCHANGED << nextId, pauseReq >>
    BY <1>6 DEF Return, EndWithoutReturn, Depth, HaltedInv, Inv, StepInv, MirrorIsStack,
         sessionButMirror
  <2>2. /\ mirror' = Front(stack)
        /\ stack' = Front(stack) \/ phase' = "unwind"
        /\ phase' \in { "exec", "unwind" }
        /\ phase' = "exec" => stack' = Front(stack)
    BY <1>1, <1>6, <2>1, WithoutTop DEF Return, EndWithoutReturn, Leave, Depth, Pop
  <2>3. Len(Front(stack)) = Len(stack) - 1
    BY <1>1, <2>1, FrontOf
  <2> QED
    BY <1>1, <2>1, <2>2, <2>3 DEF PauseWork, BodyWork, Depth
<1>7. CASE Unwind
  <2>1. pauseReq' = pauseReq
    BY <1>7 DEF Unwind, sessionButMirror
  <2> QED
    BY <1>1, <1>7, <2>1, UnwindStep DEF PauseWork
<1> QED
  BY <1>2, <1>3, <1>4, <1>5, <1>6, <1>7 DEF Interpreter, tick, tickParks

-----------------------------------------------------------------------------
(* The theorems *)

\* Every state of a debugged run is well typed: no step counts from depth 0 or
\* from beyond the call limit.
THEOREM Typing == Spec => []TypeOK
<1>1. Inv => TypeOK
  BY DEF Inv
<1> QED
  BY <1>1, Inductive, PTL

\* At any depth of calls, the call stack the debugger shows is the
\* interpreter's whenever a statement is about to run or is shown (the frame
\* hooks of DebuggerSession).
THEOREM MirrorFaithful == Spec => []MirrorIsStack
<1>1. Inv => MirrorIsStack
  BY DEF Inv, StepInv
<1> QED
  BY <1>1, Inductive, PTL

\* Whatever calls, errors and FUNCTIONs without RETURN come, the global frame
\* stays and the call limit holds (CallStack.pop, callRoutine).
THEOREM StackSafe == Spec => []StackBounded
<1>1. Inv => StackBounded
  BY DEF Inv, StepInv
<1> QED
  BY <1>1, Inductive, PTL

\* For every program and call depth, a statement is stopped at exactly when it
\* has a breakpoint, a pause was requested, or the last step was to stop there.
THEOREM StepsStopWhereAsked == Spec => StopsExactlyWhenAsked
<1>1. ASSUME Inv, Next, phase = "tick", phase' # "unwind", phase' # phase
      PROVE  phase' = "parked" <=> (pauseReq \/ line \in bps \/ Asked)
  <2>1. tick \/ tickParks
    BY <1>1 DEF Next, Interpreter, Commands, yieldEnds, NextStatement, Call,
         Return, EndWithoutReturn, Fail, Unwind, Finish, Resume, RequestPause,
         SetBreakpoints, Cancel, Awaiting
  <2>2. shouldPause <=> (pauseReq \/ line \in bps \/ Asked)
    BY <1>1 DEF Inv, StepInv, shouldPause, Asked
  <2>3. ~ cancelled
    BY <1>1, <2>1 DEF Inv, StepInv, tick, tickParks
  <2> QED
    BY <1>1, <2>1, <2>2, <2>3 DEF tick, tickParks, goOn, park
<1>2. Inv /\ [Next]_vars =>
        [ (phase = "tick" /\ phase' # "unwind" /\ phase' # phase) =>
            (phase' = "parked" <=> (pauseReq \/ line \in bps \/ Asked)) ]_vars
  BY <1>1
<1> QED
  BY <1>2, Inductive, PTL DEF Spec, StopsExactlyWhenAsked
\* For every program, call depth and moment of the click: after Stop was handled
\* nothing of the program runs but its catch blocks, each of which takes a call
\* off, so that it ends within as many steps as it had calls (cancel).
THEOREM StopIsFinal == Spec => CancelIsFinal
<1>1. HaltedInv /\ [Next]_vars =>
        [ cancelled =>
            /\ cancelled'
            /\ phase' \in { "yield", "unwind", "done" }
            /\ Len(stack') <= Len(stack) /\ nextId' = nextId
            /\ Interpreter => CancelWork' < CancelWork ]_vars
  BY CancelledStep
<1> QED
  BY <1>1, HaltInvariance, PTL DEF Spec, CancelIsFinal

\* For every program and call depth: a request to pause survives every call,
\* RETURN and timer until the next statement stops at it, another command takes
\* its place, or the program has ended (requestPause, shouldPause, park).
THEOREM PausesAreHeard == Spec => PauseIsHeard
<1> DEFINE Heard ==
      \/ phase = "tick" /\ phase' = "parked" /\ ~pauseReq'
      \/ \E m \in StepMode : Resume(m)
      \/ Cancel
      \/ /\ pauseReq'
         /\ phase # "tick"
         /\ Interpreter => PauseWork' < PauseWork
<1>1. ASSUME HaltedInv, Next, pauseReq PROVE Heard
  <2>1. CASE Interpreter /\ phase # "tick"
    BY <1>1, <2>1, PausedStep
  <2>2. CASE Interpreter /\ phase = "tick"
    <3>1. ~cancelled /\ ~aborted
      BY <1>1 DEF HaltedInv, HaltInv
    <3>2. tickParks
      BY <1>1, <2>2, <3>1 DEF Interpreter, tick, yieldEnds, NextStatement, Call,
           Return, EndWithoutReturn, Fail, Unwind, Finish, shouldPause
    <3> QED
      BY <3>2 DEF tickParks, park
  <2>3. CASE RequestPause \/ SetBreakpoints
    <3>1. phase \in Awaiting /\ pauseReq'
      BY <1>1, <2>3 DEF RequestPause, SetBreakpoints, sessionVars
    <3>2. ~Interpreter \/ (phase # "tick" /\ Interpreter)
      BY <3>1 DEF Awaiting
    <3> QED
      BY <2>1, <3>1, <3>2 DEF Awaiting
  <2> QED
    BY <1>1, <2>1, <2>2, <2>3 DEF Next, Commands
<1>2. HaltedInv /\ [Next]_vars => [ pauseReq => Heard ]_vars
  BY <1>1
<1> QED
  BY <1>2, HaltInvariance, PTL DEF Spec, PauseIsHeard
=============================================================================
