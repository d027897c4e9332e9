---------------------- MODULE ExecutionDialogue_proofs ----------------------
(***************************************************************************)
(* Proofs about the dialogue of a run with the student: what the debugger  *)
(* and INPUT ask, what is answered, what is printed and what Stop stops.   *)
(* They rest on the types and RunInv of ExecutionSystem_proofs and on the  *)
(* order of the sessions of ExecutionOrder_proofs, and hold for every      *)
(* bound, every set of lines and every number of sessions.                 *)
(***************************************************************************)
EXTENDS ExecutionOrder_proofs, FiniteSetTheorems, FunctionTheorems

-----------------------------------------------------------------------------
(* Where the messages are after each kind of step                          *)

\* What a session, or the error listener, posts goes behind what was posted.
LEMMA EventPlaces ==
  ASSUME TypeInv, NEW events \in Seq(Event), fromWorker' = fromWorker \o events
  PROVE  /\ Len(fromWorker) \in Nat /\ Len(events) \in Nat
         /\ Len(fromWorker') = Len(fromWorker) + Len(events)
         /\ \A i \in 1 .. Len(fromWorker') :
              \/ i \in 1 .. Len(fromWorker) /\ fromWorker'[i] = fromWorker[i]
              \/ /\ i > Len(fromWorker) /\ i - Len(fromWorker) \in 1 .. Len(events)
                 /\ fromWorker'[i] = events[i - Len(fromWorker)]
         /\ \A i \in 1 .. Len(fromWorker) :
              i \in 1 .. Len(fromWorker') /\ fromWorker'[i] = fromWorker[i]
         /\ \A i \in 1 .. Len(events) :
              /\ i + Len(fromWorker) \in 1 .. Len(fromWorker')
              /\ fromWorker'[i + Len(fromWorker)] = events[i]
<1> DEFINE new == fromWorker \o events
<1>1. fromWorker \in Seq(Event)
  BY TypesKnown
<1>2. /\ Len(fromWorker) \in Nat /\ Len(events) \in Nat
      /\ Len(new) = Len(fromWorker) + Len(events)
      /\ \A i \in 1 .. Len(new) :
           \/ i \in 1 .. Len(fromWorker) /\ new[i] = fromWorker[i]
           \/ /\ i > Len(fromWorker) /\ i - Len(fromWorker) \in 1 .. Len(events)
              /\ new[i] = events[i - Len(fromWorker)]
      /\ \A i \in 1 .. Len(fromWorker) : i \in 1 .. Len(new) /\ new[i] = fromWorker[i]
      /\ \A i \in 1 .. Len(events) :
           i + Len(fromWorker) \in 1 .. Len(new) /\ new[i + Len(fromWorker)] = events[i]
  BY <1>1, ConcatPlaces, SMTT(30)
<1>3. fromWorker' = new
  OBVIOUS
<1> HIDE DEF new
<1> QED
  BY <1>2, <1>3

\* An error event of the worker script speaks for no session.
LEMMA CrashPosts ==
  ASSUME TypeInv, Crash
  PROVE  \E events \in Seq(Event) :
           /\ fromWorker' = fromWorker \o events
           /\ \A i \in 1 .. Len(events) : events[i].sid = None
<1> DEFINE e == Evt("workerError", None)
<1>1. e \in Event /\ e.sid = None /\ Append(fromWorker, e) = fromWorker'
  BY EventsTyped DEF EventType, Evt, Crash
<1> HIDE DEF e
<1>2. fromWorker \in Seq(Event)
  BY TypesKnown
<1>3. /\ << e >> \in Seq(Event) /\ Append(fromWorker, e) = fromWorker \o << e >>
      /\ \A i \in 1 .. Len(<< e >>) : << e >>[i] = e
  BY <1>1, <1>2
<1> QED
  BY <1>1, <1>3

\* A command that is handled leaves the queue; the others move up.
LEMMA CommandPlaces ==
  ASSUME TypeInv, HandleWorkerCommand
  PROVE  /\ 1 \in 1 .. Len(toWorker) /\ Head(toWorker) = toWorker[1]
         /\ Len(toWorker) \in Nat /\ Len(toWorker') = Len(toWorker) - 1
         /\ \A i \in 1 .. Len(toWorker') :
              /\ toWorker'[i] = toWorker[i + 1]
              /\ i + 1 \in 1 .. Len(toWorker) /\ i + 1 # 1
         /\ \A i \in 1 .. Len(toWorker) : i # 1 =>
              i - 1 \in 1 .. Len(toWorker') /\ toWorker'[i - 1] = toWorker[i]
<1>1. toWorker \in Seq(Command) /\ toWorker # << >> /\ toWorker' = Tail(toWorker)
  BY TypesKnown, CommandOutcome
<1> QED
  BY <1>1, TailPlaces

\* A click puts no run of an old session on its way.
LEMMA ClickPlaces ==
  ASSUME TypeInv, RunInv, Student
  PROVE  /\ gen' \in Nat /\ gen <= gen'
         /\ \A i \in 1 .. Len(toWorker') : IsRun(toWorker'[i]) =>
              \/ i \in 1 .. Len(toWorker) /\ toWorker'[i] = toWorker[i]
              \/ toWorker'[i].sid > gen
         /\ \A i \in 1 .. Len(pending') : IsRun(pending'[i]) =>
              \/ i \in 1 .. Len(pending) /\ pending'[i] = pending[i]
              \/ pending'[i].sid > gen
<1>1. PICK cmds \in Seq(Command) :
        /\ Post(cmds)
        /\ Reruns(cmds) \/ Stops(cmds) \/ Replies(cmds) \/ Remarks(cmds)
  BY StudentOutcome
<1>2. /\ gen' \in Nat /\ gen <= gen'
      /\ \A i \in 1 .. Len(cmds) : IsRun(cmds[i]) => cmds[i].sid > gen
  <2>1. CASE Reruns(cmds)
    <3>1. /\ gen' \in Nat /\ gen <= gen' /\ gen' > gen
          /\ \A i \in 1 .. Len(cmds) : IsRun(cmds[i]) => i = Len(cmds)
      BY <2>1, TypesKnown DEF Reruns, IsRun
    <3> QED
      BY <2>1, <3>1 DEF Reruns
  <2>2. CASE Stops(cmds)
    BY <2>2, TypesKnown DEF Stops, IsRun
  <2>3. CASE Replies(cmds)
    <3>1. \A i \in 1 .. Len(cmds) : i = 1 /\ cmds[i].type \in { "resume", "input" }
      BY <2>3 DEF Replies
    <3> QED
      BY <2>3, <3>1, TypesKnown DEF Replies, IsRun
  <2>4. CASE Remarks(cmds)
    BY <2>4, TypesKnown DEF Remarks, IsRun
  <2> QED
    BY <1>1, <2>1, <2>2, <2>3, <2>4
<1> QED
  BY <1>1, <1>2, PostPlaces

-----------------------------------------------------------------------------
(* LostAreSilent is inductive                                              *)

\* Whatever happens, a session that was lost with its worker stays silent:
\* ids are never given out twice.
LEMMA NextKeepsLostSilent ==
  TypeInv /\ RunInv /\ OrderInv /\ LostAreSilent /\ [Next]_vars => LostAreSilent'
<1> SUFFICES ASSUME TypeInv, RunInv, OrderInv, LostAreSilent, [Next]_vars
             PROVE  LostAreSilent'
  OBVIOUS
<1>1. /\ lost \subseteq Session
      /\ \A s \in lost : /\ s <= gen /\ s \in Nat
                         /\ ses[s].pc \in { "none", "ended" }
                         /\ \A i \in 1 .. Len(fromWorker) : fromWorker[i].sid # s
                         /\ \A i \in 1 .. Len(toWorker) :
                              IsRun(toWorker[i]) => toWorker[i].sid # s
                         /\ \A i \in 1 .. Len(pending) :
                              IsRun(pending[i]) => pending[i].sid # s
      /\ gen \in Nat
  BY TypesKnown DEF LostAreSilent, NoneSaid, TypeInv, TypeOK, WorkerTypeOK
<1>2. CASE Student
  <2>1. UNCHANGED << lost, ses, fromWorker >>
    BY <1>2, StudentOutcome DEF workerVars
  <2>2. /\ gen' \in Nat /\ gen <= gen'
        /\ \A i \in 1 .. Len(toWorker') : IsRun(toWorker'[i]) =>
             (i \in 1 .. Len(toWorker) /\ toWorker'[i] = toWorker[i]) \/ toWorker'[i].sid > gen
        /\ \A i \in 1 .. Len(pending') : IsRun(pending'[i]) =>
             (i \in 1 .. Len(pending) /\ pending'[i] = pending[i]) \/ pending'[i].sid > gen
    BY <1>2, ClickPlaces
  <2> SUFFICES ASSUME NEW s \in lost
               PROVE  /\ s <= gen'
                      /\ \A i \in 1 .. Len(toWorker') :
                           IsRun(toWorker'[i]) => toWorker'[i].sid # s
                      /\ \A i \in 1 .. Len(pending') :
                           IsRun(pending'[i]) => pending'[i].sid # s
    BY <1>1, <2>1 DEF LostAreSilent, NoneSaid, IsRun
  <2>3. s <= gen'
    BY <1>1, <2>2
  <2>4. \A i \in 1 .. Len(toWorker') : IsRun(toWorker'[i]) => toWorker'[i].sid # s
    BY <1>1, <2>2
  <2>5. \A i \in 1 .. Len(pending') : IsRun(pending'[i]) => pending'[i].sid # s
    BY <1>1, <2>2
  <2> QED
    BY <2>3, <2>4, <2>5
<1>3. CASE DeliverEvent /\ UNCHANGED workerVars
  <2>1. /\ UNCHANGED << lost, ses, gen >>
        /\ \A i \in 1 .. Len(fromWorker') :
             fromWorker'[i] = fromWorker[i + 1] /\ i + 1 \in 1 .. Len(fromWorker)
        /\ \/ UNCHANGED << toWorker, pending >>
           \/ toWorker' = pending /\ pending' = << >> /\ toWorker = << >>
        /\ Len(<< >>) = 0
    BY <1>3, DeliveryPlaces DEF workerVars
  <2> QED
    BY <1>1, <2>1 DEF LostAreSilent, NoneSaid
<1>4. CASE Kills
  <2>1. gen' \in Nat /\ gen <= gen'
    BY <1>1, <1>4, KillEffect
  <2>2. ASSUME NEW s \in lost' PROVE s \in Session /\ s <= gen'
    <3>1. s \in Session /\ s \in Nat
      BY <1>4, <2>2, TypesKnown DEF Kills, Terminated, TypeInv, TypeOK, WorkerTypeOK
    <3>2. s <= gen
      BY <1>1, <1>4, <2>2, <3>1, KillEffect DEF RunInv, Issued
    <3> QED
      BY <1>1, <2>1, <3>1, <3>2
  <2> QED
    BY <1>4, <2>2, KillEffect, TypesKnown DEF LostAreSilent, NoneSaid
<1>5. CASE HandleWorkerCommand /\ UNCHANGED mainOnly
  <2> DEFINE c == Head(toWorker)
  <2>1. UNCHANGED << lost, fromWorker, gen, pending >>
    BY <1>5, CommandOutcome DEF mainOnly, runVars
  <2>2. IsRun(c) => c.sid \notin lost
    BY <1>1, <1>5, CommandPlaces
  <2>3. \A s \in lost : ses'[s].pc \in { "none", "ended" }
    BY <1>1, <1>5, <2>2, CommandClasses DEF SameClass
  <2>4. \A i \in 1 .. Len(toWorker') :
          toWorker'[i] = toWorker[i + 1] /\ i + 1 \in 1 .. Len(toWorker)
    BY <1>5, CommandPlaces
  <2> QED
    BY <1>1, <2>1, <2>3, <2>4 DEF LostAreSilent, NoneSaid
<1>6. ASSUME NEW s \in Session, SessionStep(s) \/ RunRejects(s), UNCHANGED mainOnly
      PROVE  LostAreSilent'
  <2>1. /\ UNCHANGED << toWorker, pending, gen, lost >> /\ Moves(s)
    BY <1>6, SessionOutcome
    DEF mainOnly, runVars, SessionStep, Begin, EndUnrun, FirstStatement, Tick, ResumeFromGate,
        TimerFires, RunRejects
  <2>2. PICK events : Speaks(s, events)
    BY <1>6, SessionOutcome
  <2>3. \A t \in lost : t # s /\ ses'[t].pc \in { "none", "ended" }
    BY <1>1, <2>1, MoveClasses
  <2>4. /\ events \in Seq(Event) /\ fromWorker' = fromWorker \o events
        /\ \A i \in 1 .. Len(events) : events[i].sid = s
    BY <2>2 DEF Speaks, Says
  <2>5. \A i \in 1 .. Len(fromWorker') :
          \/ i \in 1 .. Len(fromWorker) /\ fromWorker'[i] = fromWorker[i]
          \/ fromWorker'[i].sid = s
    BY <2>4, EventPlaces
  <2> QED
    BY <1>1, <2>1, <2>3, <2>5 DEF LostAreSilent, NoneSaid
<1>7. CASE Crash /\ UNCHANGED mainOnly
  <2>1. PICK events \in Seq(Event) :
          /\ fromWorker' = fromWorker \o events
          /\ \A i \in 1 .. Len(events) : events[i].sid = None
    BY <1>7, CrashPosts
  <2>2. \A i \in 1 .. Len(fromWorker') :
          \/ i \in 1 .. Len(fromWorker) /\ fromWorker'[i] = fromWorker[i]
          \/ fromWorker'[i].sid = None
    BY <2>1, EventPlaces
  <2>3. UNCHANGED << toWorker, pending, gen, lost, ses >>
    BY <1>7 DEF Crash, mainOnly, runVars
  <2> QED
    BY <1>1, <2>2, <2>3, TypesKnown DEF LostAreSilent, NoneSaid
<1>8. CASE UNCHANGED vars
  BY <1>8 DEF vars, mainVars, workerVars, runVars, portVars, LostAreSilent, NoneSaid
<1> QED
  BY <1>2, <1>3, <1>4, <1>5, <1>6, <1>7, <1>8 DEF Next, Deliver, Host, Worker, Kills

-----------------------------------------------------------------------------
(* TurnInv is inductive                                                    *)

\* The turns of one run.
Turn(s) ==
  /\ AskIsLast(s)
  /\ SuspendedTogether(s)
  /\ AnswerIsAwaited(toWorker, s) /\ AnswerIsAwaited(pending, s)

\* A run that waits neither in the debugger nor in INPUT has nothing asked and
\* nothing answered, and the UI shows it running.
LEMMA NobodyWaits ==
  ASSUME NEW s, Turn(s), ui \in Busy, ses[s].pc \notin { "parked", "input" }
  PROVE  /\ ui = "running"
         /\ \A i \in 1 .. Len(fromWorker) : ~Asks(fromWorker[i], s)
         /\ NoAnswer(s)
BY DEF Turn, AskIsLast, SuspendedTogether, AnswerIsAwaited, NoAnswer, Busy, WaitsAfter, AwaitedBy

\* What only other sessions and the error listener say does not disturb it.
LEMMA OthersKeepTurn ==
  ASSUME TypeInv, NEW s \in Session, Turn(s), ui \in Busy, NEW events \in Seq(Event),
         fromWorker' = fromWorker \o events,
         \A i \in 1 .. Len(events) : events[i].sid # s,
         UNCHANGED << ui, loc, toWorker, pending >>,
         \/ ses'[s] = ses[s]
         \/ ses[s].pc = "queued"
  PROVE  Turn(s)'
<1>1. /\ \A i \in 1 .. Len(fromWorker') :
           \/ i \in 1 .. Len(fromWorker) /\ fromWorker'[i] = fromWorker[i]
           \/ fromWorker'[i].sid # s
      /\ \A i \in 1 .. Len(fromWorker) :
           i \in 1 .. Len(fromWorker') /\ fromWorker'[i] = fromWorker[i]
  BY EventPlaces
<1>2. \A i \in 1 .. Len(fromWorker') : fromWorker'[i].sid = s =>
        i \in 1 .. Len(fromWorker) /\ fromWorker'[i] = fromWorker[i]
  BY <1>1
<1>3. NoneSaid(s) => NoneSaid(s)'
  BY <1>2 DEF NoneSaid
<1>4. CASE ses'[s] = ses[s]
  <2>1. SuspendedTogether(s)'
    BY <1>3, <1>4 DEF Turn, SuspendedTogether, NoAnswer
  <2>2. AnswerIsAwaited(toWorker, s)' /\ AnswerIsAwaited(pending, s)'
    BY <1>3, <1>4 DEF Turn, AnswerIsAwaited
  <2>3. AskIsLast(s)'
    BY <1>2, <1>4 DEF Turn, AskIsLast, NoAnswer, Asks
  <2> QED
    BY <2>1, <2>2, <2>3 DEF Turn
<1>5. CASE ses[s].pc = "queued"
  <2>1. /\ ui = "running" /\ NoAnswer(s)
        /\ \A i \in 1 .. Len(fromWorker) : ~Asks(fromWorker[i], s)
    BY <1>5, NobodyWaits
  <2>2. \A i \in 1 .. Len(fromWorker') : ~Asks(fromWorker'[i], s)
    BY <1>2, <2>1 DEF Asks
  <2> QED
    BY <2>1, <2>2 DEF Turn, AskIsLast, SuspendedTogether, AnswerIsAwaited, NoAnswer
<1> QED
  BY <1>4, <1>5

\* The run's own step: what it says last is what it then waits for.
LEMMA MoverKeepsTurn ==
  ASSUME TypeInv, OrderInv, NEW s \in Session, Turn(s), ui \in Busy, Moves(s),
         NEW events, Speaks(s, events), UNCHANGED << ui, toWorker, pending >>
  PROVE  Turn(s)'
<1>1. ses[s].pc \notin { "parked", "input" }
  BY MoveClasses
<1>2. /\ ui = "running" /\ NoAnswer(s)
      /\ \A i \in 1 .. Len(fromWorker) : ~Asks(fromWorker[i], s)
  BY <1>1, NobodyWaits
<1>3. /\ events \in Seq(Event) /\ fromWorker' = fromWorker \o events
      /\ \A i \in 1 .. Len(events) :
           /\ Says(s, events[i])
           /\ i # Len(events) => events[i].type = "resumed"
  BY DEF Speaks
<1>4. /\ Len(fromWorker) \in Nat /\ Len(events) \in Nat
      /\ Len(fromWorker') = Len(fromWorker) + Len(events)
      /\ \A i \in 1 .. Len(fromWorker') :
           \/ i \in 1 .. Len(fromWorker) /\ fromWorker'[i] = fromWorker[i]
           \/ /\ i > Len(fromWorker) /\ i - Len(fromWorker) \in 1 .. Len(events)
              /\ fromWorker'[i] = events[i - Len(fromWorker)]
  BY <1>3, EventPlaces
<1>5. ASSUME NEW i \in 1 .. Len(fromWorker'), Asks(fromWorker'[i], s)
      PROVE  Says(s, fromWorker'[i]) /\ i = Len(fromWorker')
  <2>1. /\ i - Len(fromWorker) \in 1 .. Len(events)
        /\ fromWorker'[i] = events[i - Len(fromWorker)]
    BY <1>2, <1>4, <1>5
  <2>2. i - Len(fromWorker) = Len(events)
    BY <1>3, <1>5, <2>1 DEF Asks
  <2> QED
    BY <1>3, <1>4, <2>1, <2>2
<1>6. NoAnswer(s)' /\ ui' = "running"
  BY <1>2 DEF NoAnswer
<1>7. AskIsLast(s)'
  <2> SUFFICES ASSUME NEW i \in 1 .. Len(fromWorker'), Asks(fromWorker'[i], s)
               PROVE  /\ ses'[s].pc = WaitsAfter(fromWorker'[i])
                      /\ fromWorker'[i].type = "paused" => fromWorker'[i].step = ses'[s].steps
                      /\ \A j \in 1 .. Len(fromWorker') : fromWorker'[j].sid = s => j <= i
    BY <1>6 DEF AskIsLast, Asks, WaitsAfter
  <2>1. Says(s, fromWorker'[i]) /\ i = Len(fromWorker')
    BY <1>5
  <2>2. \A j \in 1 .. Len(fromWorker') : j <= i
    BY <1>4, <2>1
  <2>3. /\ ses'[s].pc = WaitsAfter(fromWorker'[i])
        /\ fromWorker'[i].type = "paused" => fromWorker'[i].step = ses'[s].steps
    BY <2>1 DEF Says, Asks
  <2> QED
    BY <2>2, <2>3
<1> QED
  BY <1>6, <1>7 DEF Turn, SuspendedTogether, AnswerIsAwaited, NoAnswer

\* A command: the answer the run waits for is used up, nothing else moves it.
LEMMA CommandKeepsTurn ==
  ASSUME TypeInv, RunInv, OrderInv, Turn(sid), ui \in Busy, HandleWorkerCommand,
         UNCHANGED mainOnly
  PROVE  Turn(sid)'
<1> DEFINE c == Head(toWorker)
<1>1. /\ sid \in Session /\ gen = sid /\ UNCHANGED << ui, gen, sid, loc, pending, fromWorker >>
  BY TypesKnown, CommandOutcome DEF mainOnly, runVars, RunInv, RunTracked
<1>2. /\ 1 \in 1 .. Len(toWorker) /\ c = toWorker[1]
      /\ \A i \in 1 .. Len(toWorker') :
           /\ toWorker'[i] = toWorker[i + 1]
           /\ i + 1 \in 1 .. Len(toWorker) /\ i + 1 # 1
  BY CommandPlaces
<1>3. /\ NoAnswer(sid) => NoAnswer(sid)'
      /\ NoneSaid(sid) => NoneSaid(sid)'
  BY <1>1, <1>2 DEF NoAnswer, NoneSaid
<1>4. ASSUME ui = "running", NoAnswer(sid)',
             \A i \in 1 .. Len(fromWorker) : ~Asks(fromWorker[i], sid)
      PROVE  Turn(sid)'
  BY <1>1, <1>4 DEF Turn, AskIsLast, SuspendedTogether, AnswerIsAwaited, NoAnswer
<1>5. ASSUME ses'[sid].pc = ses[sid].pc, ses'[sid].steps = ses[sid].steps
      PROVE  Turn(sid)'
  <2>1. AskIsLast(sid)'
    BY <1>1, <1>3, <1>5 DEF Turn, AskIsLast
  <2>2. SuspendedTogether(sid)'
    BY <1>1, <1>3, <1>5 DEF Turn, SuspendedTogether
  <2>3. AnswerIsAwaited(toWorker, sid)'
    <3> SUFFICES ASSUME NEW i \in 1 .. Len(toWorker'), Answers(toWorker'[i], sid)
                 PROVE  /\ ui = "running" /\ ses'[sid].pc = AwaitedBy(toWorker'[i])
                        /\ NoneSaid(sid)'
                        /\ \A j \in 1 .. Len(toWorker') : Answers(toWorker'[j], sid) => j = i
      BY <1>1 DEF AnswerIsAwaited, Answers, AwaitedBy
    <3>1. /\ ui = "running" /\ ses[sid].pc = AwaitedBy(toWorker[i + 1]) /\ NoneSaid(sid)
          /\ \A j \in 1 .. Len(toWorker) : Answers(toWorker[j], sid) => j = i + 1
      BY <1>2 DEF Turn, AnswerIsAwaited
    <3>2. ASSUME NEW j \in 1 .. Len(toWorker'), Answers(toWorker'[j], sid) PROVE j = i
      <4>1. j + 1 = i + 1
        BY <1>2, <3>1, <3>2
      <4> QED
        BY <4>1
    <3> QED
      BY <1>2, <1>3, <1>5, <3>1, <3>2
  <2>4. AnswerIsAwaited(pending, sid)'
    BY <1>1, <1>3, <1>5 DEF Turn, AnswerIsAwaited
  <2> QED
    BY <2>1, <2>2, <2>3, <2>4 DEF Turn
<1>6. c \in Command /\ c.sid \in Session /\ Handled(c) /\ c.sid <= gen
  BY <1>2, CommandOutcome DEF RunInv, Issued
<1>7. CASE IsRun(c)
  <2>1. ses[sid] = Fresh
    BY <1>1, <1>6, <1>7, RunIsNewest
  <2>2. /\ ui = "running" /\ NoAnswer(sid)
        /\ \A i \in 1 .. Len(fromWorker) : ~Asks(fromWorker[i], sid)
    BY <1>1, <2>1, NobodyWaits, TypesKnown
  <2> QED
    BY <1>3, <1>4, <2>2
<1>8. CASE ~IsRun(c) /\ (cur # sid \/ c.sid # sid)
  <2>1. ses'[sid] = ses[sid]
    BY <1>1, <1>6, <1>8 DEF Handled
  <2> QED
    BY <1>5, <2>1
<1>9. CASE ~IsRun(c) /\ cur = sid /\ c.sid = sid
  <2>1. c.type # "stop"
    <3>1. c.type = "stop" => c.sid < gen
      BY <1>2 DEF OrderInv, AbortsAreSeen
    <3> QED
      BY <1>1, <1>9, <3>1, TypesKnown
  <2>2. CASE Answers(c, sid)
    <3>1. /\ ui = "running" /\ NoneSaid(sid)
          /\ \A j \in 1 .. Len(toWorker) : Answers(toWorker[j], sid) => j = 1
      BY <1>2, <2>2 DEF Turn, AnswerIsAwaited
    <3>2. pending = << >> /\ Len(<< >>) = 0
      <4>1. toWorker # << >>
        BY CommandOutcome
      <4> QED
        BY <4>1 DEF RunInv, OneQueue
    <3>3. \A i \in 1 .. Len(toWorker') : ~Answers(toWorker'[i], sid)
      BY <1>2, <3>1
    <3>4. NoAnswer(sid)'
      BY <1>1, <3>2, <3>3 DEF NoAnswer
    <3>5. \A i \in 1 .. Len(fromWorker) : ~Asks(fromWorker[i], sid)
      BY <3>1 DEF NoneSaid, Asks
    <3> QED
      BY <1>4, <3>1, <3>4, <3>5
  <2>3. CASE ~Answers(c, sid)
    <3>1. c.type \notin { "resume", "input", "stop" }
      BY <1>9, <2>1, <2>3 DEF Answers
    <3>2. ses'[sid].pc = ses[sid].pc /\ ses'[sid].steps = ses[sid].steps
      BY <1>6, <1>9, <3>1 DEF Handled
    <3> QED
      BY <1>5, <3>2
  <2> QED
    BY <2>2, <2>3
<1> QED
  BY <1>7, <1>8, <1>9

\* A delivery: the UI asks the student just when the program waits for them.
LEMMA DeliveryKeepsTurn ==
  ASSUME TypeInv, RunInv, Turn(sid), ui' \in Busy, DeliverEvent, UNCHANGED workerVars
  PROVE  ui \in Busy /\ Turn(sid)'
<1> DEFINE e == Head(fromWorker)
<1>1. /\ ui \in Busy /\ gen = sid /\ UNCHANGED << ses, gen, sid >> /\ sid # None
  BY DeliveryPlaces, DeliveryEffect, TypesKnown DEF workerVars, Terminal, Busy, RunInv, RunTracked
<1>2. /\ 1 \in 1 .. Len(fromWorker) /\ e = fromWorker[1]
      /\ \A i \in 1 .. Len(fromWorker') :
           /\ fromWorker'[i] = fromWorker[i + 1]
           /\ i + 1 \in 1 .. Len(fromWorker) /\ i + 1 # 1
  BY DeliveryPlaces
<1>3. /\ \/ UNCHANGED << toWorker, pending >>
         \/ toWorker' = pending /\ pending' = << >> /\ toWorker = << >>
      /\ Len(<< >>) = 0
  BY DeliveryPlaces
<1>4. OnWorkerEvent(e)
  BY DeliveryPlaces
<1>5. /\ NoAnswer(sid) => NoAnswer(sid)'
      /\ NoneSaid(sid) => NoneSaid(sid)'
  <2>1. NoAnswer(sid) => NoAnswer(sid)'
    BY <1>1, <1>3 DEF NoAnswer
  <2>2. NoneSaid(sid) => NoneSaid(sid)'
    BY <1>1, <1>2 DEF NoneSaid
  <2> QED
    BY <2>1, <2>2
<1>6. ASSUME UNCHANGED ui PROVE AskIsLast(sid)'
  <2> SUFFICES ASSUME NEW i \in 1 .. Len(fromWorker'), Asks(fromWorker'[i], sid)
               PROVE  /\ ui = "running" /\ ses[sid].pc = WaitsAfter(fromWorker'[i])
                      /\ fromWorker'[i].type = "paused" => fromWorker'[i].step = ses[sid].steps
                      /\ NoAnswer(sid)'
                      /\ \A j \in 1 .. Len(fromWorker') : fromWorker'[j].sid = sid => j <= i
    BY <1>1, <1>6 DEF AskIsLast, Asks, WaitsAfter
  <2>1. /\ ui = "running" /\ ses[sid].pc = WaitsAfter(fromWorker[i + 1])
        /\ fromWorker[i + 1].type = "paused" => fromWorker[i + 1].step = ses[sid].steps
        /\ NoAnswer(sid)
        /\ \A j \in 1 .. Len(fromWorker) : fromWorker[j].sid = sid => j <= i + 1
    BY <1>2 DEF Turn, AskIsLast
  <2>2. ASSUME NEW j \in 1 .. Len(fromWorker'), fromWorker'[j].sid = sid PROVE j <= i
    <3>1. j + 1 <= i + 1
      BY <1>2, <2>1, <2>2
    <3> QED
      BY <3>1
  <2> QED
    BY <1>2, <1>5, <2>1, <2>2
<1>7. CASE ~IsCurrent(e)
  <2>1. UNCHANGED << ui, loc >>
    BY <1>4, <1>7 DEF OnWorkerEvent
  <2>2. SuspendedTogether(sid)'
    BY <1>1, <1>5, <2>1 DEF Turn, SuspendedTogether
  <2>3. AnswerIsAwaited(toWorker, sid)' /\ AnswerIsAwaited(pending, sid)'
    BY <1>1, <1>3, <1>5, <2>1 DEF Turn, AnswerIsAwaited
  <2> QED
    BY <1>1, <1>6, <2>1, <2>2, <2>3 DEF Turn
<1>8. CASE IsCurrent(e)
  <2>1. e.sid = sid
    BY <1>1, <1>8 DEF IsCurrent
  <2>2. ui = "running" /\ NoAnswer(sid)
    <3>1. ~NoneSaid(sid)
      BY <1>2, <2>1 DEF NoneSaid
    <3> QED
      BY <1>1, <3>1 DEF Turn, SuspendedTogether, AnswerIsAwaited, NoAnswer, Busy
  <2>3. NoAnswer(sid)'
    BY <1>5, <2>2
  <2>4. CASE OnSuspend(e)
    <3>1. Asks(e, sid)
      BY <2>1, <2>4 DEF Asks, OnSuspend
    <3>2. /\ ses[sid].pc = WaitsAfter(e)
          /\ e.type = "paused" => e.step = ses[sid].steps
          /\ \A j \in 1 .. Len(fromWorker) : fromWorker[j].sid = sid => j <= 1
      BY <1>2, <3>1 DEF Turn, AskIsLast
    <3>3. NoneSaid(sid)'
      <4>1. \A i \in 1 .. Len(fromWorker') : fromWorker'[i].sid # sid
        BY <1>2, <3>2
      <4> QED
        BY <1>1, <4>1 DEF NoneSaid
    <3>4. /\ ui' = IF e.type = "paused" THEN "paused" ELSE "waitingForInput"
          /\ loc' = IF e.type = "paused" THEN e.step ELSE loc
          /\ e.type \in { "paused", "inputRequest" }
      BY <2>4 DEF OnSuspend
    <3>5. SuspendedTogether(sid)'
      <4>1. ses'[sid'].pc = (IF ui' = "paused" THEN "parked" ELSE "input")
        BY <1>1, <3>2, <3>4 DEF WaitsAfter
      <4>2. ui' = "paused" => loc' = ses'[sid'].steps
        BY <1>1, <3>2, <3>4
      <4> QED
        BY <2>3, <3>3, <4>1, <4>2 DEF SuspendedTogether
    <3>6. AskIsLast(sid)'
      BY <3>3 DEF AskIsLast, NoneSaid, Asks
    <3> QED
      BY <1>1, <2>3, <3>5, <3>6 DEF Turn, AnswerIsAwaited, NoAnswer
  <2>5. CASE OnOutput(e) \/ OnResumed(e)
    <3>1. ui' = ui
      BY <2>2, <2>5 DEF OnOutput, OnResumed
    <3> QED
      BY <1>1, <1>6, <2>2, <2>3, <3>1 DEF Turn, SuspendedTogether, AnswerIsAwaited, NoAnswer
  <2>6. CASE OnTerminal(e) \/ OnRunRejected(e)
    <3>1. ui' \in Terminal
      BY <2>6 DEF OnTerminal, OnRunRejected, Finish, Terminal
    <3> QED
      BY <3>1 DEF Terminal, Busy
  <2> QED
    BY <1>4, <1>8, <2>4, <2>5, <2>6 DEF OnWorkerEvent
<1> QED
  BY <1>1, <1>7, <1>8

\* A click: the student answers only what was asked, and once.
LEMMA ClickKeepsTurn ==
  ASSUME TypeInv, RunInv, OrderInv, ui \in Busy => Turn(sid) \/ sid \in lost,
         ui' \in Busy, sid' \notin lost, Student
  PROVE  Turn(sid)'
<1>1. /\ UNCHANGED << ses, fromWorker >> /\ gen \in Nat
      /\ \A t \in Session : t \in Nat
  BY StudentOutcome, TypesKnown DEF workerVars
<1>2. PICK cmds \in Seq(Command) :
        /\ Post(cmds)
        /\ Reruns(cmds) \/ Stops(cmds) \/ Replies(cmds) \/ Remarks(cmds)
  BY StudentOutcome
<1>3. /\ Len(cmds) \in Nat /\ Len(toWorker) \in Nat /\ Len(pending) \in Nat
      /\ \A i \in 1 .. Len(toWorker') :
           \/ i \in 1 .. Len(toWorker) /\ toWorker'[i] = toWorker[i]
           \/ /\ i > Len(toWorker) /\ i - Len(toWorker) \in 1 .. Len(cmds)
              /\ toWorker'[i] = cmds[i - Len(toWorker)]
      /\ \A i \in 1 .. Len(pending') :
           \/ i \in 1 .. Len(pending) /\ pending'[i] = pending[i]
           \/ /\ i > Len(pending) /\ i - Len(pending) \in 1 .. Len(cmds)
              /\ pending'[i] = cmds[i - Len(pending)]
  BY <1>2, PostPlaces, TypesKnown, LenProperties
<1>4. CASE Reruns(cmds)
  <2>1. /\ gen < gen' /\ sid' = gen' /\ gen' \in Session /\ gen' \in Nat /\ ui' = "running"
        /\ \A i \in 1 .. Len(cmds) : cmds[i].type \in { "run", "stop" }
    BY <1>1, <1>4 DEF Reruns, IsRun
  <2>2. /\ \A i \in 1 .. Len(toWorker) : toWorker[i].sid # sid'
        /\ \A i \in 1 .. Len(pending) : pending[i].sid # sid'
        /\ \A i \in 1 .. Len(fromWorker) : fromWorker[i].sid # sid'
    <3>1. ~(gen' <= gen)
      BY <1>1, <2>1
    <3> QED
      BY <2>1, <3>1 DEF RunInv, Issued
  <2>3. NoAnswer(sid)'
    <3>1. \A i \in 1 .. Len(toWorker') : ~Answers(toWorker'[i], sid')
      BY <1>3, <2>1, <2>2 DEF Answers
    <3>2. \A i \in 1 .. Len(pending') : ~Answers(pending'[i], sid')
      BY <1>3, <2>1, <2>2 DEF Answers
    <3> QED
      BY <3>1, <3>2 DEF NoAnswer
  <2>4. AskIsLast(sid)'
    BY <1>1, <2>2 DEF AskIsLast, Asks
  <2> QED
    BY <2>1, <2>3, <2>4 DEF Turn, SuspendedTogether, AnswerIsAwaited, NoAnswer
<1>5. CASE Stops(cmds)
  BY <1>5 DEF Stops, Busy
<1>6. CASE Replies(cmds)
  <2>1. /\ ui \in { "paused", "waitingForInput" } /\ ui' = "running" /\ sid' = sid
        /\ \A i \in 1 .. Len(cmds) : i = 1
        /\ 1 \in 1 .. Len(cmds) /\ Len(cmds) = 1
        /\ cmds[1].type = IF ui = "paused" THEN "resume" ELSE "input"
    BY <1>6 DEF Replies
  <2>2. Turn(sid)
    BY <1>1, <2>1, StudentOutcome DEF Busy, workerVars
  <2>3. NoAnswer(sid) /\ NoneSaid(sid) /\ ses[sid].pc = AwaitedBy(cmds[1])
    BY <2>1, <2>2 DEF Turn, SuspendedTogether, AwaitedBy
  <2>4. NoneSaid(sid)'
    BY <1>1, <2>1, <2>3 DEF NoneSaid
  <2>5. AnswerIsAwaited(toWorker, sid)'
    <3>1. \A i \in 1 .. Len(toWorker') : Answers(toWorker'[i], sid) =>
            i = Len(toWorker) + 1 /\ toWorker'[i] = cmds[1]
      <4> SUFFICES ASSUME NEW i \in 1 .. Len(toWorker'), Answers(toWorker'[i], sid)
                   PROVE  i = Len(toWorker) + 1 /\ toWorker'[i] = cmds[1]
        OBVIOUS
      <4>1. /\ i - Len(toWorker) \in 1 .. Len(cmds)
            /\ toWorker'[i] = cmds[i - Len(toWorker)]
        BY <1>3, <2>3 DEF NoAnswer
      <4>2. i - Len(toWorker) = 1
        BY <2>1, <4>1
      <4> QED
        BY <1>3, <4>1, <4>2
    <3> QED
      BY <1>1, <2>1, <2>3, <2>4, <3>1 DEF AnswerIsAwaited
  <2>6. AnswerIsAwaited(pending, sid)'
    <3>1. \A i \in 1 .. Len(pending') : Answers(pending'[i], sid) =>
            i = Len(pending) + 1 /\ pending'[i] = cmds[1]
      <4> SUFFICES ASSUME NEW i \in 1 .. Len(pending'), Answers(pending'[i], sid)
                   PROVE  i = Len(pending) + 1 /\ pending'[i] = cmds[1]
        OBVIOUS
      <4>1. /\ i - Len(pending) \in 1 .. Len(cmds)
            /\ pending'[i] = cmds[i - Len(pending)]
        BY <1>3, <2>3 DEF NoAnswer
      <4>2. i - Len(pending) = 1
        BY <2>1, <4>1
      <4> QED
        BY <1>3, <4>1, <4>2
    <3> QED
      BY <1>1, <2>1, <2>3, <2>4, <3>1 DEF AnswerIsAwaited
  <2>7. AskIsLast(sid)'
    BY <2>4 DEF AskIsLast, NoneSaid, Asks
  <2>8. SuspendedTogether(sid)'
    BY <2>1 DEF SuspendedTogether
  <2> QED
    BY <2>5, <2>6, <2>7, <2>8 DEF Turn
<1>7. CASE Remarks(cmds)
  <2>1. /\ UNCHANGED << ui, sid, loc >>
        /\ \A i \in 1 .. Len(cmds) : cmds[i].type \in { "pause", "setBreakpoints" }
    BY <1>7 DEF Remarks
  <2>2. Turn(sid)
    BY <2>1, StudentOutcome DEF workerVars
  <2>3. /\ \A i \in 1 .. Len(toWorker') : Answers(toWorker'[i], sid) =>
             i \in 1 .. Len(toWorker) /\ toWorker'[i] = toWorker[i]
        /\ \A i \in 1 .. Len(pending') : Answers(pending'[i], sid) =>
             i \in 1 .. Len(pending) /\ pending'[i] = pending[i]
    BY <1>3, <2>1 DEF Answers
  <2>4. NoAnswer(sid) => NoAnswer(sid)'
    BY <2>1, <2>3 DEF NoAnswer
  <2>5. AnswerIsAwaited(toWorker, sid)'
    BY <1>1, <2>1, <2>2, <2>3 DEF Turn, AnswerIsAwaited, NoneSaid
  <2>6. AnswerIsAwaited(pending, sid)'
    BY <1>1, <2>1, <2>2, <2>3 DEF Turn, AnswerIsAwaited, NoneSaid
  <2>7. AskIsLast(sid)'
    BY <1>1, <2>1, <2>2, <2>4 DEF Turn, AskIsLast
  <2>8. SuspendedTogether(sid)'
    BY <1>1, <2>1, <2>2, <2>4 DEF Turn, SuspendedTogether, NoneSaid
  <2> QED
    BY <2>5, <2>6, <2>7, <2>8 DEF Turn
<1> QED
  BY <1>2, <1>4, <1>5, <1>6, <1>7

\* A killed worker: only a run that it never saw, or that had said its last
\* word and been heard, is not lost; the UI does not wait for that one.
LEMMA KillKeepsTurn ==
  ASSUME TypeInv, RunInv, ui \in Busy /\ sid \notin lost => Turn(sid),
         ui' \in Busy, sid' \notin lost', Kills
  PROVE  Turn(sid)'
<1>1. UNCHANGED << ui, sid >> /\ ui \in Busy /\ sid \in Session /\ sid # None
  BY KillEffect, TypesKnown DEF Busy
<1>2. sid \notin lost /\ ses[sid].pc \in { "none", "ended" }
  BY <1>1, KillEffect
<1>3. ui = "running"
  BY <1>1, <1>2, NobodyWaits
<1>4. /\ \A i \in 1 .. Len(toWorker') : ~Answers(toWorker'[i], sid')
      /\ \A i \in 1 .. Len(pending') : ~Answers(pending'[i], sid')
      /\ \A i \in 1 .. Len(fromWorker') : ~Asks(fromWorker'[i], sid')
  BY <1>1, KillEffect DEF Asks
<1> QED
  BY <1>1, <1>3, <1>4 DEF Turn, AskIsLast, SuspendedTogether, AnswerIsAwaited

\* TurnInv is inductive, relative to the types, RunInv and OrderInv.
LEMMA NextKeepsTurn ==
  TypeInv /\ RunInv /\ OrderInv /\ TurnInv /\ [Next]_vars => TurnInv'
<1> SUFFICES ASSUME TypeInv, RunInv, OrderInv, TurnInv, [Next]_vars,
                    ui' \in Busy, sid' \notin lost'
             PROVE  Turn(sid)'
  BY DEF TurnInv, Turn
<1>1. ui \in Busy /\ sid \notin lost => Turn(sid)
  BY DEF TurnInv, Turn
<1>2. CASE Student
  <2>1. lost' = lost
    BY <1>2, StudentOutcome DEF workerVars
  <2> QED
    BY <1>1, <1>2, <2>1, ClickKeepsTurn
<1>3. CASE DeliverEvent /\ UNCHANGED workerVars
  <2>1. ui \in Busy /\ sid \notin lost
    BY <1>3, DeliveryPlaces, DeliveryEffect DEF workerVars, Terminal, Busy
  <2> QED
    BY <1>1, <1>3, <2>1, DeliveryKeepsTurn
<1>4. CASE Kills
  BY <1>1, <1>4, KillKeepsTurn
<1>5. CASE Worker
  <2>1. UNCHANGED << ui, gen, sid, loc, pending, mainOnly >>
    BY <1>5 DEF Worker, mainOnly, runVars
  <2>2. ui \in Busy /\ sid \in Session /\ sid # None /\ lost' = lost
    BY <1>5, <2>1, TypesKnown
    DEF Worker, HandleWorkerCommand, Crash, SessionStep, Begin, EndUnrun, FirstStatement, Tick,
        ResumeFromGate, TimerFires, RunRejects
  <2>3. Turn(sid)
    BY <1>1, <2>1, <2>2
  <2>4. CASE HandleWorkerCommand
    BY <2>1, <2>2, <2>3, <2>4, CommandKeepsTurn
  <2>5. ASSUME NEW s \in Session, SessionStep(s) \/ RunRejects(s) PROVE Turn(sid)'
    <3>1. Moves(s) /\ UNCHANGED toWorker
      BY <2>5, SessionOutcome
    <3>2. PICK events : Speaks(s, events)
      BY <2>5, SessionOutcome
    <3>3. CASE s = sid
      <4>1. Turn(s)'
        BY <2>1, <2>2, <2>3, <3>1, <3>2, <3>3, MoverKeepsTurn
      <4> QED
        BY <2>1, <3>3, <4>1 DEF Turn, AskIsLast, SuspendedTogether, AnswerIsAwaited, NoAnswer,
                               NoneSaid, Asks, Answers
    <3>4. CASE s # sid
      <4>1. /\ events \in Seq(Event) /\ fromWorker' = fromWorker \o events
            /\ \A i \in 1 .. Len(events) : events[i].sid # sid
        BY <3>2, <3>4 DEF Speaks, Says
      <4>2. ses'[sid] = ses[sid] \/ ses[sid].pc = "queued"
        BY <2>2, <3>1, <3>4, MoveClasses
      <4> DEFINE r == sid
      <4>3. r \in Session /\ Turn(r) /\ r' = r
        BY <2>1, <2>2, <2>3
      <4> QED
        BY <2>1, <2>2, <2>3, <3>1, <4>1, <4>2, OthersKeepTurn
    <3> QED
      BY <3>3, <3>4
  <2>6. CASE Crash
    <3>1. UNCHANGED << toWorker, ses >>
      BY <2>6 DEF Crash
    <3>2. PICK events \in Seq(Event) :
            /\ fromWorker' = fromWorker \o events
            /\ \A i \in 1 .. Len(events) : events[i].sid = None
      BY <2>6, CrashPosts
    <3> QED
      BY <2>1, <2>2, <2>3, <3>1, <3>2, OthersKeepTurn
  <2> QED
    BY <1>5, <2>4, <2>5, <2>6 DEF Worker
<1>6. CASE UNCHANGED vars
  BY <1>1, <1>6 DEF vars, mainVars, workerVars, runVars, portVars, Turn, AskIsLast,
     SuspendedTogether, AnswerIsAwaited, NoAnswer, NoneSaid, Asks, Answers
<1> QED
  BY <1>2, <1>3, <1>4, <1>5, <1>6 DEF Next, Deliver, Host, Kills

-----------------------------------------------------------------------------
(* OutputInv is inductive                                                  *)

\* As many places remain as there were when all move up by one.
LEMMA ShiftCounts ==
  ASSUME NEW S, NEW T, IsFiniteSet(S), S \subseteq Nat, T \subseteq Nat,
         \A i \in T : i + 1 \in S, \A i \in S : i - 1 \in T
  PROVE  Cardinality(T) = Cardinality(S)
<1> DEFINE F == [ i \in S |-> i - 1 ]
<1>1. F \in [ S -> T ] /\ \A i \in S : F[i] = i - 1
  OBVIOUS
<1>2. \A a, b \in S : F[a] = F[b] => a = b
  BY <1>1
<1>3. \A t \in T : \E i \in S : F[i] = t
  BY <1>1
<1> HIDE DEF F
<1>4. F \in Bijection(S, T)
  BY <1>1, <1>2, <1>3, Fun_IsBij
<1>5. ExistsBijection(S, T)
  BY <1>4 DEF ExistsBijection
<1> QED
  BY <1>5, FS_Bijection

\* The lines in flight can be counted.
LEMMA OutputsCounted ==
  ASSUME TypeInv, NEW s
  PROVE  /\ IsFiniteSet(OutputsOf(s)) /\ Cardinality(OutputsOf(s)) \in Nat
         /\ OutputsOf(s) \subseteq Nat
<1>1. Len(fromWorker) \in Nat /\ 1 \in Int /\ Len(fromWorker) \in Int
  BY TypesKnown, LenProperties
<1>2. IsFiniteSet(1 .. Len(fromWorker))
  BY <1>1, FS_Interval
<1>3. OutputsOf(s) \in SUBSET (1 .. Len(fromWorker))
  BY DEF OutputsOf
<1>4. IsFiniteSet(OutputsOf(s))
  BY <1>2, <1>3, FS_Subset
<1> QED
  BY <1>1, <1>3, <1>4, FS_CardinalityType

\* Who prints nothing keeps the count.
LEMMA OutputsKept ==
  ASSUME TypeInv, NEW s, NEW events \in Seq(Event), fromWorker' = fromWorker \o events,
         \A i \in 1 .. Len(events) : ~(events[i].type = "output" /\ events[i].sid = s)
  PROVE  { i \in 1 .. Len(fromWorker') :
             fromWorker'[i].type = "output" /\ fromWorker'[i].sid = s } = OutputsOf(s)
<1>1. /\ \A i \in 1 .. Len(fromWorker') :
           \/ i \in 1 .. Len(fromWorker) /\ fromWorker'[i] = fromWorker[i]
           \/ ~(fromWorker'[i].type = "output" /\ fromWorker'[i].sid = s)
      /\ \A i \in 1 .. Len(fromWorker) :
           i \in 1 .. Len(fromWorker') /\ fromWorker'[i] = fromWorker[i]
  BY EventPlaces
<1> QED
  BY <1>1 DEF OutputsOf

\* A line printed is one more.
LEMMA OutputsGrow ==
  ASSUME TypeInv, NEW s, NEW events \in Seq(Event), fromWorker' = fromWorker \o events,
         NEW n \in 1 .. Len(events),
         \A i \in 1 .. Len(events) : events[i].type = "output" /\ events[i].sid = s <=> i = n
  PROVE  Cardinality({ i \in 1 .. Len(fromWorker') :
                         fromWorker'[i].type = "output" /\ fromWorker'[i].sid = s })
           = Cardinality(OutputsOf(s)) + 1
<1> DEFINE new == { i \in 1 .. Len(fromWorker') :
                      fromWorker'[i].type = "output" /\ fromWorker'[i].sid = s }
<1> DEFINE at == n + Len(fromWorker)
<1>1. /\ Len(fromWorker) \in Nat /\ Len(events) \in Nat
      /\ \A i \in 1 .. Len(fromWorker') :
           \/ i \in 1 .. Len(fromWorker) /\ fromWorker'[i] = fromWorker[i]
           \/ /\ i > Len(fromWorker) /\ i - Len(fromWorker) \in 1 .. Len(events)
              /\ fromWorker'[i] = events[i - Len(fromWorker)]
      /\ \A i \in 1 .. Len(fromWorker) :
           i \in 1 .. Len(fromWorker') /\ fromWorker'[i] = fromWorker[i]
      /\ at \in 1 .. Len(fromWorker') /\ fromWorker'[at] = events[n]
  BY EventPlaces
<1>2. at \in new /\ at \notin OutputsOf(s)
  BY <1>1 DEF OutputsOf
<1>3. OutputsOf(s) \subseteq new
  BY <1>1 DEF OutputsOf
<1>4. ASSUME NEW i \in new PROVE i \in OutputsOf(s) \cup { at }
  <2>1. CASE i \in 1 .. Len(fromWorker) /\ fromWorker'[i] = fromWorker[i]
    BY <1>4, <2>1 DEF OutputsOf
  <2>2. CASE /\ i > Len(fromWorker) /\ i - Len(fromWorker) \in 1 .. Len(events)
             /\ fromWorker'[i] = events[i - Len(fromWorker)]
    <3>1. i - Len(fromWorker) = n
      BY <1>4, <2>2
    <3>2. i = at
      BY <1>1, <1>4, <3>1
    <3> QED
      BY <3>2
  <2> QED
    BY <1>1, <1>4, <2>1, <2>2
<1>5. new = OutputsOf(s) \cup { at }
  BY <1>2, <1>3, <1>4
<1> HIDE DEF new, at
<1>6. Cardinality(new) = Cardinality(OutputsOf(s)) + 1
  BY <1>2, <1>5, OutputsCounted, FS_AddElement
<1> QED
  BY <1>6 DEF new

\* A line delivered is one less; any other delivery keeps the count.
LEMMA OutputsShrink ==
  ASSUME TypeInv, RunInv, DeliverEvent, NEW s
  PROVE  LET e == Head(fromWorker)
             new == { i \in 1 .. Len(fromWorker') :
                        fromWorker'[i].type = "output" /\ fromWorker'[i].sid = s }
         IN  Cardinality(OutputsOf(s)) =
               Cardinality(new) + (IF e.type = "output" /\ e.sid = s THEN 1 ELSE 0)
<1> DEFINE e == Head(fromWorker)
<1> DEFINE new == { i \in 1 .. Len(fromWorker') :
                      fromWorker'[i].type = "output" /\ fromWorker'[i].sid = s }
<1> DEFINE old == OutputsOf(s) \ { 1 }
<1>1. /\ e = fromWorker[1] /\ 1 \in 1 .. Len(fromWorker) /\ Len(fromWorker) \in Nat
      /\ \A i \in 1 .. Len(fromWorker') :
           /\ fromWorker'[i] = fromWorker[i + 1]
           /\ i + 1 \in 1 .. Len(fromWorker) /\ i + 1 # 1
      /\ \A i \in 1 .. Len(fromWorker) : i # 1 =>
           i - 1 \in 1 .. Len(fromWorker') /\ fromWorker'[i - 1] = fromWorker[i]
      /\ Len(fromWorker') = Len(fromWorker) - 1
  BY DeliveryPlaces
<1>2. IsFiniteSet(OutputsOf(s)) /\ Cardinality(OutputsOf(s)) \in Nat /\ OutputsOf(s) \subseteq Nat
  BY OutputsCounted
<1>3. 1 \in OutputsOf(s) <=> e.type = "output" /\ e.sid = s
  BY <1>1 DEF OutputsOf
<1>4. /\ IsFiniteSet(old)
      /\ Cardinality(old) = IF 1 \in OutputsOf(s) THEN Cardinality(OutputsOf(s)) - 1
                            ELSE Cardinality(OutputsOf(s))
  BY <1>2, FS_RemoveElement
<1>5. /\ \A i \in new : i + 1 \in old
      /\ \A i \in old : i - 1 \in new
      /\ new \subseteq Nat /\ old \subseteq Nat
  BY <1>1 DEF OutputsOf
<1> HIDE DEF new, old
<1>6. Cardinality(new) = Cardinality(old)
  BY <1>4, <1>5, ShiftCounts
<1>7. Cardinality(OutputsOf(s)) =
        Cardinality(new) + (IF e.type = "output" /\ e.sid = s THEN 1 ELSE 0)
  BY <1>2, <1>3, <1>4, <1>6
<1> QED
  BY <1>7 DEF new

\* Nothing in flight is no line in flight.
LEMMA OutputsNone ==
  ASSUME NEW s, \A i \in 1 .. Len(fromWorker) : fromWorker[i].sid # s
  PROVE  Cardinality(OutputsOf(s)) = 0
<1>1. OutputsOf(s) = {}
  BY DEF OutputsOf
<1> QED
  BY <1>1, FS_EmptySet

\* OutputInv is inductive, relative to the types and RunInv.
LEMMA NextKeepsOutput == TypeInv /\ RunInv /\ OutputInv /\ [Next]_vars => OutputInv'
<1> SUFFICES ASSUME TypeInv, RunInv, OutputInv, [Next]_vars PROVE OutputInv'
  OBVIOUS
<1> DEFINE Printed == { i \in 1 .. Len(fromWorker') :
                          fromWorker'[i].type = "output" /\ fromWorker'[i].sid = sid }
<1>1. /\ gen = 0 => ui = "idle"
      /\ \A s \in Session : gen < s => said[s] = 0 /\ delivered[s] = 0
      /\ gen = sid /\ sid # 0 /\ sid \notin lost =>
           said[sid] = delivered[sid] + Cardinality(OutputsOf(sid))
  BY DEF OutputInv
<1>2. /\ gen \in Nat /\ sid \in Nat /\ sid <= gen /\ said \in [ Session -> Nat ]
      /\ delivered \in [ Session -> Nat ] /\ \A s \in Session : s \in Nat /\ s # 0
      /\ gen # 0 => gen \in Session
      /\ Cardinality(OutputsOf(sid)) \in Nat
  BY TypesKnown, OutputsCounted DEF TypeInv, TypeOK, MainTypeOK, WorkerTypeOK, Session
<1>3. UNCHANGED sid => OutputsOf(sid)' = Printed
  BY DEF OutputsOf
<1> HIDE DEF Printed
<1>4. ASSUME UNCHANGED << ui, gen, sid, said, delivered, lost >>,
             Printed = OutputsOf(sid)
      PROVE  OutputInv'
  BY <1>1, <1>3, <1>4 DEF OutputInv
<1>5. CASE Student
  <2>1. UNCHANGED << lost, said, delivered, fromWorker >>
    BY <1>5, StudentOutcome DEF workerVars
  <2>2. gen' \in Nat /\ gen <= gen'
    BY <1>5, ClickPlaces
  <2>3. \A s \in Session : gen' < s => said'[s] = 0 /\ delivered'[s] = 0
    BY <1>1, <1>2, <2>1, <2>2
  <2>4. PICK cmds : Reruns(cmds) \/ Stops(cmds) \/ Replies(cmds) \/ Remarks(cmds)
    BY <1>5, StudentOutcome
  <2>5. Printed = { i \in 1 .. Len(fromWorker) :
                      fromWorker[i].type = "output" /\ fromWorker[i].sid = sid }
    BY <2>1 DEF Printed
  <2>6. CASE Reruns(cmds)
    <3>1. gen < gen' /\ sid' = gen' /\ gen' \in Session
      BY <2>6 DEF Reruns
    <3>2. \A i \in 1 .. Len(fromWorker) : fromWorker[i].sid # gen'
      <4>1. ~(gen' <= gen)
        BY <1>2, <2>2, <3>1
      <4> QED
        BY <4>1 DEF RunInv, Issued
    <3>3. OutputsOf(sid)' = {}
      BY <2>1, <3>1, <3>2 DEF OutputsOf
    <3>4. said'[sid'] = 0 /\ delivered'[sid'] = 0 /\ Cardinality(OutputsOf(sid)') = 0
      BY <1>1, <2>1, <3>1, <3>3, FS_EmptySet
    <3> QED
      BY <1>2, <2>2, <2>3, <3>1, <3>4 DEF OutputInv
  <2>7. CASE Stops(cmds)
    <3>1. gen' = gen + 1 /\ sid' = sid
      BY <2>7 DEF Stops
    <3> QED
      BY <1>2, <2>3, <3>1 DEF OutputInv
  <2>8. CASE Replies(cmds)
    <3>1. UNCHANGED << gen, sid >> /\ ui # "idle"
      BY <2>8 DEF Replies
    <3>2. gen' # 0
      BY <1>1, <3>1
    <3>3. OutputsOf(sid)' = OutputsOf(sid)
      BY <1>3, <2>5, <3>1 DEF OutputsOf
    <3> QED
      BY <1>1, <2>1, <3>1, <3>2, <3>3 DEF OutputInv
  <2>9. CASE Remarks(cmds)
    <3>1. UNCHANGED << ui, gen, sid >>
      BY <2>9 DEF Remarks
    <3>2. Printed = OutputsOf(sid)
      BY <2>5 DEF OutputsOf
    <3> QED
      BY <1>4, <2>1, <3>1, <3>2
  <2> QED
    BY <2>4, <2>6, <2>7, <2>8, <2>9
<1>6. CASE DeliverEvent /\ UNCHANGED workerVars
  <2> DEFINE e == Head(fromWorker)
  <2>1. UNCHANGED << gen, sid, said, lost >> /\ OnWorkerEvent(e)
    BY <1>6, DeliveryPlaces DEF workerVars
  <2>2. gen' = 0 => ui' = "idle"
    <3>1. ui = "idle" => ui' = ui
      BY <1>6, DeliveryEffect DEF Busy
    <3> QED
      BY <1>1, <2>1, <3>1
  <2>3. Cardinality(OutputsOf(sid)) =
          Cardinality(Printed) + (IF e.type = "output" /\ e.sid = sid THEN 1 ELSE 0)
    BY <1>6, OutputsShrink DEF Printed
  <2>4. delivered' = IF IsCurrent(e) /\ e.type = "output" THEN [ delivered EXCEPT ![sid] = @ + 1 ]
                 ELSE delivered
    BY <2>1 DEF OnWorkerEvent, OnSuspend, OnOutput, OnResumed, OnTerminal, OnRunRejected, Terminal
  <2>5. \A s \in Session : gen' < s => said'[s] = 0 /\ delivered'[s] = 0
    <3>1. \A s \in Session : s # sid => delivered'[s] = delivered[s]
      BY <1>2, <2>4
    <3>2. \A s \in Session : gen < s => s # sid
      BY <1>2
    <3> QED
      BY <1>1, <2>1, <3>1, <3>2
  <2>6. ASSUME gen = sid, sid # 0, sid \notin lost
        PROVE  said[sid] = delivered'[sid] + Cardinality(Printed)
    <3>1. IsCurrent(e) <=> e.sid = sid
      BY <2>6 DEF IsCurrent, None
    <3>2. /\ sid \in Session /\ said[sid] = delivered[sid] + Cardinality(OutputsOf(sid))
          /\ delivered[sid] \in Nat
      BY <1>1, <1>2, <2>6
    <3>3. e.type = "output" /\ e.sid = sid => delivered'[sid] = delivered[sid] + 1
      BY <1>2, <2>4, <3>1, <3>2
    <3>4. ~(e.type = "output" /\ e.sid = sid) => delivered'[sid] = delivered[sid]
      BY <2>4, <3>1
    <3>5. Cardinality(Printed) \in Nat
      <4>1. Printed \in SUBSET (1 .. Len(fromWorker')) /\ Len(fromWorker') \in Nat
        BY <1>6, TypesKnown, TailPlaces DEF DeliverEvent, Printed
      <4>2. IsFiniteSet(1 .. Len(fromWorker'))
        BY <4>1, FS_Interval
      <4>3. IsFiniteSet(Printed)
        BY <4>1, <4>2, FS_Subset
      <4> QED
        BY <4>3, FS_CardinalityType
    <3> QED
      BY <1>2, <2>3, <3>2, <3>3, <3>4, <3>5
  <2>7. OutputsOf(sid)' = Printed
    BY <1>3, <2>1
  <2> QED
    BY <2>1, <2>2, <2>5, <2>6, <2>7 DEF OutputInv
<1>7. CASE Kills
  <2>1. /\ UNCHANGED << sid, said, delivered >> /\ lost \subseteq lost'
        /\ \/ UNCHANGED << ui, gen >>
           \/ ui \in Busy /\ ui' = "cancelled" /\ gen' = gen + 1
        /\ \A s \in Session \ lost' : \A i \in 1 .. Len(fromWorker) : fromWorker[i].sid # s
        /\ \A i \in 1 .. Len(fromWorker') : fromWorker'[i].sid = None
    BY <1>7, KillEffect
  <2>2. gen' = 0 => ui' = "idle"
    BY <1>1, <1>2, <2>1
  <2>3. gen' \in Nat /\ gen <= gen'
    BY <1>2, <2>1
  <2>4. \A s \in Session : gen' < s => said'[s] = 0 /\ delivered'[s] = 0
    BY <1>1, <1>2, <2>1, <2>3
  <2>5. ASSUME gen' = sid, sid # 0, sid \notin lost'
        PROVE  said[sid] = delivered[sid] + Cardinality(Printed)
    <3>1. gen = sid /\ sid \notin lost /\ sid \in Session
      BY <1>2, <2>1, <2>5
    <3>2. Cardinality(OutputsOf(sid)) = 0
      BY <2>1, <2>5, <3>1, OutputsNone
    <3>3. Printed = {}
      BY <1>2, <2>1, <3>1 DEF Printed, None
    <3> QED
      BY <1>1, <2>5, <3>1, <3>2, <3>3, FS_EmptySet
  <2>6. OutputsOf(sid)' = Printed
    BY <1>3, <2>1
  <2> QED
    BY <2>1, <2>2, <2>4, <2>5, <2>6 DEF OutputInv
<1>8. CASE Worker
  <2>1. UNCHANGED << ui, gen, sid, delivered >>
    BY <1>8 DEF Worker, mainOnly, runVars
  <2>2. CASE HandleWorkerCommand
    <3>1. UNCHANGED << said, lost, fromWorker >>
      BY <2>2, CommandOutcome
    <3>2. Printed = OutputsOf(sid)
      BY <3>1 DEF Printed, OutputsOf
    <3> QED
      BY <1>4, <2>1, <3>1, <3>2
  <2>3. CASE Crash
    <3>1. UNCHANGED << said, lost >>
      BY <2>3 DEF Crash
    <3>2. PICK events \in Seq(Event) :
            /\ fromWorker' = fromWorker \o events
            /\ \A i \in 1 .. Len(events) : events[i].sid = None
      BY <2>3, CrashPosts
    <3>3. CASE sid # 0
      <4>1. Printed = OutputsOf(sid)
        BY <3>2, <3>3, OutputsKept DEF Printed, None
      <4> QED
        BY <1>4, <2>1, <3>1, <4>1
    <3>4. CASE sid = 0
      BY <1>1, <2>1, <3>1, <3>4 DEF OutputInv
    <3> QED
      BY <3>3, <3>4
  <2>4. ASSUME NEW s \in Session, SessionStep(s) \/ RunRejects(s) PROVE OutputInv'
    <3>1. /\ lost' = lost /\ ses[s].pc # "none"
      BY <2>4 DEF SessionStep, Begin, EndUnrun, FirstStatement, Tick, ResumeFromGate,
                  TimerFires, RunRejects
    <3>2. PICK events : Speaks(s, events)
      BY <2>4, SessionOutcome
    <3>3. /\ events \in Seq(Event) /\ fromWorker' = fromWorker \o events
          /\ \A i \in 1 .. Len(events) :
               /\ events[i].sid = s
               /\ i # Len(events) => events[i].type = "resumed"
          /\ said' = IF \E i \in 1 .. Len(events) : events[i].type = "output"
                     THEN [ said EXCEPT ![s] = @ + 1 ] ELSE said
      BY <3>2 DEF Speaks, Says
    <3>4. s <= gen
      BY <3>1 DEF RunInv, Issued
    <3>5. \A t \in Session : gen < t => said'[t] = 0
      <4>1. \A t \in Session : gen < t => t # s
        BY <1>2, <3>4
      <4> QED
        BY <1>1, <1>2, <3>3, <4>1
    <3>6. ASSUME gen = sid, sid # 0, sid \notin lost
          PROVE  said'[sid] = delivered[sid] + Cardinality(Printed)
      <4>1. /\ sid \in Session /\ said[sid] \in Nat /\ delivered[sid] \in Nat
            /\ said[sid] = delivered[sid] + Cardinality(OutputsOf(sid))
        BY <1>1, <1>2, <3>6
      <4>2. CASE s = sid /\ \E i \in 1 .. Len(events) : events[i].type = "output"
        <5>1. PICK n \in 1 .. Len(events) : events[n].type = "output"
          BY <4>2
        <5>2. \A i \in 1 .. Len(events) :
                events[i].type = "output" /\ events[i].sid = sid <=> i = n
          BY <3>3, <4>2, <5>1
        <5>3. Cardinality(Printed) = Cardinality(OutputsOf(sid)) + 1
          BY <3>3, <5>2, OutputsGrow DEF Printed
        <5>4. said'[sid] = said[sid] + 1
          BY <1>2, <3>3, <4>1, <4>2
        <5> QED
          BY <1>2, <4>1, <5>3, <5>4
      <4>3. CASE ~(s = sid /\ \E i \in 1 .. Len(events) : events[i].type = "output")
        <5>1. said'[sid] = said[sid]
          BY <1>2, <3>3, <4>1, <4>3
        <5>2. \A i \in 1 .. Len(events) : ~(events[i].type = "output" /\ events[i].sid = sid)
          BY <3>3, <4>3
        <5>3. Printed = OutputsOf(sid)
          BY <3>3, <5>2, OutputsKept DEF Printed
        <5> QED
          BY <4>1, <5>1, <5>3
      <4> QED
        BY <4>2, <4>3
    <3>7. OutputsOf(sid)' = Printed
      BY <1>3, <2>1
    <3> QED
      BY <1>1, <2>1, <3>1, <3>5, <3>6, <3>7 DEF OutputInv
  <2> QED
    BY <1>8, <2>2, <2>3, <2>4 DEF Worker
<1>9. CASE UNCHANGED vars
  <2>1. UNCHANGED << ui, gen, sid, said, delivered, lost, fromWorker >>
    BY <1>9 DEF vars, mainVars, workerVars, runVars
  <2>2. Printed = OutputsOf(sid)
    BY <2>1 DEF Printed, OutputsOf
  <2> QED
    BY <1>4, <2>1, <2>2
<1> QED
  BY <1>5, <1>6, <1>7, <1>8, <1>9 DEF Next, Deliver, Host, Kills

-----------------------------------------------------------------------------
(* MessageUnderway is inductive                                            *)

\* The message that tells the student, or the worker, where the run is.
RunUnderway(s) ==
  \/ \E i \in 1 .. Len(toWorker) : IsRun(toWorker[i]) /\ toWorker[i].sid = s
  \/ \E i \in 1 .. Len(pending) : IsRun(pending[i]) /\ pending[i].sid = s
EndUnderway(s) ==
  \E i \in 1 .. Len(fromWorker) : IsFinal(fromWorker[i]) /\ fromWorker[i].sid = s
AskUnderway(s) == \E i \in 1 .. Len(fromWorker) : Asks(fromWorker[i], s)

Underway(s) ==
  /\ ses[s].pc = "none" => RunUnderway(s)
  /\ ses[s].pc = "ended" => EndUnderway(s)
  /\ ses[s].pc \in { "parked", "input" } =>
       \/ ui = (IF ses[s].pc = "parked" THEN "paused" ELSE "waitingForInput")
       \/ ~NoAnswer(s)
       \/ AskUnderway(s)

\* The run the UI is busy with is the newest, and the current one as long as
\* it lives.
LEMMA BusyIsCurrent ==
  ASSUME TypeInv, RunInv, OrderInv, ui \in Busy, ses[sid].pc \in Live
  PROVE  cur = sid
<1>1. sid \in Session /\ gen = sid
  BY TypesKnown DEF RunInv, RunTracked
<1>2. \A t \in Session : sid < t => ses[t].pc = "none"
  <2>1. \A t \in Session : sid < t => ~(t <= gen)
    BY <1>1, TypesKnown
  <2> QED
    BY <2>1 DEF RunInv, Issued
<1> QED
  BY <1>1, <1>2 DEF OrderInv, NewestIsCurrent

\* A new run is posted, an answer too.
LEMMA ClickKeepsUnderway ==
  ASSUME TypeInv, RunInv, ui \in Busy => Turn(sid) /\ Underway(sid) /\ port = "live",
         ui' \in Busy, Student
  PROVE  Underway(sid)' /\ port' = "live"
<1>1. /\ UNCHANGED << ses, fromWorker >> /\ gen \in Nat
      /\ \A t \in Session : t \in Nat
  BY StudentOutcome, TypesKnown DEF workerVars
<1>2. PICK cmds \in Seq(Command) :
        /\ Post(cmds)
        /\ Reruns(cmds) \/ Stops(cmds) \/ Replies(cmds) \/ Remarks(cmds)
  BY StudentOutcome
<1>3. /\ UNCHANGED port
      /\ \A i \in 1 .. Len(toWorker) : i \in 1 .. Len(toWorker') /\ toWorker'[i] = toWorker[i]
      /\ \A i \in 1 .. Len(pending) : i \in 1 .. Len(pending') /\ pending'[i] = pending[i]
      /\ port = "live" => \A i \in 1 .. Len(cmds) :
           \/ \E j \in 1 .. Len(toWorker') : toWorker'[j] = cmds[i]
           \/ \E j \in 1 .. Len(pending') : pending'[j] = cmds[i]
  BY <1>2, PostPlaces
<1>4. CASE Reruns(cmds)
  <2>1. /\ gen < gen' /\ sid' = gen' /\ gen' \in Session /\ gen' \in Nat /\ port = "live"
        /\ Len(cmds) \in 1 .. Len(cmds) /\ IsRun(cmds[Len(cmds)])
        /\ cmds[Len(cmds)].sid = gen'
    BY <1>1, <1>4 DEF Reruns
  <2>2. ses[sid'].pc = "none"
    <3>1. ~(gen' <= gen)
      BY <1>1, <2>1
    <3> QED
      BY <2>1, <3>1 DEF RunInv, Issued
  <2>3. RunUnderway(sid)'
    <3>1. \/ \E j \in 1 .. Len(toWorker') : toWorker'[j] = cmds[Len(cmds)]
          \/ \E j \in 1 .. Len(pending') : pending'[j] = cmds[Len(cmds)]
      BY <1>3, <2>1
    <3> QED
      BY <2>1, <3>1 DEF RunUnderway, IsRun
  <2>4. ses'[sid'].pc = "none"
    BY <1>1, <2>2
  <2> QED
    BY <1>3, <2>1, <2>3, <2>4 DEF Underway
<1>5. CASE Stops(cmds)
  BY <1>5 DEF Stops, Busy
<1>6. CASE Replies(cmds)
  <2>1. /\ ui \in { "paused", "waitingForInput" } /\ ui' = "running" /\ sid' = sid
        /\ 1 \in 1 .. Len(cmds) /\ cmds[1].sid = sid
        /\ cmds[1].type = IF ui = "paused" THEN "resume" ELSE "input"
    BY <1>6 DEF Replies
  <2>2. Turn(sid) /\ port = "live"
    BY <2>1 DEF Busy
  <2>3. ses[sid].pc \in { "parked", "input" }
    BY <2>1, <2>2 DEF Turn, SuspendedTogether
  <2>4. ~NoAnswer(sid)'
    <3>1. Answers(cmds[1], sid)
      BY <2>1 DEF Answers
    <3>2. \/ \E j \in 1 .. Len(toWorker') : toWorker'[j] = cmds[1]
          \/ \E j \in 1 .. Len(pending') : pending'[j] = cmds[1]
      BY <1>3, <2>1, <2>2
    <3> QED
      BY <2>1, <3>1, <3>2 DEF NoAnswer, Answers
  <2>5. ses'[sid'].pc \in { "parked", "input" }
    BY <1>1, <2>1, <2>3
  <2> QED
    BY <1>3, <2>2, <2>4, <2>5 DEF Underway
<1>7. CASE Remarks(cmds)
  <2>1. UNCHANGED << ui, sid >> /\ ui \in Busy
    BY <1>7 DEF Remarks
  <2>2. RunUnderway(sid) => RunUnderway(sid)'
    BY <1>3, <2>1 DEF RunUnderway
  <2>3. ~NoAnswer(sid) => ~NoAnswer(sid)'
    BY <1>3, <2>1 DEF NoAnswer
  <2>4. (EndUnderway(sid) => EndUnderway(sid)') /\ (AskUnderway(sid) => AskUnderway(sid)')
    BY <1>1, <2>1 DEF EndUnderway, AskUnderway
  <2> QED
    BY <1>1, <1>3, <2>1, <2>2, <2>3, <2>4 DEF Underway
<1> QED
  BY <1>2, <1>4, <1>5, <1>6, <1>7

\* What is delivered is counted; the rest is still on its way.
LEMMA DeliveryKeepsUnderway ==
  ASSUME TypeInv, RunInv, Turn(sid), Underway(sid), ui \in Busy, ui' \in Busy,
         DeliverEvent, UNCHANGED workerVars
  PROVE  Underway(sid)'
<1> DEFINE e == Head(fromWorker)
<1>1. gen = sid /\ sid # None /\ UNCHANGED << ses, gen, sid >> /\ OnWorkerEvent(e)
  BY DeliveryPlaces, TypesKnown DEF workerVars, RunInv, RunTracked
<1>2. /\ e = fromWorker[1]
      /\ \A i \in 1 .. Len(fromWorker) : i # 1 =>
           i - 1 \in 1 .. Len(fromWorker') /\ fromWorker'[i - 1] = fromWorker[i]
      /\ 1 \in 1 .. Len(fromWorker)
  BY DeliveryPlaces
<1>3. /\ RunUnderway(sid) => RunUnderway(sid)'
      /\ ~NoAnswer(sid) => ~NoAnswer(sid)'
  <2>1. /\ \/ UNCHANGED << toWorker, pending >>
           \/ toWorker' = pending /\ pending' = << >> /\ toWorker = << >>
        /\ Len(<< >>) = 0
    BY DeliveryPlaces
  <2>2. RunUnderway(sid) => RunUnderway(sid)'
    BY <1>1, <2>1 DEF RunUnderway
  <2>3. ~NoAnswer(sid) => ~NoAnswer(sid)'
    BY <1>1, <2>1 DEF NoAnswer
  <2> QED
    BY <2>2, <2>3
<1>4. EndUnderway(sid) => EndUnderway(sid)'
  <2>1. ~(IsFinal(e) /\ e.sid = sid)
    <3>1. ASSUME IsFinal(e), e.sid = sid PROVE ui' \in Terminal
      <4>1. IsCurrent(e) /\ e.type \in Terminal \cup { "workerError" }
        BY <1>1, <3>1 DEF IsCurrent, IsFinal
      <4> QED
        BY <1>1, <4>1 DEF OnWorkerEvent, OnSuspend, OnOutput, OnResumed, OnTerminal,
                         OnRunRejected, Finish, Terminal
    <3> QED
      BY <3>1 DEF Terminal, Busy
  <2>2. EndUnderway(sid) =>
          \E i \in 1 .. Len(fromWorker) : i # 1 /\ IsFinal(fromWorker[i]) /\ fromWorker[i].sid = sid
    BY <1>2, <2>1 DEF EndUnderway
  <2> QED
    BY <1>1, <1>2, <2>2 DEF EndUnderway
<1>5. ASSUME ses[sid].pc \in { "parked", "input" }
      PROVE  \/ ui' = (IF ses[sid].pc = "parked" THEN "paused" ELSE "waitingForInput")
             \/ ~NoAnswer(sid)' \/ AskUnderway(sid)'
  <2>1. CASE ui = (IF ses[sid].pc = "parked" THEN "paused" ELSE "waitingForInput")
    <3>1. NoneSaid(sid)
      BY <1>5, <2>1 DEF Turn, SuspendedTogether
    <3>2. ~IsCurrent(e)
      BY <1>1, <1>2, <3>1 DEF NoneSaid, IsCurrent
    <3> QED
      BY <1>1, <2>1, <3>2 DEF OnWorkerEvent
  <2>2. CASE ~NoAnswer(sid)
    BY <1>3, <2>2
  <2>3. CASE AskUnderway(sid)
    <3>1. PICK i \in 1 .. Len(fromWorker) : Asks(fromWorker[i], sid)
      BY <2>3 DEF AskUnderway
    <3>2. CASE i = 1
      <4>1. IsCurrent(e) /\ Asks(e, sid) /\ ses[sid].pc = WaitsAfter(e)
        BY <1>1, <1>2, <3>1, <3>2 DEF IsCurrent, Asks, Turn, AskIsLast
      <4>2. OnSuspend(e)
        BY <1>1, <4>1 DEF OnWorkerEvent, OnOutput, OnResumed, OnTerminal, OnRunRejected,
                         Terminal, Asks
      <4> QED
        BY <4>1, <4>2 DEF OnSuspend, WaitsAfter
    <3>3. CASE i # 1
      BY <1>1, <1>2, <3>1, <3>3 DEF AskUnderway, Asks
    <3> QED
      BY <3>2, <3>3
  <2> QED
    BY <1>5, <2>1, <2>2, <2>3 DEF Underway
<1> QED
  BY <1>1, <1>3, <1>4, <1>5 DEF Underway

\* A command that leaves the queue has done what it was sent for.
LEMMA CommandKeepsUnderway ==
  ASSUME TypeInv, RunInv, OrderInv, Turn(sid), Underway(sid), ui \in Busy,
         HandleWorkerCommand, UNCHANGED mainOnly
  PROVE  Underway(sid)'
<1> DEFINE c == Head(toWorker)
<1>1. /\ sid \in Session /\ gen = sid /\ UNCHANGED << ui, gen, sid, pending, fromWorker >>
      /\ c \in Command /\ c.sid \in Session /\ Handled(c)
  BY TypesKnown, CommandOutcome DEF mainOnly, runVars, RunInv, RunTracked
<1>2. /\ 1 \in 1 .. Len(toWorker) /\ c = toWorker[1]
      /\ \A i \in 1 .. Len(toWorker) : i # 1 =>
           i - 1 \in 1 .. Len(toWorker') /\ toWorker'[i - 1] = toWorker[i]
  BY CommandPlaces
<1>3. (EndUnderway(sid) => EndUnderway(sid)') /\ (AskUnderway(sid) => AskUnderway(sid)')
  BY <1>1 DEF EndUnderway, AskUnderway
<1>4. CASE IsRun(c) /\ c.sid = sid
  <2>1. ses'[sid'].pc \in { "begin", "queued" }
    BY <1>1, <1>4 DEF Handled
  <2> QED
    BY <2>1 DEF Underway
<1>5. CASE ~(IsRun(c) /\ c.sid = sid)
  <2>1. \A p \in { "none", "ended" } : ses'[sid].pc = p <=> ses[sid].pc = p
    BY <1>1, <1>5, CommandClasses DEF SameClass
  <2>2. RunUnderway(sid) => RunUnderway(sid)'
    BY <1>1, <1>2, <1>5 DEF RunUnderway
  <2>3. ASSUME ses'[sid].pc \in { "parked", "input" }
        PROVE  /\ ses[sid].pc = ses'[sid].pc
               /\ ~(c.sid = sid /\ c.type \in { "resume", "input" } /\ ses[sid].pc = AwaitedBy(c))
    <3>1. ses[sid] \in SessionState
      BY <1>1, TypesKnown
    <3>2. CASE IsRun(c)
      <4>1. ses'[sid] = ses[sid] \/ ses'[sid] = Aborted(ses[sid])
        BY <1>1, <1>5, <3>2 DEF Handled
      <4>2. c.type = "run"
        BY <3>2 DEF IsRun
      <4> QED
        BY <2>3, <3>1, <4>1, <4>2, AbortedEffect
    <3>3. CASE ~IsRun(c) /\ (cur # sid \/ c.sid # sid)
      <4>1. ses'[sid] = ses[sid]
        BY <1>1, <3>3 DEF Handled
      <4>2. c.sid = sid => cur # sid
        BY <3>3
      <4>3. ses[sid].pc \in Live
        BY <2>3, <4>1 DEF Live, Executing
      <4>4. cur = sid
        BY <4>3, BusyIsCurrent
      <4> QED
        BY <4>1, <4>2, <4>4
    <3>4. CASE ~IsRun(c) /\ cur = sid /\ c.sid = sid
      <4>1. CASE c.type = "stop"
        <5>1. ses'[sid] = Aborted(ses[sid])
          BY <1>1, <3>4, <4>1 DEF Handled
        <5> QED
          BY <2>3, <3>1, <5>1, AbortedEffect
      <4>2. CASE c.type # "stop"
        <5>1. ses'[sid].pc =
                IF c.type = "resume" /\ ~ses[sid].abort /\ ses[sid].pc = "parked" THEN "resumed"
                ELSE IF c.type = "input" /\ ses[sid].pc = "input" THEN "run"
                ELSE ses[sid].pc
          BY <1>1, <3>4, <4>2 DEF Handled
        <5>2. ~ses[sid].abort
          BY DEF OrderInv, AbortsAreSeen
        <5> QED
          BY <2>3, <5>1, <5>2 DEF AwaitedBy
      <4> QED
        BY <4>1, <4>2
    <3> QED
      BY <3>2, <3>3, <3>4
  <2>4. ASSUME ses'[sid].pc \in { "parked", "input" }, ~NoAnswer(sid)
        PROVE  ~NoAnswer(sid)'
    <3>1. CASE \E i \in 1 .. Len(toWorker) : Answers(toWorker[i], sid)
      <4>1. PICK i \in 1 .. Len(toWorker) : Answers(toWorker[i], sid)
        BY <3>1
      <4>2. ses[sid].pc = AwaitedBy(toWorker[i])
        BY <4>1 DEF Turn, AnswerIsAwaited
      <4>3. i # 1
        BY <1>2, <2>3, <2>4, <4>1, <4>2 DEF Answers
      <4> QED
        BY <1>1, <1>2, <4>1, <4>3 DEF NoAnswer
    <3>2. CASE \E i \in 1 .. Len(pending) : Answers(pending[i], sid)
      BY <1>1, <3>2 DEF NoAnswer
    <3> QED
      BY <2>4, <3>1, <3>2 DEF NoAnswer
  <2> QED
    BY <1>1, <1>3, <2>1, <2>2, <2>3, <2>4 DEF Underway
<1> QED
  BY <1>4, <1>5

\* A session that stops, or that stops to ask, says so: it is the current one.
LEMMA MoveKeepsUnderway ==
  ASSUME TypeInv, RunInv, OrderInv, Underway(sid), ui \in Busy,
         NEW s \in Session, Moves(s), NEW events, Speaks(s, events),
         UNCHANGED << ui, sid, toWorker, pending >>
  PROVE  Underway(sid)'
<1>1. sid \in Session
  BY TypesKnown
<1>2. /\ events \in Seq(Event) /\ fromWorker' = fromWorker \o events
      /\ ses'[s].pc \in { "parked", "input" } /\ cur' = s =>
           \E i \in 1 .. Len(events) : Asks(events[i], s)
      /\ ses'[s].pc = "ended" /\ cur = s =>
           \E i \in 1 .. Len(events) : IsFinal(events[i])
      /\ \A i \in 1 .. Len(events) : events[i].sid = s
  BY DEF Speaks, Says
<1>3. /\ \A i \in 1 .. Len(fromWorker) :
           i \in 1 .. Len(fromWorker') /\ fromWorker'[i] = fromWorker[i]
      /\ \A i \in 1 .. Len(events) :
           /\ i + Len(fromWorker) \in 1 .. Len(fromWorker')
           /\ fromWorker'[i + Len(fromWorker)] = events[i]
  BY <1>2, EventPlaces
<1>4. CASE s = sid
  <2>1. /\ ses[s].pc \notin { "none", "queued", "parked", "input", "ended" }
        /\ ses'[s].pc \in Live \cup { "ended" }
    BY MoveClasses
  <2>2. ses'[s].pc # "none"
    BY <2>1, TypesKnown
  <2>3. ses[s].pc # "begin" => cur = s
    <3>1. ses[s].pc # "begin" => ses[s].pc \in Live
      BY <2>1, TypesKnown DEF Live, Executing, SessionState, Phase
    <3> QED
      BY <1>4, <3>1, BusyIsCurrent
  <2>4. ASSUME ses'[s].pc = "ended" PROVE EndUnderway(sid)'
    <3>1. ses[s].pc # "begin"
      <4>1. ~Starts(s)
        BY <2>4, TypesKnown DEF Starts
      <4> QED
        BY <4>1 DEF Moves, Goes, Leaves, Moving
    <3>2. PICK i \in 1 .. Len(events) : IsFinal(events[i])
      BY <1>2, <2>3, <2>4, <3>1
    <3> QED
      BY <1>2, <1>3, <1>4, <3>2 DEF EndUnderway, IsFinal
  <2>5. ASSUME ses'[s].pc \in { "parked", "input" } PROVE AskUnderway(sid)'
    <3>1. cur' = s
      <4>1. ~Leaves(s)
        BY <2>5 DEF Leaves, Leave, Over, Fresh
      <4>2. CASE Starts(s)
        BY <4>2 DEF Starts
      <4>3. CASE Goes(s)
        BY <2>3, <4>3 DEF Goes, Moving
      <4> QED
        BY <4>1, <4>2, <4>3 DEF Moves
    <3>2. PICK i \in 1 .. Len(events) : Asks(events[i], s)
      BY <1>2, <2>5, <3>1
    <3> QED
      BY <1>3, <1>4, <3>2 DEF AskUnderway, Asks
  <2> QED
    BY <1>4, <2>2, <2>4, <2>5 DEF Underway
<1>5. CASE s # sid
  <2>1. EndUnderway(sid) => EndUnderway(sid)'
    BY <1>3 DEF EndUnderway, IsFinal
  <2>2. AskUnderway(sid) => AskUnderway(sid)'
    BY <1>3 DEF AskUnderway, Asks
  <2>3. /\ RunUnderway(sid) => RunUnderway(sid)'
        /\ NoAnswer(sid)' => NoAnswer(sid)
    BY DEF RunUnderway, NoAnswer
  <2>4. ses'[sid] = ses[sid] \/ ses'[sid].pc = "begin"
    BY <1>1, <1>5, MoveClasses
  <2>5. CASE ses'[sid].pc = "begin"
    BY <2>5 DEF Underway
  <2>6. CASE ses'[sid] = ses[sid]
    BY <2>1, <2>2, <2>3, <2>6 DEF Underway
  <2> QED
    BY <2>4, <2>5, <2>6
<1> QED
  BY <1>4, <1>5

\* MessageUnderway, of the run the UI is busy with.
LEMMA UnderwayMeaning ==
  MessageUnderway <=>
    /\ ui \in Busy => port = "live"
    /\ faults = 0 =>
         /\ lost = {}
         /\ \A i \in 1 .. Len(fromWorker) : ~IsCrash(fromWorker[i])
         /\ ui \in Busy => Underway(sid)
BY DEF MessageUnderway, Underway, RunUnderway, EndUnderway, AskUnderway

\* MessageUnderway is inductive, relative to the other invariants.
LEMMA NextKeepsUnderway ==
  /\ TypeInv /\ RunInv /\ OrderInv /\ TurnInv /\ MessageUnderway
  /\ [Next]_vars
  => MessageUnderway'
<1> SUFFICES ASSUME TypeInv, RunInv, OrderInv, TurnInv, MessageUnderway, [Next]_vars
             PROVE  /\ ui' \in Busy => port' = "live"
                    /\ faults' = 0 =>
                         /\ lost' = {}
                         /\ \A i \in 1 .. Len(fromWorker') : ~IsCrash(fromWorker'[i])
                         /\ ui' \in Busy => Underway(sid)'
  BY DEF MessageUnderway, Underway, RunUnderway, EndUnderway, AskUnderway, IsCrash
<1>1. /\ ui \in Busy => port = "live"
      /\ faults = 0 =>
           /\ lost = {}
           /\ \A i \in 1 .. Len(fromWorker) : ~IsCrash(fromWorker[i])
           /\ ui \in Busy => Underway(sid)
  BY UnderwayMeaning
<1>2. ui \in Busy /\ lost = {} => Turn(sid)
  BY DEF TurnInv, Turn
<1>3. faults \in Nat /\ \A s \in Session : s # None
  BY TypesKnown, WorkerAssumption DEF TypeInv, TypeOK, WorkerTypeOK
<1>4. Fault => faults' # 0
  BY <1>3 DEF Fault
<1>5. CASE Student
  <2>1. UNCHANGED << faults, lost, fromWorker >>
    BY <1>5, StudentOutcome DEF workerVars
  <2>2. ui' \in Busy => port' = "live"
    <3>1. PICK cmds \in Seq(Command) :
            /\ Post(cmds)
            /\ Reruns(cmds) \/ Stops(cmds) \/ Replies(cmds) \/ Remarks(cmds)
      BY <1>5, StudentOutcome
    <3> QED
      BY <1>1, <3>1 DEF Post, Reruns, Stops, Replies, Remarks, Busy
  <2>3. ASSUME faults' = 0, ui' \in Busy PROVE Underway(sid)'
    BY <1>1, <1>2, <1>5, <2>1, <2>3, ClickKeepsUnderway
  <2> QED
    BY <1>1, <2>1, <2>2, <2>3
<1>6. CASE DeliverEvent /\ UNCHANGED workerVars
  <2>1. /\ UNCHANGED << faults, lost, port >>
        /\ ui' \in Busy => ui \in Busy
        /\ \A i \in 1 .. Len(fromWorker') :
             fromWorker'[i] = fromWorker[i + 1] /\ i + 1 \in 1 .. Len(fromWorker)
    BY <1>6, DeliveryPlaces, DeliveryEffect DEF workerVars, Terminal, Busy
  <2>2. ASSUME faults' = 0, ui' \in Busy PROVE Underway(sid)'
    BY <1>1, <1>2, <1>6, <2>1, <2>2, DeliveryKeepsUnderway
  <2> QED
    BY <1>1, <2>1, <2>2
<1>7. CASE Kills /\ (Fault \/ (DeliverCrash /\ UNCHANGED faults))
  <2>1. ui' \in Busy => port' = "live"
    BY <1>1, <1>7, KillEffect DEF Busy
  <2>2. CASE DeliverCrash /\ UNCHANGED faults
    <3>1. /\ 1 \in 1 .. Len(fromWorker) /\ Head(fromWorker) = fromWorker[1]
          /\ IsCrash(Head(fromWorker))
      BY <2>2, TypesKnown, TailPlaces DEF DeliverCrash
    <3> QED
      BY <1>1, <2>1, <2>2, <3>1
  <2>3. CASE Fault
    BY <1>4, <2>1, <2>3
  <2> QED
    BY <1>7, <2>2, <2>3
<1>8. CASE Worker
  <2>1. UNCHANGED << ui, gen, sid, port, pending, mainOnly >>
    BY <1>8 DEF Worker, mainOnly, runVars
  <2>2. CASE HandleWorkerCommand
    <3>1. UNCHANGED << faults, lost, fromWorker >>
      BY <2>2, CommandOutcome
    <3> QED
      BY <1>1, <1>2, <2>1, <2>2, <3>1, CommandKeepsUnderway
  <2>3. ASSUME NEW s \in Session, SessionStep(s)
        PROVE  faults' = 0 =>
                 /\ lost' = {}
                 /\ \A i \in 1 .. Len(fromWorker') : ~IsCrash(fromWorker'[i])
                 /\ ui' \in Busy => Underway(sid)'
    <3>1. UNCHANGED << faults, lost >>
      BY <2>3 DEF SessionStep, Begin, EndUnrun, FirstStatement, Tick, ResumeFromGate, TimerFires
    <3>2. Moves(s) /\ UNCHANGED toWorker
      BY <2>3, SessionOutcome
    <3>3. PICK events : Speaks(s, events)
      BY <2>3, SessionOutcome
    <3>4. ASSUME faults = 0, ui \in Busy PROVE Underway(sid)'
      BY <1>1, <2>1, <3>2, <3>3, <3>4, MoveKeepsUnderway
    <3>5. /\ events \in Seq(Event) /\ fromWorker' = fromWorker \o events
          /\ \A i \in 1 .. Len(events) : events[i].sid = s
      BY <3>3 DEF Speaks, Says
    <3>6. \A i \in 1 .. Len(fromWorker') :
            \/ i \in 1 .. Len(fromWorker) /\ fromWorker'[i] = fromWorker[i]
            \/ fromWorker'[i].sid = s
      BY <3>5, EventPlaces
    <3>7. faults = 0 => \A i \in 1 .. Len(fromWorker') : ~IsCrash(fromWorker'[i])
      BY <1>1, <1>3, <3>6 DEF IsCrash
    <3> QED
      BY <1>1, <2>1, <3>1, <3>4, <3>7
  <2>4. CASE Crash \/ \E s \in Session : RunRejects(s)
    <3>1. Fault
      BY <2>4 DEF Crash, RunRejects
    <3> QED
      BY <1>1, <1>4, <2>1, <3>1
  <2> QED
    BY <1>1, <1>8, <2>1, <2>2, <2>3, <2>4 DEF Worker
<1>9. CASE UNCHANGED vars
  <2>1. ui' \in Busy => port' = "live"
    BY <1>1, <1>9 DEF vars, mainVars, workerVars, runVars, portVars
  <2>2. UNCHANGED << faults, lost, fromWorker, ui, sid, ses, toWorker, pending >>
    BY <1>9 DEF vars, mainVars, workerVars, runVars, portVars
  <2>3. Underway(sid) => Underway(sid)'
    BY <2>2 DEF Underway, RunUnderway, EndUnderway, AskUnderway, NoAnswer
  <2> QED
    BY <1>1, <2>1, <2>2, <2>3
<1> QED
  BY <1>5, <1>6, <1>7, <1>8, <1>9 DEF Next, Deliver, Host, Kills

-----------------------------------------------------------------------------
(* Every session runs down                                                 *)

\* The work of a session is a number, and a phase weighs less than a statement.
LEMMA WorkTyped ==
  ASSUME NEW st \in SessionState, st.steps <= MaxSteps
  PROVE  /\ SessionWork(st) \in Nat
         /\ PhaseWork(st.pc) \in 0 .. 9
         /\ SessionWork(st) = 0 <=> st.pc = "ended"
<1>1. PhaseWork(st.pc) \in 0 .. 9
  BY DEF PhaseWork
<1>2. st.steps \in Nat /\ MaxSteps \in Nat
  BY WorkerAssumption DEF SessionState
<1> QED
  BY <1>1, <1>2 DEF SessionWork

\* A session has less to do when it ended, counted a statement, or came to a
\* later phase of the same one.
LEMMA LessWork ==
  ASSUME NEW old \in SessionState, old.steps <= MaxSteps, old.pc # "ended",
         NEW new \in SessionState, new.steps <= MaxSteps,
         \/ new.pc = "ended"
         \/ new.steps > old.steps
         \/ new.steps = old.steps /\ PhaseWork(new.pc) < PhaseWork(old.pc)
  PROVE  SessionWork(new) < SessionWork(old)
<1>1. /\ old.steps \in Nat /\ new.steps \in Nat /\ MaxSteps \in Nat
      /\ PhaseWork(old.pc) \in 0 .. 9 /\ PhaseWork(new.pc) \in 0 .. 9
  BY WorkerAssumption, WorkTyped DEF SessionState
<1> QED
  BY <1>1 DEF SessionWork

\* A session that leaves has ended, with nothing counted.
LEMMA LeaveEnds ==
  ASSUME NEW s \in Session, Leave(s)
  PROVE  ses'[s] = Over /\ ses'[s].pc = "ended" /\ ses'[s].steps = 0 /\ ~ses'[s].abort
<1>1. Over.pc = "ended" /\ Over.steps = 0 /\ ~Over.abort
  BY DEF Over, Fresh
<1>2. ses'[s] = Over
  BY Zenon DEF Leave
<1> QED
  BY <1>1, <1>2

\* The body of a statement counts none, and waits for INPUT or the next tick,
\* or for the timer before it.
LEMMA BodyCounts ==
  ASSUME TypeInv, NEW s \in Session, NEW st \in SessionState, NEW before,
         YieldOrBody(s, st, before) \/ Body(s, st, before)
  PROVE  \/ ses'[s].pc = "ended" /\ ses'[s].steps = 0
         \/ /\ ses'[s].steps = st.steps
            /\ \/ ses'[s].pc \in { "run", "input" }
               \/ ses'[s].pc = "yield" /\ ~Body(s, st, before)
<1>1. ses \in [ Session -> SessionState ]
  BY TypesKnown
<1>2. ASSUME NEW p, ses' = [ ses EXCEPT ![s] = [ st EXCEPT !.pc = p ] ]
      PROVE  ses'[s].pc = p /\ ses'[s].steps = st.steps
  BY <1>1, <1>2 DEF SessionState
<1>3. ASSUME Leave(s)
      PROVE  ses'[s].pc = "ended" /\ ses'[s].steps = 0
  BY <1>3, LeaveEnds
<1>4. CASE Body(s, st, before)
  BY <1>2, <1>3, <1>4 DEF Body, End
<1>5. CASE ~Body(s, st, before)
  BY <1>2, <1>5 DEF YieldOrBody
<1> QED
  BY <1>4, <1>5

\* Each step of a session takes something off what it has left.
LEMMA StepNearsEnd ==
  ASSUME TypeInv, TypeInv', StepsBounded, NEW s \in Session, SessionStep(s)
  PROVE  /\ ses'[s].steps <= MaxSteps
         /\ ses'[s].pc \notin { "queued", "begin" }
         /\ SessionWork(ses'[s]) < SessionWork(ses[s])
<1>1. /\ ses \in [ Session -> SessionState ] /\ ses[s] \in SessionState
      /\ ses[s].steps \in Nat /\ ses'[s] \in SessionState /\ MaxSteps \in Nat \ { 0 }
      /\ ses[s].steps <= MaxSteps
      /\ ses[s].pc = "begin" => ses[s].steps = 0
  BY WorkerAssumption DEF TypeInv, TypeOK, WorkerTypeOK, SessionState, StepsBounded
<1> DEFINE Nearer ==
      /\ ses'[s].steps <= MaxSteps
      /\ ses'[s].pc \notin { "queued", "begin" }
      /\ \/ ses'[s].pc = "ended"
         \/ ses'[s].steps > ses[s].steps
         \/ ses'[s].steps = ses[s].steps /\ PhaseWork(ses'[s].pc) < PhaseWork(ses[s].pc)
<1>2. ses[s].pc # "ended"
  BY DEF SessionStep, Begin, EndUnrun, FirstStatement, Tick, ResumeFromGate, TimerFires
<1> SUFFICES Nearer
  BY <1>1, <1>2, LessWork
<1>3. ASSUME Leave(s) PROVE Nearer
  <2>1. ses'[s].pc = "ended" /\ ses'[s].steps = 0
    BY <1>3, LeaveEnds
  <2> QED
    BY <1>1, <2>1
<1>4. ASSUME NEW st \in SessionState, ses' = [ ses EXCEPT ![s] = Parked(st) ]
      PROVE  ses'[s].pc = "parked" /\ ses'[s].steps = st.steps
  BY <1>1, <1>4 DEF Parked, SessionState
<1>5. CASE Begin(s)
  <2> DEFINE first == [ ses[s] EXCEPT !.steps = 1 ]
  <2>1. /\ first \in SessionState /\ first.steps = 1
        /\ ses[s].pc = "begin" /\ ses[s].steps = 0
    <3>1. first \in SessionState
      BY <1>1, StatesTyped, Zenon
    <3>2. first.steps = 1
      BY <1>1 DEF SessionState
    <3> QED
      BY <1>1, <1>5, <3>1, <3>2 DEF Begin
  <2>2. \/ ses' = [ ses EXCEPT ![s].pc = "rejected" ]
        \/ ses' = [ ses EXCEPT ![s] = Parked(first) ]
        \/ ses' = [ ses EXCEPT ![s] = [ first EXCEPT !.pc = "ticked" ] ]
    BY <1>5 DEF Begin
  <2> HIDE DEF first
  <2>3. \/ ses'[s].pc = "rejected" /\ ses'[s].steps = 0
        \/ ses'[s].pc \in { "parked", "ticked" } /\ ses'[s].steps = 1
    <3>1. CASE ses' = [ ses EXCEPT ![s].pc = "rejected" ]
      BY <1>1, <2>1, <3>1 DEF SessionState
    <3>2. CASE ses' = [ ses EXCEPT ![s] = Parked(first) ]
      BY <1>4, <2>1, <3>2
    <3>3. CASE ses' = [ ses EXCEPT ![s] = [ first EXCEPT !.pc = "ticked" ] ]
      BY <1>1, <2>1, <3>3 DEF SessionState
    <3> QED
      BY <2>2, <3>1, <3>2, <3>3
  <2> QED
    BY <1>1, <2>1, <2>3 DEF PhaseWork
<1>6. CASE EndUnrun(s)
  BY <1>3, <1>6 DEF EndUnrun, End
<1>7. CASE FirstStatement(s) \/ ResumeFromGate(s)
  <2>1. ses[s].pc \in { "ticked", "resumed" }
    BY <1>7 DEF FirstStatement, ResumeFromGate
  <2>2. \/ ses'[s].pc = "ended" /\ ses'[s].steps = 0
        \/ ses'[s].steps = ses[s].steps /\ ses'[s].pc \in { "run", "input", "yield" }
    BY <1>1, <1>7, BodyCounts DEF FirstStatement, ResumeFromGate
  <2> QED
    BY <1>1, <2>1, <2>2 DEF PhaseWork
<1>8. CASE TimerFires(s)
  <2>1. ses[s].pc = "yield"
    BY <1>8 DEF TimerFires
  <2>2. CASE ses[s].abort
    BY <1>3, <1>8, <2>2 DEF TimerFires, End
  <2>3. CASE ~ses[s].abort
    <3>1. \/ ses'[s].pc = "ended" /\ ses'[s].steps = 0
          \/ ses'[s].steps = ses[s].steps /\ ses'[s].pc \in { "run", "input" }
      BY <1>1, <1>8, <2>3, BodyCounts DEF TimerFires
    <3> QED
      BY <1>1, <2>1, <3>1 DEF PhaseWork
  <2> QED
    BY <2>2, <2>3
<1>9. CASE Tick(s)
  <2> DEFINE st == [ ses[s] EXCEPT !.steps = @ + 1 ]
  <2>1. st \in SessionState /\ st.steps = ses[s].steps + 1
    <3>1. st \in SessionState
      BY <1>1, StatesTyped, Zenon
    <3>2. st.steps = ses[s].steps + 1
      BY <1>1 DEF SessionState
    <3> QED
      BY <3>1, <3>2
  <2>2. \/ Leave(s)
        \/ st.steps <= MaxSteps /\ (Park(s, st) \/ YieldOrBody(s, st, << >>))
    <3>1. ~(st.steps > MaxSteps) => st.steps <= MaxSteps
      BY <1>1, <2>1
    <3> QED
      BY <1>9, <3>1 DEF Tick, End
  <2> HIDE DEF st
  <2>3. CASE Park(s, st) /\ st.steps <= MaxSteps
    <3>1. ses'[s].pc = "parked" /\ ses'[s].steps = st.steps
      BY <1>4, <2>1, <2>3 DEF Park
    <3> QED
      BY <1>1, <2>1, <2>3, <3>1
  <2>4. CASE YieldOrBody(s, st, << >>) /\ st.steps <= MaxSteps
    <3>1. \/ ses'[s].pc = "ended" /\ ses'[s].steps = 0
          \/ ses'[s].steps = st.steps /\ ses'[s].pc \in { "run", "input", "yield" }
      BY <2>1, <2>4, BodyCounts
    <3> QED
      BY <1>1, <2>1, <2>4, <3>1
  <2> QED
    BY <1>3, <2>2, <2>3, <2>4
<1> QED
  BY <1>5, <1>6, <1>7, <1>8, <1>9 DEF SessionStep

\* No step whatever gives a session more to do, or lets it count beyond the
\* limit.
LEMMA NoMoreWork ==
  ASSUME TypeInv, TypeInv', RunInv, OrderInv, StepsBounded, [Next]_vars,
         NEW s \in Session
  PROVE  /\ ses'[s].steps <= MaxSteps
         /\ ses'[s].pc \in { "queued", "begin" } => ses'[s].steps = 0
         /\ SessionWork(ses'[s]) <= SessionWork(ses[s])
         /\ SessionStep(s) => SessionWork(ses'[s]) < SessionWork(ses[s])
<1>1. /\ ses \in [ Session -> SessionState ] /\ ses[s] \in SessionState
      /\ ses[s].steps \in Nat /\ ses'[s] \in SessionState /\ MaxSteps \in Nat \ { 0 }
      /\ ses[s].steps <= MaxSteps
      /\ ses[s].pc \in { "queued", "begin" } => ses[s].steps = 0
      /\ SessionWork(ses[s]) \in Nat
  <2>1. /\ ses \in [ Session -> SessionState ] /\ ses[s] \in SessionState
        /\ ses'[s] \in SessionState
    BY DEF TypeInv, TypeOK, WorkerTypeOK
  <2>2. /\ ses[s].steps <= MaxSteps
        /\ ses[s].pc \in { "queued", "begin" } => ses[s].steps = 0
    BY DEF StepsBounded
  <2> QED
    BY <2>1, <2>2, WorkTyped, WorkerAssumption DEF SessionState
<1> DEFINE Kept ==
      /\ ses'[s].steps <= MaxSteps
      /\ ses'[s].pc \in { "queued", "begin" } => ses'[s].steps = 0
      /\ SessionWork(ses'[s]) <= SessionWork(ses[s])
<1>2. SessionStep(s) => /\ Kept
                        /\ SessionWork(ses'[s]) < SessionWork(ses[s])
  <2> SUFFICES ASSUME SessionStep(s)
               PROVE  Kept /\ SessionWork(ses'[s]) < SessionWork(ses[s])
    OBVIOUS
  <2>1. /\ ses'[s].steps <= MaxSteps
        /\ ses'[s].pc \notin { "queued", "begin" }
        /\ SessionWork(ses'[s]) < SessionWork(ses[s])
    BY StepNearsEnd
  <2>2. SessionWork(ses'[s]) \in Nat
    BY <1>1, <2>1, WorkTyped
  <2> QED
    BY <1>1, <2>1, <2>2
<1>3. CASE ses'[s] = ses[s]
  BY <1>1, <1>2, <1>3
<1>4. ASSUME ses'[s].steps <= MaxSteps,
             \/ ses'[s].pc = "ended" /\ ses'[s].steps = 0
             \/ /\ ses[s].pc # "ended" /\ ses'[s].steps = ses[s].steps
                /\ PhaseWork(ses'[s].pc) < PhaseWork(ses[s].pc)
                /\ ses'[s].pc \in { "queued", "begin" } => ses'[s].steps = 0
      PROVE  Kept
  <2>1. CASE ses[s].pc = "ended"
    <3>1. ses'[s].pc = "ended"
      BY <1>4, <2>1
    <3>2. SessionWork(ses'[s]) = 0
      BY <3>1 DEF SessionWork
    <3> QED
      BY <1>1, <1>4, <3>1, <3>2
  <2>2. CASE ses[s].pc # "ended"
    <3>1. SessionWork(ses'[s]) < SessionWork(ses[s])
      BY <1>1, <1>4, <2>2, LessWork
    <3>2. SessionWork(ses'[s]) \in Nat
      BY <1>1, <1>4, WorkTyped
    <3> QED
      BY <1>1, <1>4, <3>1, <3>2
  <2> QED
    BY <2>1, <2>2
<1> HIDE DEF Kept
<1>5. CASE Kills
  <2>1. ses'[s] = (IF ses[s].pc = "none" THEN Fresh ELSE Over)
    BY <1>5, KillEffect
  <2>2. CASE ses[s].pc = "none"
    BY <1>3, <2>1, <2>2 DEF OrderInv
  <2>3. CASE ses[s].pc # "none"
    <3>1. ses'[s].pc = "ended" /\ ses'[s].steps = 0
      BY <2>1, <2>3 DEF Over, Fresh
    <3> QED
      BY <1>1, <1>2, <1>4, <3>1 DEF Kept
  <2> QED
    BY <2>2, <2>3
<1>6. CASE HandleWorkerCommand
  <2> DEFINE c == Head(toWorker)
  <2>1. c.sid \in Session /\ Handled(c) /\ Quiet
    BY <1>6, CommandOutcome
  <2>2. CASE ses'[s] = Aborted(ses[s])
    <3>1. /\ ses'[s].steps = ses[s].steps
          /\ ses'[s].pc = IF ses[s].pc \in { "parked", "input" } THEN "run" ELSE ses[s].pc
      BY <1>1, <2>2, AbortedEffect
    <3>2. CASE ses[s].pc \in { "parked", "input" }
      <4>1. Kept
        BY <1>1, <1>4, <3>1, <3>2 DEF PhaseWork
      <4> QED
        BY <1>2, <4>1 DEF Kept
    <3>3. CASE ses[s].pc \notin { "parked", "input" }
      <4>1. SessionWork(ses'[s]) = SessionWork(ses[s])
        BY <3>1, <3>3 DEF SessionWork
      <4> QED
        BY <1>1, <1>2, <3>1, <3>3, <4>1
    <3> QED
      BY <3>2, <3>3
  <2>3. CASE IsRun(c) /\ s = c.sid
    <3>1. ses[s] = Fresh
      BY <1>6, <2>1, <2>3, RunIsNewest, TypesKnown
    <3>2. ses'[s].pc \in { "begin", "queued" }
      BY <2>1, <2>3 DEF Handled
    <3>3. ses'[s].steps = 0
      <4>1. HandleRun(c)
        BY <1>6, <2>3 DEF HandleWorkerCommand, HandleStop, HandlePause, HandleResume,
           HandleInput, HandleBreakpoints, IsRun
      <4>2. PICK sessions : ses' = [ sessions EXCEPT
                ![c.sid] = [ Fresh EXCEPT
                    !.pc = IF tail = None THEN "begin" ELSE "queued",
                    !.after = tail,
                    !.mode = c.mode,
                    !.bps = c.bps ] ] /\ sessions \in { ses, AbortCurrent(ses) }
        BY <4>1 DEF HandleRun
      <4>3. DOMAIN sessions = Session
        BY <1>1, <4>2 DEF AbortCurrent
      <4> QED
        BY <2>1, <2>3, <4>2, <4>3 DEF Fresh
    <3>4. ses[s].steps = 0 /\ ses[s].pc = "none"
      BY <3>1 DEF Fresh
    <3>5. Kept
      BY <1>1, <1>4, <3>2, <3>3, <3>4 DEF PhaseWork
    <3> QED
      BY <1>2, <3>5 DEF Kept
  <2>4. CASE ~IsRun(c) /\ s = cur /\ cur = c.sid /\ c.type # "stop"
    <3>1. /\ ses'[s].steps = ses[s].steps
          /\ \/ ses'[s].pc = ses[s].pc
             \/ ses[s].pc = "parked" /\ ses'[s].pc = "resumed"
             \/ ses[s].pc = "input" /\ ses'[s].pc = "run"
      BY <2>1, <2>4 DEF Handled
    <3>2. CASE ses'[s].pc = ses[s].pc
      <4>1. SessionWork(ses'[s]) = SessionWork(ses[s])
        BY <3>1, <3>2 DEF SessionWork
      <4> QED
        BY <1>1, <1>2, <3>1, <3>2, <4>1
    <3>3. CASE ses'[s].pc # ses[s].pc
      <4>1. Kept
        BY <1>1, <1>4, <3>1, <3>3 DEF PhaseWork
      <4> QED
        BY <1>2, <4>1 DEF Kept
    <3> QED
      BY <3>2, <3>3
  <2> QED
    BY <1>3, <2>1, <2>2, <2>3, <2>4 DEF Handled
<1>7. ASSUME NEW t \in Session, SessionStep(t) \/ RunRejects(t), ~SessionStep(s)
      PROVE  Kept
  <2>1. Moves(t)
    BY <1>7, SessionOutcome
  <2>2. CASE t = s
    <3>1. Leave(s)
      BY <1>7, <2>2 DEF RunRejects
    <3>2. ses'[s].pc = "ended" /\ ses'[s].steps = 0
      BY <3>1, LeaveEnds
    <3> QED
      BY <1>1, <1>4, <3>2
  <2>3. CASE t # s
    <3>1. \/ ses'[s] = ses[s]
          \/ ses[s].pc = "queued" /\ ses'[s].pc = "begin" /\ ses'[s].steps = ses[s].steps
      BY <2>1, <2>3, MoveClasses
    <3>2. CASE ses[s].pc = "queued" /\ ses'[s].pc = "begin" /\ ses'[s].steps = ses[s].steps
      BY <1>1, <1>4, <3>2 DEF PhaseWork
    <3> QED
      BY <1>3, <3>1, <3>2 DEF Kept
  <2> QED
    BY <2>2, <2>3
<1>8. CASE Student
  BY <1>3, <1>8, StudentOutcome DEF workerVars
<1>9. CASE UNCHANGED ses
  BY <1>3, <1>9
<1> QED
  BY <1>2, <1>5, <1>6, <1>7, <1>8, <1>9
  DEF Kept, Next, Deliver, Host, Worker, Kills, Crash, workerVars, vars

-----------------------------------------------------------------------------
(* Whoever waits, waits for a session that was told to stop                *)

\* The step of a session that was told to stop is its last.
LEMMA StoppedLeaves ==
  ASSUME TypeInv, OrderInv, NEW s \in Session, ses[s].abort, Moves(s)
  PROVE  Leave(s)
<1>1. ses[s].pc \in { "run", "yield" }
  BY DEF OrderInv, AbortsAreSeen
<1> QED
  BY <1>1 DEF Moves, Starts, Goes, Leaves

\* A session that leaves lets those that wait for it begin.
LEMMA LeaveWakes ==
  ASSUME TypeInv, NEW s \in Session, NEW t \in Session \ { s },
         ses[t].pc = "queued", ses[t].after = s, Leave(s)
  PROVE  ses'[t].pc = "begin"
<1>1. ses[t] \in SessionState
  BY TypesKnown
<1>2. ses'[t] = [ ses[t] EXCEPT !.pc = "begin", !.after = None ]
  BY Zenon DEF Leave
<1> QED
  BY <1>1, <1>2 DEF SessionState

\* A run that is queued behind another stops it first, and no command takes an
\* abort back.
LEMMA CommandKeepsWaits ==
  ASSUME TypeInv, RunInv, OrderInv, WaitsForStopped, HandleWorkerCommand
  PROVE  WaitsForStopped'
<1> DEFINE c == Head(toWorker)
<1>1. c.sid \in Session /\ Handled(c) /\ UNCHANGED << cur, tail >>
  BY CommandOutcome
<1>2. IsRun(c) => ses[c.sid] = Fresh /\ c.sid # tail
  BY <1>1, RunIsNewest, TypesKnown
<1>3. /\ cur = tail
      /\ tail # None => tail \in Session /\ ses[tail].pc \in Live
  BY TypesKnown DEF WaitsForStopped, OrderInv, WaitForTail
<1> HIDE DEF c
<1>4. ASSUME NEW s \in Session, ses'[s].pc = "queued"
      PROVE  ses'[s].after \in Session /\ ses'[ses'[s].after].abort
  <2>1. CASE IsRun(c) /\ s = c.sid
    <3>1. tail # None /\ ses'[s].after = tail
      BY <1>1, <1>4, <2>1 DEF Handled
    <3>2. ses'[tail] = Aborted(ses[tail]) /\ ses[tail] \in SessionState
      BY <1>1, <1>2, <1>3, <2>1, <3>1, TypesKnown DEF Handled
    <3> QED
      BY <1>3, <3>1, <3>2, AbortedEffect
  <2>2. CASE ~(IsRun(c) /\ s = c.sid)
    <3>1. s # cur
      <4> SUFFICES ASSUME s = cur PROVE FALSE
        OBVIOUS
      <4>1. ses[s].pc # "queued" /\ ses[s] \in SessionState
        BY <1>3, TypesKnown DEF Live, Executing
      <4> QED
        BY <1>1, <1>4, <2>2, <4>1, AbortedEffect DEF Handled
    <3>2. ses'[s] = ses[s]
      BY <1>1, <2>2, <3>1 DEF Handled
    <3> DEFINE t == ses[s].after
    <3>3. t \in Session /\ ses[t].abort /\ ses[t] \in SessionState
      BY <1>4, <3>2, TypesKnown DEF WaitsForStopped
    <3> HIDE DEF t
    <3>4. ~(IsRun(c) /\ t = c.sid)
      BY <1>2, <3>3, TypesKnown
    <3>5. ses'[t].abort
      BY <1>1, <3>3, <3>4, AbortedEffect DEF Handled
    <3> QED
      BY <3>2, <3>3, <3>5 DEF t
  <2> QED
    BY <2>1, <2>2
<1> QED
  BY <1>1, <1>3, <1>4 DEF WaitsForStopped

\* A session that moves leaves the waiting ones waiting for the same session,
\* unless it is that one: then it ends, and none of them waits any more.
LEMMA MoveKeepsWaits ==
  ASSUME TypeInv, OrderInv, WaitsForStopped, NEW s \in Session, Moves(s)
  PROVE  WaitsForStopped'
<1>1. cur' = tail'
  <2>1. CASE Leave(s)
    <3>1. /\ cur' = IF cur = s THEN None ELSE cur
          /\ tail' = IF tail = s THEN None ELSE tail
      BY <2>1, Zenon DEF Leave
    <3> QED
      BY <3>1 DEF WaitsForStopped
  <2>2. CASE ~Leave(s)
    BY <2>2 DEF Moves, Starts, Goes, Leaves, WaitsForStopped
  <2> QED
    BY <2>1, <2>2
<1>2. ASSUME NEW t \in Session, ses'[t].pc = "queued"
      PROVE  ses'[t].after \in Session /\ ses'[ses'[t].after].abort
  <2>1. t # s
    BY <1>2, MoveClasses DEF Live, Executing
  <2>2. ses'[t] = ses[t]
    BY <1>2, <2>1, MoveClasses
  <2>3. /\ tail \in Session /\ ses[t].after = tail /\ NoneBegins
        /\ ses[tail].abort /\ ses[tail].pc # "queued"
    BY <1>2, <2>2, TypesKnown
    DEF WaitsForStopped, OrderInv, WaitForTail, Live, Executing
  <2>4. s # tail
    <3> SUFFICES ASSUME s = tail PROVE FALSE
      OBVIOUS
    <3>1. Leave(s)
      BY <2>3, StoppedLeaves
    <3>2. ses'[t].pc = "begin"
      BY <1>2, <2>1, <2>2, <2>3, <3>1, LeaveWakes
    <3> QED
      BY <1>2, <3>2
  <2>5. ses'[tail] = ses[tail]
    BY <2>3, <2>4, MoveClasses
  <2> QED
    BY <2>2, <2>3, <2>5
<1> QED
  BY <1>1, <1>2 DEF WaitsForStopped

\* Every step of the IDE keeps WaitsForStopped.
LEMMA NextKeepsWaits ==
  ASSUME TypeInv, RunInv, OrderInv, WaitsForStopped, [Next]_vars
  PROVE  WaitsForStopped'
<1>1. CASE Kills
  <2>1. cur' = tail' /\ \A s \in Session : ses'[s].pc # "queued"
    BY <1>1, KillEffect
  <2> QED
    BY <2>1 DEF WaitsForStopped
<1>2. CASE HandleWorkerCommand
  BY <1>2, CommandKeepsWaits
<1>3. ASSUME NEW s \in Session, SessionStep(s) \/ RunRejects(s)
      PROVE  WaitsForStopped'
  BY <1>3, SessionOutcome, MoveKeepsWaits
<1>4. CASE UNCHANGED << cur, tail, ses >>
  BY <1>4 DEF WaitsForStopped
<1>5. CASE Student
  BY <1>4, <1>5, StudentOutcome DEF workerVars
<1> QED
  BY <1>1, <1>2, <1>3, <1>4, <1>5
  DEF Next, Deliver, Host, Worker, Kills, Crash, workerVars, vars

\* The worker starts with nobody waiting and nothing counted.
LEMMA InitWindDown == Init => WindDownInv
<1> SUFFICES ASSUME Init PROVE WindDownInv
  OBVIOUS
<1>1. ses = [ s \in Session |-> Fresh ] /\ cur = None /\ tail = None
  BY DEF Init, WorkerInit
<1>2. Fresh.pc = "none" /\ Fresh.steps = 0 /\ MaxSteps >= 0
  BY WorkerAssumption DEF Fresh
<1>3. \A s \in Session : ses[s].pc = "none" /\ ses[s].steps = 0
  BY <1>1, <1>2
<1>4. StepsBounded
  BY <1>2, <1>3 DEF StepsBounded
<1>5. WaitsForStopped
  BY <1>1, <1>3 DEF WaitsForStopped
<1> QED
  BY <1>4, <1>5 DEF WindDownInv

-----------------------------------------------------------------------------
(* What follows                                                            *)

\* The IDE starts with nobody asked and nothing said.
LEMMA InitDialogue == Init => DialogueInv
<1> SUFFICES ASSUME Init PROVE DialogueInv
  OBVIOUS
<1>1. /\ toWorker = << >> /\ pending = << >> /\ Len(<< >>) = 0 /\ ui = "idle" /\ sid = 0
      /\ said = [ s \in Session |-> 0 ] /\ delivered = [ s \in Session |-> 0 ]
      /\ ses = [ s \in Session |-> Fresh ] /\ cur = None /\ tail = None /\ lost = {}
      /\ fromWorker = << Evt("ready", None) >>
  BY DEF Init, MainInit, WorkerInit
<1>2. \A s \in Session : ses[s] = Fresh /\ ses[s].pc = "none" /\ ~ses[s].abort
  BY <1>1 DEF Fresh
<1>3. RunsAscend(toWorker) /\ RunsAscend(pending)
  BY <1>1 DEF RunsAscend
<1>4. WaitForTail /\ NewestIsCurrent
  BY <1>1, <1>2 DEF WaitForTail, NewestIsCurrent, Live, Executing
<1>5. AbortsAreSeen
  BY <1>1, <1>2 DEF AbortsAreSeen, Busy
<1>6. OrderInv
  BY <1>2, <1>3, <1>4, <1>5 DEF OrderInv
<1>7. LostAreSilent /\ TurnInv /\ OutputInv
  BY <1>1 DEF LostAreSilent, TurnInv, OutputInv, Busy
<1>8. \A i \in 1 .. Len(fromWorker) : ~IsCrash(fromWorker[i])
  BY <1>1 DEF IsCrash, Evt
<1>9. MessageUnderway
  BY <1>1, <1>8 DEF MessageUnderway, Busy
<1> QED
  BY <1>6, <1>7, <1>9 DEF DialogueInv

\* All the invariants of the IDE's run control hold together.
LEMMA DialogueInductive == Spec => [](TypeInv /\ RunInv /\ DialogueInv)
<1>1. Init => TypeInv /\ RunInv /\ DialogueInv
  BY InitTyped, InitRunInv, InitDialogue
<1>2. (TypeInv /\ RunInv /\ DialogueInv) /\ [Next]_vars
        => (TypeInv /\ RunInv /\ DialogueInv)'
  BY NextTyped, NextKeepsRunInv, NextKeepsOrder, NextKeepsLostSilent, NextKeepsTurn,
     NextKeepsOutput, NextKeepsUnderway DEF DialogueInv
<1> QED
  BY <1>1, <1>2, PTL DEF Spec

\* The order of the sessions, the turns of the program and the student, the
\* count of the printed lines and the messages under way hold in every
\* reachable state (WorkerSessionRunner's promise chain under
\* RuntimeController's clicks).
THEOREM DialogueInvariant == Spec => []DialogueInv
BY DialogueInductive, PTL

\* Whenever the IDE shows a paused program, the worker's program is parked at
\* the very statement shown: a step acts on what the student sees
\* (WorkerDebuggerBridge.park against RuntimeController's paused state).
THEOREM PauseIsReal == Spec => []PausedIsParked
<1>1. TypeInv /\ RunInv /\ DialogueInv => PausedIsParked
  <2> SUFFICES ASSUME TypeInv, RunInv, DialogueInv, ui = "paused", sid \notin lost
               PROVE  cur = sid /\ ses[sid].pc = "parked" /\ loc = ses[sid].steps
    BY DEF PausedIsParked
  <2>1. ses[sid].pc = "parked" /\ loc = ses[sid].steps
    BY DEF DialogueInv, TurnInv, SuspendedTogether, Busy
  <2>2. cur = sid
    BY <2>1, BusyIsCurrent DEF DialogueInv, Busy, Live, Executing
  <2> QED
    BY <2>1, <2>2
<1> QED
  BY <1>1, DialogueInductive, PTL

\* Whenever the IDE prompts for INPUT, the worker's program waits for a line:
\* what the student types is never dropped (WorkerRuntimeHost.readInput
\* against RuntimeController.submitInput).
THEOREM PromptIsReal == Spec => []PromptIsAwaited
<1>1. TypeInv /\ RunInv /\ DialogueInv => PromptIsAwaited
  <2> SUFFICES ASSUME TypeInv, RunInv, DialogueInv, ui = "waitingForInput", sid \notin lost
               PROVE  cur = sid /\ ses[sid].pc = "input"
    BY DEF PromptIsAwaited
  <2>1. ses[sid].pc = "input"
    BY DEF DialogueInv, TurnInv, SuspendedTogether, Busy
  <2>2. cur = sid
    BY <2>1, BusyIsCurrent DEF DialogueInv, Busy, Live, Executing
  <2> QED
    BY <2>1, <2>2
<1> QED
  BY <1>1, DialogueInductive, PTL

\* While a run goes on, each line it printed has been delivered to the main
\* thread or is on its way, once (WorkerSessionRunner's output events under
\* onWorkerEvent).
THEOREM OutputIsCounted == Spec => []NoOutputLost
<1>1. RunInv /\ DialogueInv => NoOutputLost
  BY DEF DialogueInv, OutputInv, NoOutputLost, RunInv, RunTracked
<1> QED
  BY <1>1, DialogueInductive, PTL

\* When a run is reported finished, every line it printed was delivered to the
\* main thread, once: no output arrives after the end, and none is skipped.
\* (WorkerSessionRunner's output events under onWorkerEvent.)
THEOREM OutputIsComplete == Spec => []FinishedDeliveredAllOutput
<1>1. TypeInv /\ RunInv /\ DialogueInv => FinishedDeliveredAllOutput
  <2> SUFFICES ASSUME TypeInv, RunInv, DialogueInv, ui \in { "completed", "runtimeError" },
                      gen = sid, sid \notin lost
               PROVE  delivered[sid] = said[sid]
    BY DEF FinishedDeliveredAllOutput
  <2>1. sid # 0 /\ sid \in Session
    <3>1. gen # 0
      BY DEF DialogueInv, OutputInv
    <3> QED
      BY <3>1 DEF TypeInv, TypeOK, MainTypeOK, Session
  <2>2. \A i \in 1 .. Len(fromWorker) : fromWorker[i].sid # sid
    BY <2>1 DEF RunInv, Quiesced, Busy, None
  <2>3. said[sid] = delivered[sid] + 0
    BY <2>1, <2>2, OutputsNone DEF DialogueInv, OutputInv
  <2> QED
    BY <2>1, <2>3 DEF TypeInv, TypeOK, MainTypeOK
<1> QED
  BY <1>1, DialogueInductive, PTL

\* While the worker does not fail, nobody waits for somebody who is waiting for
\* them: with nothing in flight, a suspended program is shown as such, and a
\* busy UI has a live program (the whole dialogue of RuntimeController and
\* WorkerSessionRunner).
THEOREM NobodyStalls == Spec => []NoSilentStall
<1>1. TypeInv /\ RunInv /\ DialogueInv => NoSilentStall
  <2> SUFFICES ASSUME TypeInv, RunInv, DialogueInv, faults = 0, ui \in Busy, ready,
                      toWorker = << >>, fromWorker = << >>
               PROVE  /\ ses[sid].pc \notin { "none", "ended" }
                      /\ ses[sid].pc = "parked" => ui = "paused"
                      /\ ses[sid].pc = "input" => ui = "waitingForInput"
                      /\ ses[sid].pc = "queued" => ses[ses[sid].after].pc \in Runnable \cup Executing
    BY DEF NoSilentStall
  <2>1. pending = << >> /\ Len(<< >>) = 0 /\ sid \in Session
    BY TypesKnown DEF RunInv, OneQueue
  <2>2. Underway(sid)
    BY UnderwayMeaning DEF DialogueInv
  <2>3. ~RunUnderway(sid) /\ ~EndUnderway(sid) /\ ~AskUnderway(sid) /\ NoAnswer(sid)
    BY <2>1 DEF RunUnderway, EndUnderway, AskUnderway, NoAnswer
  <2>4. ses[sid].pc = "queued" => ses[ses[sid].after].pc \in Live
    BY <2>1 DEF DialogueInv, OrderInv, WaitForTail
  <2> QED
    BY <2>2, <2>3, <2>4 DEF Underway, Live, Runnable
<1> QED
  BY <1>1, DialogueInductive, PTL

\* A session that was told to stop prints nothing while it ends.
LEMMA AbortedIsSilent ==
  ASSUME TypeInv, OrderInv, NEW s \in Session, ses[s].abort, SessionStep(s) \/ RunRejects(s)
  PROVE  UNCHANGED said
<1>1. ses[s].pc \in { "run", "yield" }
  BY DEF OrderInv, AbortsAreSeen
<1>2. Tick(s) \/ TimerFires(s) \/ RunRejects(s)
  BY <1>1 DEF SessionStep, Begin, EndUnrun, FirstStatement, ResumeFromGate
<1> QED
  BY <1>2 DEF Tick, TimerFires, RunRejects

\* Once the worker has handled a Stop, the program it stopped executes no
\* statement and prints nothing more: the signal is looked at before anything
\* else (Interpreter.tick and maybeYieldEventLoop).
THEOREM StopIsObeyed == Spec => StoppedRunsNoMore
<1>1. TypeInv /\ RunInv /\ DialogueInv /\ [Next]_vars =>
        [ \A s \in Session : ses[s].abort =>
            /\ said'[s] = said[s]
            /\ ses'[s].steps <= ses[s].steps ]_vars
  <2> SUFFICES ASSUME TypeInv, RunInv, OrderInv, [Next]_vars,
                      NEW s \in Session, ses[s].abort
               PROVE  said'[s] = said[s] /\ ses'[s].steps <= ses[s].steps
    BY DEF DialogueInv
  <2>1. ses[s] \in SessionState /\ ses[s].steps \in Nat
    <3>1. ses[s] \in SessionState
      BY TypesKnown
    <3> QED
      BY <3>1 DEF SessionState
  <2>2. CASE UNCHANGED << said, ses >>
    BY <2>1, <2>2
  <2>3. CASE Kills
    <3>1. said' = said /\ (ses'[s] = Fresh \/ ses'[s] = Over)
      BY <2>3, KillEffect
    <3>2. ses'[s].steps = 0
      BY <3>1 DEF Fresh, Over
    <3> QED
      BY <2>1, <3>1, <3>2
  <2>4. CASE HandleWorkerCommand
    <3> DEFINE c == Head(toWorker)
    <3>1. said' = said /\ c.sid \in Session /\ Handled(c)
      BY <2>4, CommandOutcome
    <3>2. IsRun(c) => c.sid # s
      <4>1. IsRun(c) => ses[c.sid] = Fresh
        BY <2>4, <3>1, RunIsNewest, TypesKnown
      <4> QED
        BY <4>1, TypesKnown
    <3>3. ses'[s].steps = ses[s].steps
      BY <2>1, <3>1, <3>2, AbortedEffect DEF Handled
    <3> QED
      BY <2>1, <3>1, <3>3
  <2>5. ASSUME NEW t \in Session, SessionStep(t) \/ RunRejects(t)
        PROVE  said'[s] = said[s] /\ ses'[s].steps <= ses[s].steps
    <3>1. Moves(t)
      BY <2>5, SessionOutcome
    <3>2. CASE t = s
      <4>1. said' = said
        BY <2>5, <3>2, AbortedIsSilent
      <4>2. ses[s].pc \in { "run", "yield" }
        BY DEF OrderInv, AbortsAreSeen
      <4>3. Leave(s)
        BY <3>1, <3>2, <4>2 DEF Moves, Starts, Goes, Leaves
      <4>4. ses'[s].steps = 0
        BY <4>3 DEF Leave, Over, Fresh
      <4> QED
        BY <2>1, <4>1, <4>4
    <3>3. CASE t # s
      <4>1. PICK events : Speaks(t, events)
        BY <2>5, SessionOutcome
      <4>2. said'[s] = said[s]
        BY <3>3, <4>1 DEF Speaks, TypeInv, TypeOK, WorkerTypeOK
      <4>3. ses'[s].steps = ses[s].steps
        BY <3>1, <3>3, MoveClasses
      <4> QED
        BY <2>1, <4>2, <4>3
    <3> QED
      BY <3>2, <3>3
  <2>6. CASE Student
    BY <2>2, <2>6, StudentOutcome DEF workerVars
  <2> QED
    BY <2>2, <2>3, <2>4, <2>5, <2>6
    DEF Next, Deliver, Host, Worker, Kills, Crash, workerVars, vars
<1> QED
  BY <1>1, DialogueInductive, PTL DEF Spec, StoppedRunsNoMore

\* The UI takes no step that the table canTransition forbids, although setState
\* stores whatever it is given: a refused program, in particular, never
\* relabels a run that is paused or waits for INPUT.
THEOREM LegalTransitions == Spec => TransitionsAreLegal
<1>1. TypeInv /\ RunInv /\ DialogueInv /\ [Next]_vars => [ canTransition(ui, ui') ]_ui
  <2> SUFFICES ASSUME TypeInv, RunInv, DialogueInv, [Next]_vars
               PROVE  canTransition(ui, ui')
    OBVIOUS
  <2>1. ui \in ExecutionState
    BY DEF TypeInv, TypeOK, MainTypeOK
  <2>2. ui \in { "paused", "waitingForInput" } => NoneSaid(sid)
    BY DEF DialogueInv, TurnInv, SuspendedTogether, LostAreSilent, Busy
  <2>3. ASSUME ui \in { "paused", "waitingForInput" } PROVE ui' # "semanticError"
    <3>1. CASE DeliverEvent
      <4>1. /\ Head(fromWorker) = fromWorker[1] /\ 1 \in 1 .. Len(fromWorker)
            /\ OnWorkerEvent(Head(fromWorker))
        BY <3>1, DeliveryPlaces
      <4>2. Head(fromWorker).sid # gen
        BY <2>2, <2>3, <4>1 DEF NoneSaid, RunInv, RunTracked, Busy
      <4> QED
        BY <2>3, <4>1, <4>2 DEF OnWorkerEvent, IsCurrent
    <3>2. CASE Kills
      BY <2>3, <3>2, KillEffect
    <3>3. CASE Student
      <4>1. PICK cmds : Reruns(cmds) \/ Stops(cmds) \/ Replies(cmds) \/ Remarks(cmds)
        BY <3>3, StudentOutcome
      <4> QED
        BY <2>3, <4>1 DEF Reruns, Stops, Replies, Remarks
    <3>4. CASE UNCHANGED ui
      BY <2>3, <3>4
    <3> QED
      BY <3>1, <3>2, <3>3, <3>4
      DEF Next, Deliver, Host, Worker, Kills, mainOnly, vars, mainVars
  <2>4. \/ UNCHANGED ui
        \/ ui \in Busy /\ ui' \in Busy
        \/ ui \in Busy /\ ui' \in Terminal
        \/ ui' = "running"
    BY StepEffect
  <2> QED
    BY <2>1, <2>3, <2>4 DEF canTransition, ExecutionState, Busy, Terminal
<1> QED
  BY <1>1, DialogueInductive, PTL DEF Spec, TransitionsAreLegal

\* And so do those that say how a session runs down.
LEMMA WindDownInductive == Spec => [](TypeInv /\ RunInv /\ DialogueInv /\ WindDownInv)
<1>1. Init => WindDownInv
  BY InitWindDown
<1>2. (TypeInv /\ RunInv /\ DialogueInv) /\ (TypeInv /\ RunInv /\ DialogueInv)'
        /\ WindDownInv /\ [Next]_vars => WindDownInv'
  <2> SUFFICES ASSUME TypeInv, TypeInv', RunInv, OrderInv, StepsBounded,
                      WaitsForStopped, [Next]_vars
               PROVE  StepsBounded' /\ WaitsForStopped'
    BY DEF DialogueInv, WindDownInv
  <2>1. StepsBounded'
    BY NoMoreWork DEF StepsBounded
  <2> QED
    BY <2>1, NextKeepsWaits
<1> QED
  BY <1>1, <1>2, DialogueInductive, PTL DEF Spec

\* A run that waits for its predecessor waits for a session that was told to
\* stop, never for one that waits for the student (WorkerSessionRunner.run,
\* which calls stop before it awaits runPromise).
THEOREM RunsWaitForStopped == Spec => []WaitsForStopped
BY WindDownInductive, PTL DEF WindDownInv

\* The instruction limit, and the order of the phases of a statement, are a
\* measure of every session that no command, answer or abort ever raises and
\* that each step of the session lowers: no program executes for ever, through
\* whatever pauses, prompts and timers (Interpreter.tick, maybeYieldEventLoop).
THEOREM SessionsEnd == Spec => SessionsWindDown
<1>1. TypeInv /\ RunInv /\ DialogueInv /\ WindDownInv
        /\ (TypeInv /\ RunInv /\ DialogueInv /\ WindDownInv)' /\ [Next]_vars =>
        [ \A s \in Session :
            /\ SessionWork(ses'[s]) <= SessionWork(ses[s])
            /\ SessionStep(s) => SessionWork(ses'[s]) < SessionWork(ses[s]) ]_vars
  BY NoMoreWork DEF DialogueInv, WindDownInv
<1> QED
  BY <1>1, WindDownInductive, PTL DEF Spec, SessionsWindDown

\* Once it was told to stop, a session stays told until its next step, and that
\* step ends it (stop and cancelInput against tick and maybeYieldEventLoop).
THEOREM AbortsEndNext == Spec => AbortedEndsNext
<1>1. TypeInv /\ RunInv /\ DialogueInv /\ [Next]_vars =>
        [ \A s \in Session : ses[s].abort =>
            /\ ses'[s].abort \/ ses'[s].pc = "ended"
            /\ SessionStep(s) => ses'[s].pc = "ended" ]_vars
  <2> SUFFICES ASSUME TypeInv, RunInv, OrderInv, [Next]_vars,
                      NEW s \in Session, ses[s].abort
               PROVE  /\ ses'[s].abort \/ ses'[s].pc = "ended"
                      /\ SessionStep(s) => ses'[s].pc = "ended"
    BY DEF DialogueInv
  <2>1. ses[s] \in SessionState /\ ses[s].pc \in { "run", "yield" }
    BY TypesKnown DEF OrderInv, AbortsAreSeen
  <2>2. ASSUME SessionStep(s) \/ RunRejects(s) PROVE ses'[s].pc = "ended"
    BY <2>2, SessionOutcome, StoppedLeaves, LeaveEnds
  <2> SUFFICES ses'[s].abort \/ ses'[s].pc = "ended"
    BY <2>2
  <2>3. CASE Kills
    <3>1. ses'[s].pc \in { "none", "ended" } /\ (ses'[s] = Fresh \/ ses'[s] = Over)
          /\ (ses[s].pc # "none" => ses'[s] = Over)
      BY <2>3, KillEffect
    <3> QED
      BY <2>1, <3>1 DEF Over, Fresh
  <2>4. CASE HandleWorkerCommand
    <3> DEFINE c == Head(toWorker)
    <3>1. Handled(c) /\ (IsRun(c) => ses[c.sid] = Fresh)
      BY <2>4, CommandOutcome, RunIsNewest, TypesKnown
    <3>2. ~(IsRun(c) /\ s = c.sid)
      BY <3>1, TypesKnown
    <3> HIDE DEF c
    <3> QED
      BY <2>1, <3>1, <3>2, AbortedEffect DEF Handled
  <2>5. ASSUME NEW t \in Session \ { s }, SessionStep(t) \/ RunRejects(t)
        PROVE  ses'[s].abort
    <3>1. ses'[s] = ses[s]
      BY <2>1, <2>5, SessionOutcome, MoveClasses
    <3> QED
      BY <3>1
  <2>6. CASE UNCHANGED ses
    BY <2>6
  <2>7. CASE Student
    BY <2>6, <2>7, StudentOutcome DEF workerVars
  <2> QED
    BY <2>2, <2>3, <2>4, <2>5, <2>6, <2>7
    DEF Next, Deliver, Host, Worker, Kills, Crash, workerVars, vars
<1> QED
  BY <1>1, DialogueInductive, PTL DEF Spec, AbortedEndsNext

\* The next step of the session that a run waits for is the one that wakes it:
\* a Restart is never left behind a session that goes on (the await of
\* runPromise, resolved in the finally block of run).
THEOREM QueuedRunsBegin == Spec => QueuedRunBegins
<1>1. TypeInv /\ RunInv /\ DialogueInv /\ WindDownInv /\ [Next]_vars =>
        [ \A s \in Session :
            (ses[s].pc = "queued" /\ SessionStep(ses[s].after)) =>
              ses'[s].pc = "begin" ]_vars
  <2> SUFFICES ASSUME TypeInv, RunInv, OrderInv, WaitsForStopped, NEW s \in Session,
                      ses[s].pc = "queued", SessionStep(ses[s].after)
               PROVE  ses'[s].pc = "begin"
    BY DEF DialogueInv, WindDownInv
  <2> DEFINE t == ses[s].after
  <2>1. t \in Session /\ ses[t].abort /\ SessionStep(t)
    BY DEF WaitsForStopped
  <2>2. t # s
    BY <2>1 DEF OrderInv, AbortsAreSeen
  <2>3. Leave(t)
    BY <2>1, SessionOutcome, StoppedLeaves
  <2> QED
    BY <2>1, <2>2, <2>3, LeaveWakes
<1> QED
  BY <1>1, WindDownInductive, PTL DEF Spec, QueuedRunBegins
=============================================================================
